------------------------ MODULE PlanExecution_proofs ------------------------
(***************************************************************************)
(* Theorems of PlanExecution, for every set of plans, every bound,         *)
(* whatever an agent uses, and whatever numbers a planner gives its rework *)
(* steps, those of plan steps included: its type invariant; that nothing   *)
(* which depends on a gated step starts before the gate is approved; and   *)
(* that an agent works on settled ground: what its step depends on is      *)
(* completed by its latest execution and merged, however lanes fail, retry *)
(* and rework.  A run that is not killed implements PlanContract.  Then    *)
(* what the engine accounts for: the completed executions that a pull      *)
(* request stands on when a run is resumed, what one round of lanes may    *)
(* use beyond the limit, the reworks of a step whose number is its own,    *)
(* and the executions recorded as running.                                 *)
(***************************************************************************)
EXTENDS PlanProperties, SequenceTheorems, FiniteSetTheorems, TLAPS

FrameOf(l) ==
  {f \in [num : Nat, of : {l, 0}, at : {"start", "agent", "quality", "replan"},
          exec : Nat, rework : Nat, todo : Seq(Nat), defer : BOOLEAN] :
     /\ f.at \in {"agent", "quality"} => f.exec # 0
     /\ f.of # 0 => f.num = l}
(* What the executions of a lane are of: its plan step, or a rework step *)
OfLane(l) == {l, 0}
LaneOf(l) == [frames : Seq(FrameOf(l)), result : LaneResult]

(* The type invariant, strengthened by what a lane executes: its own step   *)
(* and rework steps, whatever their numbers, with a call on top as long as  *)
(* it runs, and by the open review.                                         *)
ReviewOpen == ctl = "gate_review" => review \in gateTodo
StructInv ==
  /\ TypeOK
  /\ ReviewOpen
  /\ \A l \in DOMAIN lanes : /\ lanes[l] \in LaneOf(l)
                             /\ Running(l) => lanes[l].frames # <<>>

-----------------------------------------------------------------------------
(* The operators that the model is built from *)

(* Sequences of one and of two members *)
LEMMA ShortSequences ==
  ASSUME NEW S, NEW a \in S, NEW b \in S
  PROVE  <<a>> \in Seq(S) /\ <<a, b>> \in Seq(S)
  OBVIOUS

(* 0 is no plan step. *)
LEMMA PlanNumbers ==
  ASSUME NEW p \in Plans
  PROVE  Numbers(p) \subseteq Nat \ {0} /\ Numbers(p) \subseteq Nat /\ 0 \notin Numbers(p)
<1>1. p.order \in Seq(Nat \ {0})
  BY PlansAssumption DEF PlanType
<1>2. \A i \in DOMAIN p.order : p.order[i] \in Nat \ {0}
  BY <1>1, LenProperties, ElementOfSeq
<1>3. Numbers(p) \subseteq Nat \ {0}
  BY <1>2 DEF Numbers
<1> QED
  BY <1>3

(* Every rework plan is a sequence of step numbers, whatever they are. *)
LEMMA ReworkPlansType ==
  ASSUME NEW n \in Nat, NEW q \in ReworkPlans(n)
  PROVE  q \in Seq(Nat)
<1>1. ReworkBase \in Nat
  BY ReworkAssumption
<1>2. CASE q = <<ReworkBase + n>>
  <2>1. ReworkBase + n \in Nat
    BY <1>1
  <2> QED
    BY <1>2, <2>1
<1>3. CASE q \in LlmReworkPlans
  BY <1>3, ReworkAssumption
<1> QED
  BY <1>2, <1>3 DEF ReworkPlans

(* What Head and Tail return of a frame put in front of others *)
LEMMA PutOnTop ==
  ASSUME NEW S, NEW a \in S, NEW s \in Seq(S)
  PROVE  /\ <<a>> \o s \in Seq(S) /\ <<a>> \o s # <<>>
         /\ Head(<<a>> \o s) = a /\ Tail(<<a>> \o s) = s
<1>1. <<a>> \in Seq(S) /\ Len(<<a>>) = 1 /\ <<a>>[1] = a
  OBVIOUS
<1>2. Len(s) \in Nat
  BY LenProperties
<1>3. /\ <<a>> \o s \in Seq(S) /\ Len(<<a>> \o s) = 1 + Len(s)
      /\ \A i \in 1..(1 + Len(s)) : (<<a>> \o s)[i] = IF i <= 1 THEN <<a>>[i] ELSE s[i - 1]
  BY <1>1, ConcatProperties
<1>4. <<a>> \o s # <<>>
  BY <1>2, <1>3, EmptySeq
<1>5. /\ Tail(<<a>> \o s) \in Seq(S) /\ Len(Tail(<<a>> \o s)) = Len(s)
      /\ \A i \in 1..Len(s) : Tail(<<a>> \o s)[i] = s[i]
  BY <1>2, <1>3, <1>4, HeadTailProperties
<1> QED
  BY <1>1, <1>2, <1>3, <1>4, <1>5, SeqEqual

(* A new call is a frame of the lane it belongs to. *)
LEMMA StartFrameType ==
  ASSUME NEW l, NEW o \in {l, 0}, NEW n \in Nat, o # 0 => n = l, NEW d \in BOOLEAN
  PROVE  StartFrame(n, o, d) \in FrameOf(l)
<1>1. <<>> \in Seq(Nat)
  BY EmptySeq
<1> QED
  BY <1>1 DEF StartFrame, FrameOf

(* Going on with a call's rework plan keeps the frames of a lane. *)
LEMMA ProceedType ==
  ASSUME NEW l, NEW fr \in Seq(FrameOf(l)), fr # <<>>
  PROVE  /\ Proceed(fr) \in Seq(FrameOf(l))
         /\ Head(fr).exec # 0 => Proceed(fr) # <<>>
<1> DEFINE f == Head(fr)
<1>1. f \in FrameOf(l) /\ Tail(fr) \in Seq(FrameOf(l))
  BY HeadTailProperties
<1>2. CASE f.todo # <<>>
  <2>1. Head(f.todo) \in Nat /\ Tail(f.todo) \in Seq(Nat)
    <3>1. f.todo \in Seq(Nat)
      BY <1>1 DEF FrameOf
    <3> QED
      BY <3>1, <1>2, HeadTailProperties
  <2>2. StartFrame(Head(f.todo), 0, FALSE) \in FrameOf(l)
    BY <2>1, StartFrameType
  <2>3. [f EXCEPT !.todo = Tail(f.todo)] \in FrameOf(l)
    BY <1>1, <2>1 DEF FrameOf
  <2> DEFINE two == <<StartFrame(Head(f.todo), 0, FALSE), [f EXCEPT !.todo = Tail(f.todo)]>>
  <2>4. two \in Seq(FrameOf(l)) /\ Len(two) = 2
    BY <2>2, <2>3, ShortSequences
  <2>5. /\ two \o Tail(fr) \in Seq(FrameOf(l))
        /\ Len(two \o Tail(fr)) = 2 + Len(Tail(fr)) /\ Len(Tail(fr)) \in Nat
    BY <1>1, <2>4, ConcatProperties, LenProperties
  <2>6. two \o Tail(fr) # <<>>
    BY <2>5, EmptySeq
  <2>7. Proceed(fr) = two \o Tail(fr)
    BY <1>2 DEF Proceed
  <2> QED
    BY <2>5, <2>6, <2>7
<1>3. CASE f.todo = <<>> /\ f.exec = 0
  BY <1>3, EmptySeq DEF Proceed
<1>4. CASE f.todo = <<>> /\ f.exec # 0
  <2>1. f.num \in Nat /\ f.of \in {l, 0} /\ (f.of # 0 => f.num = l)
    BY <1>1 DEF FrameOf
  <2>2. StartFrame(f.num, f.of, FALSE) \in FrameOf(l)
    BY <2>1, StartFrameType
  <2>3. Proceed(fr) = <<StartFrame(f.num, f.of, FALSE)>> \o Tail(fr)
    BY <1>4 DEF Proceed
  <2> DEFINE g == StartFrame(f.num, f.of, FALSE)
  <2>4. <<g>> \o Tail(fr) \in Seq(FrameOf(l)) /\ <<g>> \o Tail(fr) # <<>>
    <3> HIDE DEF g
    <3> QED
      BY <1>1, <2>2, PutOnTop DEF g
  <2> QED
    BY <2>3, <2>4
<1> QED
  BY <1>2, <1>3, <1>4

(* Marking an execution keeps the length, the steps and the reviews of run.steps. *)
LEMMA MarkType ==
  ASSUME NEW s \in Seq(Execution), NEW i \in Nat, NEW st \in StepStatus
  PROVE  /\ Mark(s, i, st) \in Seq(Execution)
         /\ DOMAIN Mark(s, i, st) = DOMAIN s
         /\ \A j \in DOMAIN s : /\ Mark(s, i, st)[j].num = s[j].num
                                /\ Mark(s, i, st)[j].of = s[j].of
                                /\ Mark(s, i, st)[j].reviewed = s[j].reviewed
<1>1. s \in [1..Len(s) -> Execution] /\ Len(s) \in Nat /\ DOMAIN s = 1..Len(s)
  BY LenProperties
<1>2. Mark(s, i, st) \in [1..Len(s) -> Execution]
  BY <1>1 DEF Mark, Execution
<1> QED
  BY <1>1, <1>2, SeqDef DEF Mark, Execution

(* A new execution is one more entry, at the end of run.steps. *)
LEMMA BegunType ==
  ASSUME steps \in Seq(Execution), NEW f, f.num \in Nat, f.of \in Nat
  PROVE  /\ Begun(f) \in Seq(Execution)
         /\ Len(Begun(f)) \in Nat \ {0}
         /\ \A i \in DOMAIN Begun(f) :
              Begun(f)[i].reviewed =>
                i \in DOMAIN steps /\ Begun(f)[i] = steps[i]
<1> DEFINE e == [num |-> f.num, of |-> f.of, status |-> "running", reviewed |-> FALSE]
<1>1. e \in Execution
  BY DEF Execution, StepStatus
<1>2. Begun(f) = Append(steps, e)
  BY DEF Begun
<1>3. Append(steps, e) \in Seq(Execution) /\ Len(Append(steps, e)) = Len(steps) + 1
  BY <1>1
<1>4. \A i \in 1..(Len(steps) + 1) :
        Append(steps, e)[i] = IF i = Len(steps) + 1 THEN e ELSE steps[i]
  BY <1>1
<1>5. DOMAIN Append(steps, e) = 1..(Len(steps) + 1) /\ DOMAIN steps = 1..Len(steps)
  BY <1>3, LenProperties
<1> QED
  BY <1>2, <1>3, <1>4, <1>5

(* Setting rework counts leaves a map to numbers. *)
LEMMA WithCountsType ==
  ASSUME reworkCounts \in [DOMAIN reworkCounts -> Nat], DOMAIN reworkCounts \subseteq Nat,
         NEW D \in SUBSET Nat, NEW f \in [D -> Nat]
  PROVE  /\ WithCounts(f) \in [DOMAIN WithCounts(f) -> Nat]
         /\ DOMAIN WithCounts(f) \subseteq Nat
  BY DEF WithCounts

(* currentRework is a number, also of a step the map does not hold. *)
LEMMA CountType ==
  ASSUME reworkCounts \in [DOMAIN reworkCounts -> Nat], NEW n
  PROVE  Count(n) \in Nat
  BY DEF Count

(* What is used only grows, by no more than one agent run may use. *)
LEMMA AddsUseType ==
  ASSUME cost \in Nat, AddsUse
  PROVE  cost' \in Nat /\ cost' <= cost + MostUsed
<1>1. PICK u \in Uses : cost' = cost + u
  BY DEF AddsUse
<1>2. u \in Nat /\ u <= MostUsed /\ MostUsed \in Nat
  BY UsesAssumption
<1> QED
  BY <1>1, <1>2

-----------------------------------------------------------------------------
(* What a step of a lane may do to the rest of the state *)

(* The executions in s that are reviewed were so before. *)
ReviewedKept(s) ==
  \A i \in DOMAIN s :
    s[i].reviewed => i \in DOMAIN steps /\ steps[i].reviewed /\ steps[i].num = s[i].num

LaneChange(l) ==
  \E fr \in Seq(FrameOf(l)), r \in LaneResult :
    SetLane(l, fr, r) /\ (r = "running" => fr # <<>>)

LaneEffect(l) ==
  /\ LaneChange(l)
  /\ steps' \in Seq(Execution) /\ ReviewedKept(steps')
  /\ cost' \in Nat /\ status' \in RunStatus
  /\ disk' \in [status : RunStatus, steps : Seq(Execution), cost : Nat, pr : BOOLEAN]
  /\ DOMAIN reworkCounts' \subseteq Nat
  /\ reworkCounts' \in [DOMAIN reworkCounts' -> Nat]
  /\ signals' \in Seq([num : PlanSteps, rework : Nat])
  /\ \A i \in DOMAIN signals' :
       signals'[i].num = l \/ \E j \in DOMAIN signals : signals[j].num = signals'[i].num
  /\ approved' \subseteq approved
  /\ (approved \ approved') \cap PlanSteps \subseteq {l}
  /\ integrated' \subseteq PlanSteps
  /\ UNCHANGED <<plan, pr, ctl, completed, consent, gateVars, dirty, boundVars>>

(* The innermost call of a running lane, and what waits for it *)
LEMMA TopType ==
  ASSUME StructInv, NEW l \in DOMAIN lanes, Running(l)
  PROVE  /\ Top(l) \in FrameOf(l) /\ Callers(l) \in Seq(FrameOf(l))
         /\ l \in PlanSteps /\ l \in Nat \ {0}
         /\ Top(l).num \in Nat /\ Top(l).exec \in Nat /\ Top(l).rework \in Nat
         /\ Top(l).of \in Nat /\ (Top(l).of \in PlanSteps => Top(l).of = l)
<1>1. lanes[l].frames \in Seq(FrameOf(l)) /\ lanes[l].frames # <<>>
  BY DEF StructInv, LaneOf
<1>2. Top(l) \in FrameOf(l) /\ Callers(l) \in Seq(FrameOf(l))
  BY <1>1, HeadTailProperties DEF Top, Callers
<1>3. l \in PlanSteps /\ plan \in Plans
  BY DEF StructInv, TypeOK
<1>4. l \in Nat \ {0} /\ 0 \notin PlanSteps
  BY <1>3, PlanNumbers DEF PlanSteps
<1>5. /\ Top(l).num \in Nat /\ Top(l).exec \in Nat /\ Top(l).rework \in Nat
      /\ Top(l).of \in {l, 0}
  BY <1>2 DEF FrameOf
<1>6. Top(l).of \in Nat /\ (Top(l).of \in PlanSteps => Top(l).of = l)
  BY <1>4, <1>5
<1> QED
  BY <1>2, <1>3, <1>4, <1>5, <1>6

(* A new execution is not a reviewed one. *)
LEMMA BegunKept ==
  ASSUME steps \in Seq(Execution), NEW f, f.num \in Nat, f.of \in Nat
  PROVE  ReviewedKept(Begun(f))
  BY BegunType DEF ReviewedKept

(* Marking an execution reviews none. *)
LEMMA MarkKept ==
  ASSUME NEW s \in Seq(Execution), ReviewedKept(s), NEW i \in Nat, NEW st \in StepStatus
  PROVE  ReviewedKept(Mark(s, i, st))
<1>1. DOMAIN Mark(s, i, st) = DOMAIN s
  BY MarkType
<1>2. \A j \in DOMAIN s : /\ Mark(s, i, st)[j].num = s[j].num
                         /\ Mark(s, i, st)[j].reviewed = s[j].reviewed
  BY MarkType
<1> QED
  BY <1>1, <1>2 DEF ReviewedKept

(* Marking the execution of the call on top of a lane *)
LEMMA MarkSteps ==
  ASSUME StructInv, NEW i \in Nat, NEW st \in StepStatus
  PROVE  Mark(steps, i, st) \in Seq(Execution) /\ ReviewedKept(Mark(steps, i, st))
<1>1. steps \in Seq(Execution) /\ ReviewedKept(steps)
  BY DEF StructInv, TypeOK, ReviewedKept
<1> QED
  BY <1>1, MarkType, MarkKept

(* A lane that has returned or thrown has no calls left. *)
LEMMA EndsLane ==
  ASSUME NEW l, NEW r \in LaneResult \ {"running"}, SetLane(l, <<>>, r)
  PROVE  LaneChange(l)
  BY EmptySeq DEF LaneChange

(* A lane that failed has no calls left. *)
LEMMA FailsLane ==
  ASSUME NEW l, LaneFails(l)
  PROVE  LaneChange(l)
  BY EndsLane DEF LaneFails, LaneResult

(* A new call replaces the one on top of a lane, or goes on with it. *)
LEMMA ReplacesTop ==
  ASSUME NEW l, NEW f \in FrameOf(l), NEW c \in Seq(FrameOf(l)),
         SetLane(l, <<f>> \o c, "running")
  PROVE  LaneChange(l)
<1>1. <<f>> \in Seq(FrameOf(l)) /\ Len(<<f>>) = 1
  BY ShortSequences
<1>2. <<f>> \o c \in Seq(FrameOf(l)) /\ Len(<<f>> \o c) = 1 + Len(c)
  BY <1>1, ConcatProperties
<1>3. <<f>> \o c # <<>>
  BY <1>2, EmptySeq, LenProperties
<1> QED
  BY <1>2, <1>3 DEF LaneChange, LaneResult

(* A call that completes goes on with its caller, or ends its lane. *)
LEMMA StepCompletesEffect ==
  ASSUME StructInv, NEW l \in DOMAIN lanes, Running(l), StepCompletes(l)
  PROVE  LaneChange(l) /\ integrated' \subseteq PlanSteps
<1>1. Callers(l) \in Seq(FrameOf(l)) /\ l \in PlanSteps /\ integrated \subseteq PlanSteps
  BY TopType DEF StructInv, TypeOK
<1>2. CASE Callers(l) # <<>>
  <2>1. Proceed(Callers(l)) \in Seq(FrameOf(l))
    BY <1>1, <1>2, ProceedType
  <2> QED
    BY <1>1, <1>2, <2>1 DEF StepCompletes, LaneChange, LaneResult
<1>3. CASE Callers(l) = <<>>
  BY <1>1, <1>3, EndsLane DEF StepCompletes, LaneResult
<1> QED
  BY <1>2, <1>3

(* What none of a lane's steps touches *)
StructInvFacts ==
  /\ plan \in Plans /\ steps \in Seq(Execution) /\ cost \in Nat /\ status \in RunStatus
  /\ disk \in [status : RunStatus, steps : Seq(Execution), cost : Nat, pr : BOOLEAN]
  /\ DOMAIN reworkCounts \subseteq Nat /\ reworkCounts \in [DOMAIN reworkCounts -> Nat]
  /\ signals \in Seq([num : PlanSteps, rework : Nat])
  /\ integrated \subseteq PlanSteps
  /\ ReviewedKept(steps)
  /\ pr \in BOOLEAN

(* The parts of the invariant that most lane steps need *)
LEMMA StructFacts == ASSUME StructInv PROVE StructInvFacts
  BY DEF StructInv, StructInvFacts, TypeOK, ReviewedKept

USE DEF runVars, planVars, gateVars, storeVars, boundVars, histVars

(* StartAgent changes one lane, and takes back the approval of its step. *)
LEMMA StartAgentEffect ==
  ASSUME StructInv, NEW l \in DOMAIN lanes, StartAgent(l)
  PROVE  LaneEffect(l)
<1> DEFINE f == Top(l)
           b == Begun(f)
<1>1. Running(l)
  BY DEF StartAgent
<1>2. /\ f \in FrameOf(l) /\ Callers(l) \in Seq(FrameOf(l)) /\ f.num \in Nat
      /\ f.of \in Nat /\ (f.of \in PlanSteps => f.of = l)
  BY <1>1, TopType
<1>3. b \in Seq(Execution) /\ Len(b) \in Nat \ {0} /\ ReviewedKept(b)
  BY <1>2, StructFacts, BegunType, BegunKept DEF StructInvFacts
<1>4. Count(f.num) \in Nat
  BY StructFacts, CountType DEF StructInvFacts
<1>5. [f EXCEPT !.at = "agent", !.exec = Len(b), !.rework = Count(f.num)] \in FrameOf(l)
  BY <1>2, <1>3, <1>4 DEF FrameOf
<1>6. LaneChange(l)
  BY <1>2, <1>5, ReplacesTop DEF StartAgent
<1>7. disk' \in [status : RunStatus, steps : Seq(Execution), cost : Nat, pr : BOOLEAN]
  BY <1>3, StructFacts DEF StartAgent, RunRecord, StructInvFacts
<1> QED
  BY <1>2, <1>3, <1>6, <1>7, StructFacts DEF StartAgent, LaneEffect, StructInvFacts

(* LimitReached changes one lane, and takes back the approval of its step. *)
LEMMA LimitReachedEffect ==
  ASSUME StructInv, NEW l \in DOMAIN lanes, LimitReached(l)
  PROVE  LaneEffect(l)
<1> DEFINE f == Top(l)
           b == Begun(f)
<1>1. Running(l)
  BY DEF LimitReached
<1>2. f.num \in Nat /\ f.of \in Nat /\ (f.of \in PlanSteps => f.of = l)
  BY <1>1, TopType
<1>3. b \in Seq(Execution) /\ Len(b) \in Nat \ {0} /\ ReviewedKept(b)
  BY <1>2, StructFacts, BegunType, BegunKept DEF StructInvFacts
<1>4. Mark(b, Len(b), "failed") \in Seq(Execution) /\ ReviewedKept(Mark(b, Len(b), "failed"))
  BY <1>3, MarkType, MarkKept DEF StepStatus
<1>5. LaneChange(l)
  BY FailsLane DEF LimitReached
<1>6. disk' \in [status : RunStatus, steps : Seq(Execution), cost : Nat, pr : BOOLEAN]
  BY <1>3, StructFacts DEF LimitReached, RunRecord, StructInvFacts
<1> QED
  BY <1>2, <1>4, <1>5, <1>6, StructFacts DEF LimitReached, LaneEffect, StructInvFacts

(* StartThrows changes one lane, and takes back the approval of its step. *)
LEMMA StartThrowsEffect ==
  ASSUME StructInv, NEW l \in DOMAIN lanes, StartThrows(l)
  PROVE  LaneEffect(l)
<1> DEFINE f == Top(l)
           b == Begun(f)
           i == Head(Callers(l)).exec
<1>1. Running(l)
  BY DEF StartThrows
<1>2. /\ f.num \in Nat /\ f.of \in Nat /\ (f.of \in PlanSteps => f.of = l)
      /\ Callers(l) \in Seq(FrameOf(l))
  BY <1>1, TopType
<1>3. b \in Seq(Execution) /\ ReviewedKept(b)
  BY <1>2, StructFacts, BegunType, BegunKept DEF StructInvFacts
<1>4. ASSUME Callers(l) # <<>>
      PROVE  /\ Mark(b, i, "failed") \in Seq(Execution)
             /\ ReviewedKept(Mark(b, i, "failed"))
  <2>1. Head(Callers(l)) \in FrameOf(l)
    BY <1>2, <1>4, HeadTailProperties
  <2>2. i \in Nat
    BY <2>1 DEF FrameOf
  <2> QED
    BY <1>3, <2>2, MarkType, MarkKept DEF StepStatus
<1>5. steps' \in Seq(Execution) /\ ReviewedKept(steps')
  BY <1>3, <1>4 DEF StartThrows
<1>6. LaneChange(l)
  BY EndsLane DEF StartThrows, LaneResult
<1>7. disk' \in [status : RunStatus, steps : Seq(Execution), cost : Nat, pr : BOOLEAN]
  BY <1>3, StructFacts DEF StartThrows, RunRecord, StructInvFacts
<1> QED
  BY <1>2, <1>5, <1>6, <1>7, StructFacts DEF StartThrows, LaneEffect, StructInvFacts

(* SubWorktreeFails changes one lane. *)
LEMMA SubWorktreeFailsEffect ==
  ASSUME StructInv, NEW l \in DOMAIN lanes, SubWorktreeFails(l)
  PROVE  LaneEffect(l)
<1>1. LaneChange(l)
  BY EndsLane DEF SubWorktreeFails, LaneResult
<1> QED
  BY <1>1, StructFacts DEF SubWorktreeFails, LaneEffect, StructInvFacts

(* AgentCompletes changes one lane. *)
LEMMA AgentCompletesEffect ==
  ASSUME StructInv, NEW l \in DOMAIN lanes, AgentCompletes(l)
  PROVE  LaneEffect(l)
<1> DEFINE f == Top(l)
<1>1. Running(l)
  BY DEF AgentCompletes
<1>2. f \in FrameOf(l) /\ Callers(l) \in Seq(FrameOf(l)) /\ f.exec \in Nat
  BY <1>1, TopType
<1>3. steps' \in Seq(Execution) /\ ReviewedKept(steps')
  BY <1>2, MarkSteps DEF AgentCompletes, StepStatus
<1>4. LaneChange(l) /\ integrated' \subseteq PlanSteps
  <2>1. CASE /\ SetLane(l, <<[f EXCEPT !.at = "quality"]>> \o Callers(l), "running")
             /\ integrated' = integrated
    <3>1. [f EXCEPT !.at = "quality"] \in FrameOf(l)
      BY <1>2 DEF FrameOf, AgentCompletes
    <3> QED
      BY <1>2, <2>1, <3>1, ReplacesTop, StructFacts DEF StructInvFacts
  <2>2. CASE StepCompletes(l)
    BY <1>1, <2>2, StepCompletesEffect
  <2> QED
    BY <2>1, <2>2 DEF AgentCompletes
<1>5. cost' \in Nat
  BY AddsUseType, StructFacts DEF AgentCompletes, StructInvFacts
<1> QED
  BY <1>3, <1>4, <1>5, StructFacts DEF AgentCompletes, LaneEffect, StructInvFacts

(* CommitFails and AgentFails change one lane. *)
LEMMA AgentEndsEffect ==
  ASSUME StructInv, NEW l \in DOMAIN lanes, CommitFails(l) \/ AgentFails(l)
  PROVE  LaneEffect(l)
<1>1. Running(l)
  BY DEF CommitFails, AgentFails
<1>2. steps' \in Seq(Execution) /\ ReviewedKept(steps')
  BY <1>1, TopType, MarkSteps DEF CommitFails, AgentFails, StepStatus
<1>3. LaneChange(l)
  BY FailsLane DEF CommitFails, AgentFails
<1>4. cost' \in Nat /\ status' \in RunStatus
  BY AddsUseType, StructFacts DEF CommitFails, AgentFails, StructInvFacts, RunStatus
<1> QED
  BY <1>2, <1>3, <1>4, StructFacts DEF CommitFails, AgentFails, LaneEffect, StructInvFacts

(* AgentSignalsRework changes one lane. *)
LEMMA AgentSignalsReworkEffect ==
  ASSUME StructInv, NEW l \in DOMAIN lanes, AgentSignalsRework(l)
  PROVE  LaneEffect(l)
<1> DEFINE e == [num |-> l, rework |-> Top(l).rework]
           E == [num : PlanSteps, rework : Nat]
<1>1. Running(l)
  BY DEF AgentSignalsRework
<1>2. Top(l).exec \in Nat /\ e \in E
  BY <1>1, TopType
<1>3. steps' \in Seq(Execution) /\ ReviewedKept(steps')
  BY <1>2, MarkSteps DEF AgentSignalsRework, StepStatus
<1>4. LaneChange(l)
  BY EndsLane DEF AgentSignalsRework, LaneResult
<1>5. signals \in Seq(E) /\ signals' = Append(signals, e)
  BY StructFacts DEF StructInvFacts, AgentSignalsRework
<1>6. /\ signals' \in Seq(E) /\ Len(signals') = Len(signals) + 1
      /\ \A i \in 1..(Len(signals) + 1) :
           signals'[i] = IF i = Len(signals) + 1 THEN e ELSE signals[i]
  BY <1>2, <1>5
<1>7. DOMAIN signals' = 1..(Len(signals) + 1) /\ DOMAIN signals = 1..Len(signals)
  BY <1>5, <1>6, LenProperties
<1>8. \A i \in DOMAIN signals' :
        signals'[i].num = l \/ \E j \in DOMAIN signals : signals[j].num = signals'[i].num
  BY <1>5, <1>6, <1>7, LenProperties
<1>9. cost' \in Nat
  BY AddsUseType, StructFacts DEF AgentSignalsRework, StructInvFacts
<1> QED
  BY <1>3, <1>4, <1>6, <1>8, <1>9, StructFacts DEF AgentSignalsRework, LaneEffect, StructInvFacts

(* One more rework cycle of the call on top of a lane *)
LEMMA CountsRework ==
  ASSUME StructInv, NEW n \in Nat, NEW k \in Nat,
         reworkCounts' = WithCounts([m \in {n} |-> k + 1])
  PROVE  /\ DOMAIN reworkCounts' \subseteq Nat
         /\ reworkCounts' \in [DOMAIN reworkCounts' -> Nat]
<1> DEFINE g == [m \in {n} |-> k + 1]
<1>1. g \in [{n} -> Nat] /\ {n} \in SUBSET Nat
  OBVIOUS
<1>2. reworkCounts \in [DOMAIN reworkCounts -> Nat] /\ DOMAIN reworkCounts \subseteq Nat
  BY StructFacts DEF StructInvFacts
<1>3. /\ WithCounts(g) \in [DOMAIN WithCounts(g) -> Nat]
      /\ DOMAIN WithCounts(g) \subseteq Nat
  BY <1>1, <1>2, WithCountsType
<1> QED
  BY <1>3

(* AgentNeedsRework changes one lane. *)
LEMMA AgentNeedsReworkEffect ==
  ASSUME StructInv, NEW l \in DOMAIN lanes, AgentNeedsRework(l)
  PROVE  LaneEffect(l)
<1> DEFINE f == Top(l)
<1>1. Running(l)
  BY DEF AgentNeedsRework
<1>2. /\ f \in FrameOf(l) /\ Callers(l) \in Seq(FrameOf(l)) /\ f.exec \in Nat
      /\ f.num \in Nat /\ f.rework \in Nat
  BY <1>1, TopType
<1>3. steps' \in Seq(Execution) /\ ReviewedKept(steps')
  BY <1>2, MarkSteps DEF AgentNeedsRework, StepStatus
<1>4. DOMAIN reworkCounts' \subseteq Nat /\ reworkCounts' \in [DOMAIN reworkCounts' -> Nat]
  BY <1>2, CountsRework, StructFacts DEF AgentNeedsRework, StructInvFacts
<1>5. LaneChange(l)
  <2>1. CASE LaneFails(l)
    BY <2>1, FailsLane
  <2>2. CASE \E p \in ReworkPlans(f.num) :
               SetLane(l, Proceed(<<[f EXCEPT !.at = "replan", !.todo = p]>> \o Callers(l)),
                       "running")
    <3>1. PICK p \in ReworkPlans(f.num) :
            SetLane(l, Proceed(<<[f EXCEPT !.at = "replan", !.todo = p]>> \o Callers(l)),
                    "running")
      BY <2>2
    <3>2. p \in Seq(Nat)
      BY <1>2, ReworkPlansType
    <3> DEFINE g == [f EXCEPT !.at = "replan", !.todo = p]
               fr == <<g>> \o Callers(l)
    <3>3. g \in FrameOf(l) /\ g.exec = f.exec
      BY <1>2, <3>2 DEF FrameOf
    <3>4. g.exec # 0
      BY <1>2, <3>3 DEF AgentNeedsRework, FrameOf
    <3>5. fr \in Seq(FrameOf(l)) /\ fr # <<>> /\ Head(fr) = g /\ Tail(fr) = Callers(l)
      BY <1>2, <3>3, PutOnTop
    <3>6. Proceed(fr) \in Seq(FrameOf(l)) /\ Proceed(fr) # <<>>
      BY <3>4, <3>5, ProceedType
    <3> QED
      BY <3>1, <3>6 DEF LaneChange, LaneResult
  <2> QED
    BY <2>1, <2>2 DEF AgentNeedsRework
<1>6. /\ AddsUse
      /\ UNCHANGED <<plan, status, pr, ctl, completed, signals, consent, gateVars, storeVars,
                     boundVars, histVars>>
  BY DEF AgentNeedsRework
<1>7. cost' \in Nat
  BY <1>6, AddsUseType, StructFacts DEF StructInvFacts
<1> QED
  BY <1>3, <1>4, <1>5, <1>6, <1>7, StructFacts DEF LaneEffect, StructInvFacts

(* QualityGatePasses changes one lane. *)
LEMMA QualityGatePassesEffect ==
  ASSUME StructInv, NEW l \in DOMAIN lanes, QualityGatePasses(l)
  PROVE  LaneEffect(l)
<1>1. LaneChange(l) /\ integrated' \subseteq PlanSteps
  BY StepCompletesEffect DEF QualityGatePasses
<1>2. UNCHANGED <<plan, runVars, ctl, planVars, gateVars, storeVars, boundVars, approved>>
  BY DEF QualityGatePasses
<1> QED
  BY <1>1, <1>2, StructFacts DEF LaneEffect, StructInvFacts

(* QualityGateFails changes one lane. *)
LEMMA QualityGateFailsEffect ==
  ASSUME StructInv, NEW l \in DOMAIN lanes, QualityGateFails(l)
  PROVE  LaneEffect(l)
<1> DEFINE f == Top(l)
           g == StartFrame(f.num, f.of, FALSE)
<1>1. Running(l)
  BY DEF QualityGateFails
<1>2. /\ f \in FrameOf(l) /\ Callers(l) \in Seq(FrameOf(l)) /\ f.exec \in Nat
      /\ f.num \in Nat /\ f.rework \in Nat
  BY <1>1, TopType
<1>3. steps' \in Seq(Execution) /\ ReviewedKept(steps')
  BY <1>2, MarkSteps DEF QualityGateFails, StepStatus
<1>4. DOMAIN reworkCounts' \subseteq Nat /\ reworkCounts' \in [DOMAIN reworkCounts' -> Nat]
  BY <1>2, CountsRework, StructFacts DEF QualityGateFails, StructInvFacts
<1>5. LaneChange(l)
  <2>1. CASE LaneFails(l)
    BY <2>1, FailsLane
  <2>2. CASE SetLane(l, <<g>> \o Callers(l), "running")
    <3>1. f.num \in Nat /\ f.of \in {l, 0} /\ (f.of # 0 => f.num = l)
      BY <1>2 DEF FrameOf
    <3>2. g \in FrameOf(l)
      BY <3>1, StartFrameType
    <3> QED
      BY <1>2, <2>2, <3>2, ReplacesTop
  <2> QED
    BY <2>1, <2>2 DEF QualityGateFails
<1>6. UNCHANGED <<plan, status, cost, pr, ctl, completed, signals, consent, gateVars,
                  storeVars, boundVars, histVars>>
  BY DEF QualityGateFails
<1> QED
  BY <1>3, <1>4, <1>5, <1>6, StructFacts DEF LaneEffect, StructInvFacts

(* Every step of executeStepBody changes one lane. *)
LEMMA LaneStepEffect ==
  ASSUME StructInv, NEW l \in DOMAIN lanes, LaneStep(l)
  PROVE  LaneEffect(l)
  BY StartAgentEffect, LimitReachedEffect, StartThrowsEffect, SubWorktreeFailsEffect,
     AgentCompletesEffect, AgentEndsEffect, AgentSignalsReworkEffect, AgentNeedsReworkEffect,
     QualityGatePassesEffect, QualityGateFailsEffect
  DEF LaneStep

-----------------------------------------------------------------------------
(* Type correctness *)

(* No lanes and no counts are functions with an empty domain. *)
LEMMA NoLanesType ==
  /\ DOMAIN NoLanes = {}
  /\ NoLanes \in [DOMAIN NoLanes -> Lane]
  /\ DOMAIN NoCounts = {} /\ NoCounts \in [DOMAIN NoCounts -> Nat]
  BY DEF NoLanes, NoCounts

(* The frames of a lane are frames. *)
LEMMA LaneOfType ==
  ASSUME NEW l \in Nat
  PROVE  LaneOf(l) \subseteq Lane
<1>3. FrameOf(l) \subseteq Frame
  BY DEF FrameOf, Frame
<1>4. Seq(FrameOf(l)) \subseteq Seq(Frame)
  BY <1>3, SeqMonotonic
<1> QED
  BY <1>4 DEF LaneOf, Lane

(* The lanes keep the strengthened type invariant. *)
LEMMA LaneStepStruct ==
  ASSUME StructInv, NEW l \in DOMAIN lanes, LaneStep(l)
  PROVE  StructInv'
<1>1. LaneEffect(l)
  BY LaneStepEffect
<1>2. PICK fr \in Seq(FrameOf(l)), r \in LaneResult :
        SetLane(l, fr, r) /\ (r = "running" => fr # <<>>)
  BY <1>1 DEF LaneEffect, LaneChange
<1>3. /\ DOMAIN lanes' = DOMAIN lanes
      /\ lanes'[l] = [frames |-> fr, result |-> r]
      /\ \A m \in DOMAIN lanes \ {l} : lanes'[m] = lanes[m]
  BY <1>2 DEF SetLane
<1>4. lanes'[l] \in LaneOf(l)
  BY <1>3 DEF LaneOf
<1>5. \A m \in DOMAIN lanes' : /\ lanes'[m] \in LaneOf(m)
                               /\ lanes'[m].result = "running" => lanes'[m].frames # <<>>
  BY <1>2, <1>3, <1>4 DEF StructInv, Running
<1>6. DOMAIN lanes \subseteq PlanSteps /\ PlanSteps \subseteq Nat /\ plan' = plan
  BY <1>1, PlanNumbers DEF StructInv, TypeOK, LaneEffect, PlanSteps
<1>7. lanes' \in [DOMAIN lanes' -> Lane]
  <2>1. \A m \in DOMAIN lanes' : lanes'[m] \in Lane
    BY <1>3, <1>5, <1>6, LaneOfType
  <2>2. lanes' = [m \in DOMAIN lanes |-> lanes'[m]]
    BY <1>2, <1>3 DEF SetLane, StructInv, TypeOK
  <2> QED
    BY <1>3, <2>1, <2>2
<1>8. TypeOK' /\ ReviewOpen'
  BY <1>1, <1>3, <1>6, <1>7 DEF ReviewOpen, LaneEffect, StructInv, TypeOK, PlanSteps
<1> QED
  BY <1>5, <1>8 DEF StructInv, Running

(* The part of StructInv about lanes, when they stay or are given up *)
LEMMA SameLanes ==
  ASSUME StructInv, TypeOK', ReviewOpen', lanes' \in {lanes, NoLanes}
  PROVE  StructInv'
  BY NoLanesType DEF StructInv, Running

(* Launching plan steps keeps it. *)
LEMMA LaunchStruct ==
  ASSUME StructInv, NEW G \in SUBSET Ready, NEW d \in BOOLEAN, Launch(G, d)
  PROVE  StructInv'
<1>1. G \subseteq PlanSteps /\ PlanSteps \subseteq Nat /\ plan' = plan
  BY PlanNumbers DEF StructInv, TypeOK, Ready, PlanSteps, Launch
<1>2. \A l \in G : /\ <<StartFrame(l, l, d)>> \in Seq(FrameOf(l))
                   /\ <<StartFrame(l, l, d)>> # <<>>
  <2> SUFFICES ASSUME NEW l \in G
               PROVE  /\ <<StartFrame(l, l, d)>> \in Seq(FrameOf(l))
                      /\ <<StartFrame(l, l, d)>> # <<>>
    OBVIOUS
  <2>1. l \in Nat
    BY <1>1
  <2>2. StartFrame(l, l, d) \in FrameOf(l)
    BY <2>1, StartFrameType
  <2> QED
    BY <2>2, ShortSequences
<1>3. /\ DOMAIN lanes' = G
      /\ \A l \in G : lanes'[l] = [frames |-> <<StartFrame(l, l, d)>>, result |-> "running"]
      /\ lanes' = [l \in G |-> lanes'[l]]
  BY DEF Launch
<1>4. \A l \in DOMAIN lanes' : lanes'[l] \in LaneOf(l) /\ lanes'[l].frames # <<>>
  <2> SUFFICES ASSUME NEW l \in G
               PROVE  lanes'[l] \in LaneOf(l) /\ lanes'[l].frames # <<>>
    BY <1>3
  <2>1. /\ <<StartFrame(l, l, d)>> \in Seq(FrameOf(l)) /\ <<StartFrame(l, l, d)>> # <<>>
        /\ lanes'[l] = [frames |-> <<StartFrame(l, l, d)>>, result |-> "running"]
    BY <1>2, <1>3
  <2> QED
    BY <2>1 DEF LaneOf, LaneResult
<1>5. lanes' \in [DOMAIN lanes' -> Lane]
  <2>1. \A l \in G : lanes'[l] \in Lane
    BY <1>1, <1>3, <1>4, LaneOfType
  <2> QED
    BY <1>3, <2>1
<1>6. signals' \in Seq([num : PlanSteps', rework : Nat])
  BY <1>1, EmptySeq DEF Launch, PlanSteps
<1>7. TypeOK' /\ ReviewOpen'
  BY <1>1, <1>3, <1>5, <1>6 DEF ReviewOpen, Launch, StructInv, TypeOK, PlanSteps, Control
<1> QED
  BY <1>4, <1>7 DEF StructInv

(* The merged rework of a group keeps it. *)
LEMMA GroupReplansStruct ==
  ASSUME StructInv, GroupReplans
  PROVE  StructInv'
<1> DEFINE s == signals[1].num
           N == {signals[i].num : i \in DOMAIN signals}
           g == [n \in N |-> LET i == CHOOSE i \in DOMAIN signals : signals[i].num = n
                             IN signals[i].rework + 1]
<1>1. /\ signals \in Seq([num : PlanSteps, rework : Nat]) /\ signals # <<>>
      /\ plan' = plan /\ signals' = <<>> /\ reworkCounts' = WithCounts(g)
  BY DEF StructInv, TypeOK, GroupReplans
<1>2. /\ 1 \in DOMAIN signals
      /\ \A i \in DOMAIN signals : signals[i] \in [num : PlanSteps, rework : Nat]
  <2> HIDE DEF s, N, g
  <2>1. /\ Len(signals) \in Nat \ {0} /\ DOMAIN signals = 1..Len(signals)
        /\ signals \in [1..Len(signals) -> [num : PlanSteps, rework : Nat]]
    BY <1>1, EmptySeq, LenProperties
  <2> QED
    BY <2>1
<1>3. PlanSteps \subseteq Nat
  BY PlanNumbers DEF StructInv, TypeOK, PlanSteps
<1>4. s \in PlanSteps /\ s \in Nat /\ N \in SUBSET Nat
  <2>1. s \in PlanSteps /\ N \subseteq PlanSteps
    BY <1>2
  <2> HIDE DEF s, N
  <2> QED
    BY <1>3, <2>1
<1>5. g \in [N -> Nat]
  BY <1>2
<1>6. DOMAIN reworkCounts' \subseteq Nat /\ reworkCounts' \in [DOMAIN reworkCounts' -> Nat]
  BY <1>1, <1>4, <1>5, WithCountsType DEF StructInv, TypeOK
<1>7. signals' \in Seq([num : PlanSteps', rework : Nat])
  BY <1>1, EmptySeq
<1>8. ASSUME NEW p \in ReworkPlans(s),
             NEW fr, fr = Proceed(<<[StartFrame(s, s, FALSE) EXCEPT !.at = "replan", !.todo = p]>>),
             lanes' = [l \in {s} |->
                         [frames |-> fr, result |-> IF fr = <<>> THEN "completed" ELSE "running"]],
             ctl' = "rework"
      PROVE  StructInv'
  <2> DEFINE f == [StartFrame(s, s, FALSE) EXCEPT !.at = "replan", !.todo = p]
  <2>1. f \in FrameOf(s)
    <3>1. p \in Seq(Nat)
      BY <1>4, ReworkPlansType
    <3>2. StartFrame(s, s, FALSE) \in FrameOf(s)
      BY <1>4, StartFrameType
    <3> QED
      BY <3>1, <3>2 DEF FrameOf
  <2>2. <<f>> \in Seq(FrameOf(s)) /\ <<f>> # <<>>
    BY <2>1, ShortSequences
  <2>3. fr \in Seq(FrameOf(s))
    BY <1>8, <2>2, ProceedType
  <2>4. /\ DOMAIN lanes' = {s} /\ lanes'[s] \in LaneOf(s)
        /\ lanes'[s].result = "running" => lanes'[s].frames # <<>>
    BY <1>8, <2>3 DEF LaneOf, LaneResult
  <2>5. lanes' \in [DOMAIN lanes' -> Lane]
    BY <1>4, <1>8, <2>4, LaneOfType
  <2>6. TypeOK' /\ ReviewOpen'
    BY <1>1, <1>4, <1>6, <1>7, <1>8, <2>4, <2>5
    DEF GroupReplans, StructInv, TypeOK, PlanSteps, Control, ReviewOpen
  <2> QED
    BY <2>4, <2>6 DEF StructInv, Running
<1>9. ASSUME lanes' = NoLanes, ctl' = "unwind"
      PROVE  StructInv'
  <2>1. TypeOK' /\ ReviewOpen'
    BY <1>1, <1>6, <1>7, <1>9, NoLanesType
    DEF GroupReplans, StructInv, TypeOK, PlanSteps, Control, ReviewOpen
  <2> QED
    BY <1>9, <2>1, SameLanes
<1> QED
  BY <1>8, <1>9 DEF GroupReplans

(* An approval reviews executions of the step under review only. *)
LEMMA ReviewType ==
  ASSUME StructInv, ReviewApproved
  PROVE  /\ steps' \in Seq(Execution) /\ DOMAIN steps' = DOMAIN steps
         /\ \A i \in DOMAIN steps :
              /\ steps'[i].num = steps[i].num
              /\ steps'[i].reviewed => steps[i].reviewed \/ steps[i].num = review
<1>1. steps \in [1..Len(steps) -> Execution] /\ Len(steps) \in Nat /\ DOMAIN steps = 1..Len(steps)
  BY LenProperties DEF StructInv, TypeOK
<1>2. /\ DOMAIN steps' = DOMAIN steps
      /\ \A i \in DOMAIN steps : steps'[i] = IF FirstCompleted(i, review)
                                             THEN [steps[i] EXCEPT !.reviewed = TRUE]
                                             ELSE steps[i]
      /\ steps' = [i \in DOMAIN steps |-> steps'[i]]
  BY DEF ReviewApproved
<1>3. \A i \in DOMAIN steps :
        /\ steps'[i] \in Execution
        /\ steps'[i].num = steps[i].num
        /\ steps'[i].reviewed => steps[i].reviewed \/ steps[i].num = review
  BY <1>1, <1>2 DEF Execution, FirstCompleted
<1>4. steps' \in [1..Len(steps) -> Execution]
  BY <1>1, <1>2, <1>3
<1> QED
  BY <1>1, <1>2, <1>3, <1>4, SeqDef

(* Marking interrupted executions keeps run.steps a sequence of executions. *)
LEMMA InterruptedType ==
  ASSUME NEW s \in Seq(Execution)
  PROVE  Interrupted(s) \in Seq(Execution)
<1>1. s \in [1..Len(s) -> Execution] /\ Len(s) \in Nat /\ DOMAIN s = 1..Len(s)
  BY LenProperties
<1>2. Interrupted(s) \in [1..Len(s) -> Execution]
  BY <1>1 DEF Interrupted, Execution, StepStatus
<1> QED
  BY <1>1, <1>2, SeqDef

(* The steps of executePlan after which no lane is left, or the lanes stay *)
LEMMA EngineStruct ==
  ASSUME StructInv, Engine
  PROVE  StructInv'
<1> USE DEF StructInv, TypeOK, PlanSteps, Control, RunStatus, ReviewOpen
<1>1. CASE LaunchParallel
  BY <1>1, LaunchStruct DEF LaunchParallel
<1>2. CASE LaunchSequential
  <2>1. PICK s \in Ready : Launch({s}, FALSE)
    BY <1>2 DEF LaunchSequential
  <2> QED
    BY <2>1, LaunchStruct
<1>3. CASE PlanDeadlock
  <2>1. TypeOK' /\ ReviewOpen' /\ lanes' = lanes
    BY <1>3 DEF PlanDeadlock, FailRun
  <2> QED
    BY <2>1, SameLanes
<1>4. CASE GroupFails
  <2>1. signals' \in Seq([num : PlanSteps', rework : Nat]) /\ lanes' = NoLanes
    BY <1>4, EmptySeq DEF GroupFails
  <2>2. TypeOK' /\ ReviewOpen'
    BY <1>4, <2>1, NoLanesType DEF GroupFails, FailRun
  <2> QED
    BY <2>1, <2>2, SameLanes
<1>5. CASE GroupReplans
  BY <1>5, GroupReplansStruct
<1>6. CASE ReworkDone
  <2>1. TypeOK' /\ ReviewOpen' /\ lanes' = NoLanes
    BY <1>6, NoLanesType DEF ReworkDone
  <2> QED
    BY <2>1, SameLanes
<1>7. CASE GroupCompletes
  <2>1. TypeOK' /\ ReviewOpen' /\ lanes' = NoLanes
    BY <1>7, NoLanesType DEF GroupCompletes
  <2> QED
    BY <2>1, SameLanes
<1>8. CASE LaneThrew
  <2>1. TypeOK' /\ ReviewOpen' /\ lanes' = lanes
    BY <1>8 DEF LaneThrew
  <2> QED
    BY <2>1, SameLanes
<1>9. CASE SkipConfirmation \/ AskConfirmation \/ ConfirmationGiven \/ ConfirmationRefused
  <2>1. TypeOK' /\ ReviewOpen' /\ lanes' = lanes
    BY <1>9 DEF SkipConfirmation, AskConfirmation, ConfirmationGiven, ConfirmationRefused,
                FailRun, OpenGates
  <2> QED
    BY <2>1, SameLanes
<1>10. CASE SkipGate \/ RequestReview \/ ReviewRejected \/ GatesDone
  <2>1. TypeOK' /\ ReviewOpen' /\ lanes' = lanes
    BY <1>10 DEF SkipGate, RequestReview, ReviewRejected, GatesDone, FailRun
  <2> QED
    BY <2>1, SameLanes
<1>11. CASE ReviewApproved
  <2> USE DEF ReviewApproved
  <2>1. steps' \in Seq(Execution)
    BY <1>11, ReviewType
  <2>2. approved' \subseteq PlanSteps'
    BY <1>11
  <2>3. TypeOK' /\ ReviewOpen' /\ lanes' = lanes
    BY <1>11, <2>1, <2>2
  <2> QED
    BY <2>3, SameLanes
<1>12. CASE PlanCompleted \/ EngineThrows \/ Teardown \/ Finalize
  <2>1. TypeOK' /\ ReviewOpen' /\ lanes' = lanes
    BY <1>12 DEF PlanCompleted, EngineThrows, Teardown, Finalize
  <2> QED
    BY <2>1, SameLanes
<1> QED
  BY <1>1, <1>2, <1>3, <1>4, <1>5, <1>6, <1>7, <1>8, <1>9, <1>10, <1>11, <1>12 DEF Engine

(* The disk, a crash, a cancellation and a resume keep it. *)
LEMMA EnvironmentStruct ==
  ASSUME StructInv, Environment
  PROVE  StructInv'
<1> USE DEF StructInv, TypeOK, PlanSteps, Control, RunStatus, ReviewOpen
<1>1. CASE FlushRunState
  <2>1. TypeOK' /\ ReviewOpen' /\ lanes' = lanes
    BY ZenonT(30), <1>1 DEF FlushRunState, RunRecord
  <2> QED
    BY <2>1, SameLanes
<1>4. CASE CancelSession
  <2>1. TypeOK' /\ ReviewOpen' /\ lanes' = lanes
    BY <1>4 DEF CancelSession
  <2> QED
    BY <2>1, SameLanes
<1>2. CASE ProcessDies
  <2>1. signals' \in Seq([num : PlanSteps', rework : Nat]) /\ lanes' = NoLanes
    BY <1>2, EmptySeq DEF ProcessDies
  <2>2. crashes' \in 0..MaxCrashes
    BY <1>2, BoundsAssumption DEF ProcessDies
  <2>3. TypeOK' /\ ReviewOpen'
    BY <1>2, <2>1, <2>2, NoLanesType DEF ProcessDies
  <2> QED
    BY <2>1, <2>3, SameLanes
<1>3. CASE ResumeTask
  <2>1. steps' \in Seq(Execution)
    BY <1>3, InterruptedType DEF ResumeTask
  <2>2. completed' \subseteq PlanSteps /\ resumes' \in 0..MaxResumes
    BY <1>3, BoundsAssumption DEF ResumeTask, InitialCompleted
  <2>3. TypeOK' /\ ReviewOpen' /\ lanes' = lanes
    BY <1>3, <2>1, <2>2 DEF ResumeTask
  <2> QED
    BY <2>3, SameLanes
<1> QED
  BY <1>1, <1>2, <1>3, <1>4 DEF Environment

(* A new run satisfies the strengthened type invariant. *)
LEMMA InitStruct == Init => StructInv
<1> SUFFICES ASSUME Init PROVE StructInv
  OBVIOUS
<1>1. <<>> \in Seq(Execution) /\ <<>> \in Seq([num : PlanSteps, rework : Nat])
  BY EmptySeq
<1>2. 0 \in 0..MaxCrashes /\ 0 \in 0..MaxResumes
  BY BoundsAssumption
<1>3. /\ steps \in Seq(Execution) /\ signals \in Seq([num : PlanSteps, rework : Nat])
      /\ disk \in [status : RunStatus, steps : Seq(Execution), cost : Nat, pr : BOOLEAN]
  BY <1>1 DEF Init, RunRecord, RunStatus
<1>4. /\ DOMAIN reworkCounts \subseteq Nat /\ reworkCounts \in [DOMAIN reworkCounts -> Nat]
      /\ DOMAIN lanes = {} /\ lanes \in [DOMAIN lanes -> Lane]
  BY NoLanesType DEF Init
<1> QED
  BY <1>2, <1>3, <1>4 DEF Init, StructInv, TypeOK, RunStatus, Control, ReviewOpen

(* Every step keeps it. *)
LEMMA NextStruct == StructInv /\ [Next]_vars => StructInv'
<1> SUFFICES ASSUME StructInv, [Next]_vars PROVE StructInv'
  OBVIOUS
<1>1. CASE Engine
  BY <1>1, EngineStruct
<1>2. CASE Lanes
  BY <1>2, LaneStepStruct DEF Lanes
<1>3. CASE Environment
  BY <1>3, EnvironmentStruct
<1>4. CASE UNCHANGED vars
  BY <1>4 DEF vars, StructInv, TypeOK, PlanSteps, Running, ReviewOpen
<1> QED
  BY <1>1, <1>2, <1>3, <1>4 DEF Next, Quiet

(* Every reachable state of the engine is well typed, whatever the plans,   *)
(* the limits and the failures.                                             *)
THEOREM TypeCorrect == Spec => []TypeOK
<1>1. StructInv => TypeOK
  BY DEF StructInv
<1> QED
  BY <1>1, InitStruct, NextStruct, PTL DEF Spec

-----------------------------------------------------------------------------
(* Gates *)

(* GateBeforeDependents needs to know how an approval stays in force: a     *)
(* lane's step is not accepted yet, so executing it withdraws no approval   *)
(* that another lane relies on, and the gate loop leaves no accepted gated  *)
(* step behind that is neither approved nor still to be visited.            *)
GateInv ==
  /\ ctl = "down" => lanes = NoLanes
  /\ Fresh /\ ctl # "down" =>
       /\ \A l \in DOMAIN lanes : /\ l \notin completed
                                  /\ plan.deps[l] \subseteq completed
                                  /\ plan.deps[l] \cap plan.gates \subseteq approved
       /\ ctl = "lanes" => \A i \in DOMAIN signals : signals[i].num \in DOMAIN lanes
       /\ \A i \in DOMAIN steps :
            steps[i].reviewed => steps[i].num \in completed \cap approved
       /\ ctl \in {"loop", "lanes", "rework"} => completed \cap plan.gates \subseteq approved
       /\ ctl \in {"gates", "gate_review"} =>
            /\ completed \cap plan.gates \subseteq approved \cup gateTodo
            /\ gateTodo \subseteq completed

(* A new run satisfies the gate invariant. *)
LEMMA InitGate == Init => GateInv
  BY NoLanesType DEF Init, GateInv

(* The lanes keep the gate invariant: a lane is of a step no gate covers. *)
LEMMA LaneStepGate ==
  ASSUME StructInv, GateInv, NEW l \in DOMAIN lanes, LaneStep(l)
  PROVE  GateInv'
<1>1. LaneEffect(l)
  BY LaneStepEffect
<1>2. /\ UNCHANGED <<plan, ctl, completed, gateTodo, resumes>>
      /\ approved' \subseteq approved /\ (approved \ approved') \cap PlanSteps \subseteq {l}
      /\ ReviewedKept(steps')
      /\ \A i \in DOMAIN signals' :
           signals'[i].num = l \/ \E j \in DOMAIN signals : signals[j].num = signals'[i].num
  BY <1>1 DEF LaneEffect
<1>3. DOMAIN lanes' = DOMAIN lanes /\ ctl # "down"
  BY <1>1, NoLanesType DEF LaneEffect, LaneChange, SetLane, GateInv
<1>4. completed \subseteq PlanSteps
  BY DEF StructInv, TypeOK
<1> SUFFICES ASSUME Fresh PROVE GateInv'
  BY <1>2, <1>3 DEF GateInv, Fresh
<1>5. l \notin completed
  BY <1>3 DEF GateInv
<1>6. completed \cap approved \subseteq approved'
  BY <1>2, <1>4, <1>5
<1>7. \A m \in DOMAIN lanes' : /\ m \notin completed'
                               /\ plan'.deps[m] \subseteq completed'
                               /\ plan'.deps[m] \cap plan'.gates \subseteq approved'
  BY <1>2, <1>3, <1>6 DEF GateInv
<1>8. ctl' = "lanes" => \A i \in DOMAIN signals' : signals'[i].num \in DOMAIN lanes'
  BY <1>2, <1>3 DEF GateInv
<1>9. \A i \in DOMAIN steps' :
        steps'[i].reviewed => steps'[i].num \in completed' \cap approved'
  BY <1>2, <1>3, <1>6 DEF GateInv, ReviewedKept
<1>10. /\ ctl' \in {"loop", "lanes", "rework"} => completed' \cap plan'.gates \subseteq approved'
       /\ ctl' \in {"gates", "gate_review"} =>
            /\ completed' \cap plan'.gates \subseteq approved' \cup gateTodo'
            /\ gateTodo' \subseteq completed'
  BY <1>2, <1>3, <1>6 DEF GateInv
<1> QED
  BY <1>2, <1>3, <1>7, <1>8, <1>9, <1>10 DEF GateInv

(* executePlan keeps it: a step leaves the gate loop approved. *)
LEMMA EngineGate ==
  ASSUME StructInv, GateInv, Engine
  PROVE  GateInv'
<1> USE DEF GateInv, Fresh
<1>1. ASSUME NEW G \in SUBSET Ready, NEW d, Launch(G, d), ctl = "loop"
      PROVE  GateInv'
  <2>1. DOMAIN lanes' = G /\ signals' = <<>>
    BY <1>1 DEF Launch
  <2>2. \A l \in G : l \notin completed /\ plan.deps[l] \subseteq completed
    BY DEF Ready
  <2> QED
    BY <1>1, <2>1, <2>2 DEF Launch
<1>2. CASE LaunchParallel \/ LaunchSequential
  BY <1>1, <1>2 DEF LaunchParallel, LaunchSequential
<1>3. CASE PlanDeadlock \/ GroupFails
  BY <1>3, NoLanesType DEF PlanDeadlock, GroupFails, FailRun
<1>4. CASE GroupReplans
  <2>1. /\ ctl = "lanes" /\ signals # <<>> /\ signals' = <<>>
        /\ UNCHANGED <<plan, steps, completed, resumes, approved>>
        /\ ctl' \in {"rework", "unwind"}
        /\ DOMAIN lanes' \subseteq {signals[1].num}
    BY <1>4, NoLanesType DEF GroupReplans
  <2>2. 1 \in DOMAIN signals
    <3>1. signals \in Seq([num : PlanSteps, rework : Nat])
      BY DEF StructInv, TypeOK
    <3>2. Len(signals) \in Nat \ {0} /\ DOMAIN signals = 1..Len(signals)
      BY <2>1, <3>1, EmptySeq, LenProperties
    <3> QED
      BY <3>2
  <2>3. Fresh => DOMAIN lanes' \subseteq DOMAIN lanes
    BY <2>1, <2>2
  <2> QED
    BY <2>1, <2>3
<1>5. CASE ReworkDone \/ GroupCompletes
  BY <1>5, NoLanesType DEF ReworkDone, GroupCompletes
<1>6. CASE LaneThrew
  BY <1>6 DEF LaneThrew
<1>7. CASE SkipConfirmation \/ AskConfirmation \/ ConfirmationGiven \/ ConfirmationRefused
  BY <1>7 DEF SkipConfirmation, AskConfirmation, ConfirmationGiven, ConfirmationRefused,
              FailRun, OpenGates
<1>8. CASE SkipGate
  <2>1. PICK s \in gateTodo : AlreadyReviewed(s) /\ gateTodo' = gateTodo \ {s}
    BY <1>8 DEF SkipGate
  <2>2. Fresh => s \in approved
    BY <1>8, <2>1 DEF SkipGate, AlreadyReviewed
  <2> QED
    BY <1>8, <2>1, <2>2 DEF SkipGate
<1>9. CASE RequestReview \/ ReviewRejected \/ GatesDone
  BY <1>9 DEF RequestReview, ReviewRejected, GatesDone, FailRun
<1>10. CASE ReviewApproved
  <2>1. /\ DOMAIN steps' = DOMAIN steps
        /\ \A i \in DOMAIN steps :
             /\ steps'[i].num = steps[i].num
             /\ steps'[i].reviewed => steps[i].reviewed \/ steps[i].num = review
    BY <1>10, ReviewType
  <2>2. /\ ctl = "gate_review" /\ ctl' = "gates"
        /\ approved' = approved \cup {review} /\ gateTodo' = gateTodo \ {review}
        /\ UNCHANGED <<plan, completed, lanes, resumes>>
    BY <1>10 DEF ReviewApproved
  <2>3. review \in gateTodo
    BY <2>2 DEF StructInv, ReviewOpen
  <2> QED
    BY <2>1, <2>2, <2>3
<1>11. CASE PlanCompleted \/ EngineThrows \/ Teardown \/ Finalize
  BY <1>11 DEF PlanCompleted, EngineThrows, Teardown, Finalize
<1> QED
  BY <1>2, <1>3, <1>4, <1>5, <1>6, <1>7, <1>8, <1>9, <1>10, <1>11 DEF Engine

(* The environment keeps it: a resumed run is out of its scope. *)
LEMMA EnvironmentGate ==
  ASSUME StructInv, GateInv, Environment
  PROVE  GateInv'
<1> USE DEF GateInv, Fresh
<1>1. CASE FlushRunState \/ CancelSession
  BY <1>1 DEF FlushRunState, CancelSession
<1>2. CASE ProcessDies
  BY <1>2 DEF ProcessDies
<1>3. CASE ResumeTask
  <2>1. resumes \in Nat /\ resumes' = resumes + 1 /\ ctl' = "loop"
    BY <1>3, BoundsAssumption DEF ResumeTask, StructInv, TypeOK
  <2> QED
    BY <2>1
<1> QED
  BY <1>1, <1>2, <1>3 DEF Environment

(* In a run that was never resumed nothing starts before the gates of what  *)
(* it depends on are approved, for every plan, whatever steps a rework plan *)
(* holds, and however the lanes fail, ask for rework or race.               *)
THEOREM GatesHold == Spec => []GateBeforeDependents
<1>1. StructInv /\ GateInv /\ [Next]_vars => GateInv'
  <2> SUFFICES ASSUME StructInv, GateInv, [Next]_vars PROVE GateInv'
    OBVIOUS
  <2>1. CASE Engine
    BY <2>1, EngineGate
  <2>2. CASE Lanes
    BY <2>2, LaneStepGate DEF Lanes
  <2>3. CASE Environment
    BY <2>3, EnvironmentGate
  <2>4. CASE UNCHANGED vars
    BY <2>4 DEF vars, GateInv, Fresh
  <2> QED
    BY <2>1, <2>2, <2>3, <2>4 DEF Next, Quiet
<1>2. GateInv => GateBeforeDependents
  BY NoLanesType DEF GateInv, GateBeforeDependents, AtWork
<1> QED
  BY <1>1, <1>2, InitStruct, NextStruct, InitGate, PTL DEF Spec

-----------------------------------------------------------------------------
(* Settled ground *)


(* What run.steps says of a step is changed only for the steps in N. *)
Within(N, s, t) ==
  /\ DOMAIN s \subseteq DOMAIN t
  /\ \A i \in DOMAIN s : /\ t[i].of = s[i].of
                         /\ s[i].of \notin N => t[i].status = s[i].status
  /\ \A i \in DOMAIN t \ DOMAIN s : t[i].of \in N

(* A call's entry in run.steps is one of its step. *)
Own(s, f) == f.exec # 0 => f.exec \in DOMAIN s /\ s[f.exec].of = f.of
(* The call at the bottom of a lane holds the latest execution of its step, *)
(* a completed one when the quality gate is on.                             *)
Bottom(s, l, f) ==
  f.exec # 0 => /\ \A j \in DOMAIN s : s[j].of = l => j <= f.exec
                /\ f.at = "quality" => s[f.exec].status = "completed"
(* The calls of a lane: the lane's step below, rework steps above it *)
Chain(s, l, fr) ==
  \A i \in DOMAIN fr :
    /\ Own(s, fr[i])
    /\ IF i = Len(fr) THEN fr[i].of = l /\ Bottom(s, l, fr[i])
                      ELSE fr[i].of = 0
AllExecute(c) == \A i \in DOMAIN c : c[i].exec # 0
CallersExecute(fr) == \A i \in DOMAIN fr : i > 1 => fr[i].exec # 0

Done(d) == LatestCompleted(d) /\ d \in integrated

(* What the result of a lane of the group says, until the group is judged *)
LaneInv(l) ==
  /\ lanes[l].result = "completed" => Done(l)
  /\ lanes[l].result = "rework" => signals # <<>>
  /\ CallersExecute(lanes[l].frames)

(* WorksOnSettled needs to know that what executePlan took for completed    *)
(* stays so: a lane touches executions of its own step and of rework steps, *)
(* its bottom call decides on the latest execution of the step, and a lane  *)
(* ends as completed only by that call.                                     *)
SettledInv ==
  /\ Fresh /\ ctl # "down" => \A d \in completed : Done(d)
  /\ \A l \in DOMAIN lanes : Chain(steps, l, lanes[l].frames)
  /\ ctl = "lanes" => \A l \in DOMAIN lanes : LaneInv(l)

-----------------------------------------------------------------------------
(* Sequences of calls *)

(* The entries of a sequence with one more in front *)
LEMMA OnTop ==
  ASSUME NEW S, NEW a \in S, NEW c \in Seq(S)
  PROVE  /\ <<a>> \o c \in Seq(S) /\ Len(<<a>> \o c) = Len(c) + 1 /\ Len(c) \in Nat
         /\ DOMAIN (<<a>> \o c) = 1..(Len(c) + 1) /\ DOMAIN c = 1..Len(c)
         /\ \A i \in 1..(Len(c) + 1) : (<<a>> \o c)[i] = IF i = 1 THEN a ELSE c[i - 1]
<1>1. <<a>> \in Seq(S) /\ Len(<<a>>) = 1 /\ <<a>>[1] = a
  OBVIOUS
<1>2. Len(c) \in Nat /\ DOMAIN c = 1..Len(c)
  BY LenProperties
<1>3. /\ <<a>> \o c \in Seq(S) /\ Len(<<a>> \o c) = 1 + Len(c)
      /\ \A i \in 1..(1 + Len(c)) : (<<a>> \o c)[i] = IF i <= 1 THEN <<a>>[i] ELSE c[i - 1]
  BY <1>1, ConcatProperties
<1>4. DOMAIN (<<a>> \o c) = 1..(Len(c) + 1)
  BY <1>2, <1>3, LenProperties
<1> QED
  BY <1>1, <1>2, <1>3, <1>4

(* A sequence is its head in front of its tail. *)
LEMMA Decompose ==
  ASSUME NEW S, NEW s \in Seq(S), s # <<>>
  PROVE  s = <<Head(s)>> \o Tail(s) /\ Head(s) \in S /\ Tail(s) \in Seq(S)
<1>1. /\ Head(s) \in S /\ Tail(s) \in Seq(S) /\ Head(s) = s[1]
      /\ Len(Tail(s)) = Len(s) - 1 /\ \A i \in 1..Len(Tail(s)) : Tail(s)[i] = s[i + 1]
  BY HeadTailProperties
<1>2. Len(s) \in Nat \ {0}
  BY EmptySeq, LenProperties
<1>3. /\ <<Head(s)>> \o Tail(s) \in Seq(S)
      /\ Len(<<Head(s)>> \o Tail(s)) = Len(s)
      /\ \A i \in 1..Len(s) : (<<Head(s)>> \o Tail(s))[i] = s[i]
  BY <1>1, <1>2, OnTop
<1> QED
  BY <1>1, <1>3, SeqEqual

(* A call put on top of its callers makes a lane's chain of calls. *)
LEMMA ChainOnTop ==
  ASSUME NEW s, NEW l, NEW f \in FrameOf(l), NEW c \in Seq(FrameOf(l))
  PROVE  /\ Chain(s, l, <<f>> \o c) <=>
              /\ Chain(s, l, c) /\ Own(s, f)
              /\ IF c = <<>> THEN f.of = l /\ Bottom(s, l, f) ELSE f.of = 0
         /\ CallersExecute(<<f>> \o c) <=> AllExecute(c)
<1> DEFINE fr == <<f>> \o c
<1>1. /\ Len(fr) = Len(c) + 1 /\ Len(c) \in Nat
      /\ DOMAIN fr = 1..(Len(c) + 1) /\ DOMAIN c = 1..Len(c)
      /\ \A i \in 1..(Len(c) + 1) : fr[i] = IF i = 1 THEN f ELSE c[i - 1]
  BY OnTop
<1>2. fr[1] = f /\ \A i \in 1..Len(c) : fr[i + 1] = c[i]
  BY <1>1
<1>3. c = <<>> <=> Len(c) = 0
  BY EmptySeq
<1> HIDE DEF fr
<1>4. CallersExecute(fr) <=> AllExecute(c)
  <2>1. ASSUME CallersExecute(fr), NEW i \in DOMAIN c PROVE c[i].exec # 0
    BY <1>1, <1>2, <2>1 DEF CallersExecute
  <2>2. ASSUME AllExecute(c), NEW i \in DOMAIN fr, i > 1 PROVE fr[i].exec # 0
    BY <1>1, <2>2 DEF AllExecute
  <2> QED
    BY <2>1, <2>2 DEF AllExecute, CallersExecute
<1>5. ASSUME Chain(s, l, fr)
      PROVE  /\ Chain(s, l, c) /\ Own(s, f)
             /\ IF c = <<>> THEN f.of = l /\ Bottom(s, l, f) ELSE f.of = 0
  <2>1. 1 \in DOMAIN fr /\ (1 = Len(fr) <=> c = <<>>)
    BY <1>1, <1>3
  <2>2. /\ Own(s, f)
        /\ IF c = <<>> THEN f.of = l /\ Bottom(s, l, f) ELSE f.of = 0
    BY <1>2, <1>5, <2>1 DEF Chain
  <2>3. ASSUME NEW i \in DOMAIN c
        PROVE  /\ Own(s, c[i])
               /\ IF i = Len(c) THEN c[i].of = l /\ Bottom(s, l, c[i])
                                ELSE c[i].of = 0
    <3>1. i + 1 \in DOMAIN fr /\ fr[i + 1] = c[i] /\ (i + 1 = Len(fr) <=> i = Len(c))
      BY <1>1, <1>2
    <3> QED
      BY <1>5, <3>1 DEF Chain
  <2> QED
    BY <2>2, <2>3 DEF Chain
<1>6. ASSUME Chain(s, l, c), Own(s, f),
             IF c = <<>> THEN f.of = l /\ Bottom(s, l, f) ELSE f.of = 0
      PROVE  Chain(s, l, fr)
  <2> SUFFICES ASSUME NEW i \in DOMAIN fr
               PROVE  /\ Own(s, fr[i])
                      /\ IF i = Len(fr) THEN fr[i].of = l /\ Bottom(s, l, fr[i])
                                        ELSE fr[i].of = 0
    BY DEF Chain
  <2>1. CASE i = 1
    BY <1>1, <1>2, <1>3, <1>6, <2>1
  <2>2. CASE i # 1
    <3>1. i - 1 \in DOMAIN c /\ fr[i] = c[i - 1] /\ (i = Len(fr) <=> i - 1 = Len(c))
      BY <1>1, <2>2
    <3> QED
      BY <1>6, <3>1 DEF Chain
  <2> QED
    BY <2>1, <2>2
<1> QED
  BY <1>4, <1>5, <1>6 DEF fr

(* Going on with a call's rework plan keeps the chain, and ends the lane    *)
(* only below a call without an execution of its own.                       *)
LEMMA ProceedOnTop ==
  ASSUME NEW s, NEW l, NEW f \in FrameOf(l), NEW d \in Seq(FrameOf(l)),
         NEW c, c = <<f>> \o d, Chain(s, l, c),
         NEW p, p = Proceed(c)
  PROVE  Chain(s, l, p) /\ (f.exec # 0 /\ AllExecute(d) => p # <<>> /\ CallersExecute(p))
<1>1. c \in Seq(FrameOf(l)) /\ c # <<>> /\ Head(c) = f /\ Tail(c) = d
  BY PutOnTop
<1>2. /\ Chain(s, l, d) /\ Own(s, f)
      /\ IF d = <<>> THEN f.of = l /\ Bottom(s, l, f) ELSE f.of = 0
  BY ChainOnTop
<1>3. f.exec # 0 => p # <<>>
  BY <1>1, ProceedType
<1>4. CASE f.todo # <<>>
  <2>1. Head(f.todo) \in Nat /\ Tail(f.todo) \in Seq(Nat)
    <3>1. f.todo \in Seq(Nat)
      BY DEF FrameOf
    <3> QED
      BY <1>4, <3>1, HeadTailProperties
  <2>2. PICK g \in FrameOf(l) : g = StartFrame(Head(f.todo), 0, FALSE)
    BY <2>1, StartFrameType
  <2>3. PICK h \in FrameOf(l) : h = [f EXCEPT !.todo = Tail(f.todo)]
    BY <2>1 DEF FrameOf
  <2>4. h.exec = f.exec /\ h.of = f.of /\ h.at = f.at
    BY <2>3 DEF FrameOf
  <2>5. g.exec = 0 /\ g.of = 0
    BY <2>1, <2>2 DEF StartFrame
  <2>6. PICK e \in Seq(FrameOf(l)) : e = <<h>> \o d /\ e # <<>>
    BY PutOnTop
  <2>7. p = <<g>> \o e
    <3>1. p = <<g, h>> \o d
      BY <1>1, <1>4, <2>2, <2>3 DEF Proceed
    <3>2. <<g, h>> = <<g>> \o <<h>> /\ <<g>> \in Seq(FrameOf(l)) /\ <<h>> \in Seq(FrameOf(l))
      OBVIOUS
    <3>3. (<<g>> \o <<h>>) \o d = <<g>> \o (<<h>> \o d)
      BY <3>2, ConcatAssociative
    <3>4. <<g, h>> \o d = (<<g>> \o <<h>>) \o d
      BY <3>2
    <3> QED
      BY <2>6, <3>1, <3>3, <3>4, Zenon
  <2>8. Own(s, h) /\ (Bottom(s, l, f) => Bottom(s, l, h)) /\ Own(s, g)
    BY <1>2, <2>4, <2>5 DEF Own, Bottom
  <2>9. Chain(s, l, <<h>> \o d)
    BY <1>2, <2>4, <2>8, ChainOnTop
  <2>10. Chain(s, l, <<g>> \o e) /\ (CallersExecute(<<g>> \o e) <=> AllExecute(e))
    BY <2>5, <2>6, <2>8, <2>9, ChainOnTop
  <2>11. ASSUME f.exec # 0, AllExecute(d) PROVE AllExecute(e)
    <3>1. /\ DOMAIN e = 1..(Len(d) + 1) /\ DOMAIN d = 1..Len(d) /\ Len(d) \in Nat
          /\ \A i \in 1..(Len(d) + 1) : e[i] = IF i = 1 THEN h ELSE d[i - 1]
      BY <2>6, OnTop
    <3>2. ASSUME NEW i \in DOMAIN e PROVE e[i].exec # 0
      <4>1. CASE i = 1
        BY <2>4, <2>11, <3>1, <4>1
      <4>2. CASE i # 1
        <5>1. i - 1 \in DOMAIN d /\ e[i] = d[i - 1]
          BY <3>1, <4>2
        <5> QED
          BY <2>11, <5>1 DEF AllExecute
      <4> QED
        BY <4>1, <4>2
    <3> QED
      BY <3>2 DEF AllExecute
  <2> QED
    BY <1>3, <2>7, <2>10, <2>11
<1>5. CASE f.todo = <<>> /\ f.exec = 0
  <2>1. p = <<>>
    BY <1>1, <1>5 DEF Proceed
  <2>2. Chain(s, l, <<>>)
    BY DEF Chain
  <2> QED
    BY <1>5, <2>1, <2>2
<1>6. CASE f.todo = <<>> /\ f.exec # 0
  <2>1. PICK g \in FrameOf(l) : g = StartFrame(f.num, f.of, FALSE)
    BY StartFrameType DEF FrameOf
  <2>2. Own(s, g) /\ Bottom(s, l, g) /\ g.of = f.of
    BY <2>1 DEF StartFrame, Own, Bottom
  <2>3. p = <<g>> \o d
    BY <1>1, <1>6, <2>1 DEF Proceed
  <2>4. Chain(s, l, <<g>> \o d) /\ (CallersExecute(<<g>> \o d) <=> AllExecute(d))
    BY <1>2, <2>2, ChainOnTop
  <2> QED
    BY <1>3, <2>3, <2>4
<1> QED
  BY <1>4, <1>5, <1>6

-----------------------------------------------------------------------------
(* Changes of run.steps *)

(* Marking an execution of step n changes step n only. *)
LEMMA MarkWithin ==
  ASSUME NEW s \in Seq(Execution), NEW i \in DOMAIN s, NEW st \in StepStatus, NEW N,
         s[i].of \in N
  PROVE  /\ Within(N, s, Mark(s, i, st))
         /\ Mark(s, i, st)[i].of = s[i].of /\ Mark(s, i, st)[i].status = st
<1>1. i \in Nat /\ s \in [1..Len(s) -> Execution] /\ DOMAIN s = 1..Len(s) /\ Len(s) \in Nat
  BY LenProperties
<1>2. /\ DOMAIN Mark(s, i, st) = DOMAIN s
      /\ \A j \in DOMAIN s : Mark(s, i, st)[j].of = s[j].of
  BY <1>1, MarkType
<1>3. \A j \in DOMAIN s : Mark(s, i, st)[j].status = IF j = i THEN st ELSE s[j].status
  BY <1>1 DEF Mark, Execution
<1> QED
  BY <1>2, <1>3 DEF Within

(* A new execution of step n is the latest of step n, and nothing else changes. *)
LEMMA BegunWithin ==
  ASSUME steps \in Seq(Execution), NEW f, f.num \in Nat, f.of \in Nat, NEW N, f.of \in N,
         NEW b, b = Begun(f)
  PROVE  /\ Within(N, steps, b) /\ b \in Seq(Execution)
         /\ Len(b) \in DOMAIN b /\ Len(b) # 0 /\ b[Len(b)].of = f.of
         /\ \A j \in DOMAIN b : j <= Len(b)
<1> DEFINE e == [num |-> f.num, of |-> f.of, status |-> "running", reviewed |-> FALSE]
<1>1. e \in Execution /\ b = Append(steps, e)
  BY DEF Execution, StepStatus, Begun
<1>2. b \in Seq(Execution) /\ Len(b) = Len(steps) + 1 /\ Len(steps) \in Nat
  BY <1>1, LenProperties
<1>3. \A i \in 1..(Len(steps) + 1) : b[i] = IF i = Len(steps) + 1 THEN e ELSE steps[i]
  BY <1>1
<1>4. DOMAIN b = 1..(Len(steps) + 1) /\ DOMAIN steps = 1..Len(steps)
  BY <1>2, LenProperties
<1>5. Within(N, steps, b)
  BY <1>2, <1>3, <1>4 DEF Within
<1> QED
  BY <1>2, <1>3, <1>4, <1>5

(* A step outside N keeps its latest completed execution. *)
LEMMA DoneKept ==
  ASSUME NEW N, Within(N, steps, steps'), NEW d, d \notin N, integrated \subseteq integrated',
         Done(d)
  PROVE  Done(d)'
<1>1. PICK i \in DOMAIN steps : /\ steps[i].of = d /\ steps[i].status = "completed"
                               /\ \A j \in DOMAIN steps : steps[j].of = d => j <= i
  BY DEF Done, LatestCompleted, Executions, IsLatest
<1>2. /\ i \in DOMAIN steps' /\ steps'[i].of = d /\ steps'[i].status = "completed"
      /\ \A j \in DOMAIN steps' : steps'[j].of = d => j \in DOMAIN steps /\ steps[j].of = d
  BY <1>1 DEF Within
<1> QED
  BY <1>1, <1>2 DEF Done, LatestCompleted, Executions, IsLatest

(* A chain of calls stays one, but for what happens to the step of the lane. *)
LEMMA ChainKept ==
  ASSUME NEW N, NEW s, NEW t, Within(N, s, t), NEW l, l \notin N,
         NEW fr \in Seq(FrameOf(l)), Chain(s, l, fr)
  PROVE  Chain(t, l, fr)
<1> SUFFICES ASSUME NEW i \in DOMAIN fr
             PROVE  /\ Own(t, fr[i])
                    /\ IF i = Len(fr) THEN fr[i].of = l /\ Bottom(t, l, fr[i])
                                      ELSE fr[i].of = 0
  BY DEF Chain
<1>1. /\ Own(s, fr[i])
      /\ IF i = Len(fr) THEN fr[i].of = l /\ Bottom(s, l, fr[i])
                        ELSE fr[i].of = 0
  BY DEF Chain
<1>2. Own(t, fr[i])
  BY <1>1 DEF Own, Within
<1>3. ASSUME i = Len(fr) PROVE Bottom(t, l, fr[i])
  <2>1. \A j \in DOMAIN t : t[j].of = l => j \in DOMAIN s /\ s[j].of = l
    BY DEF Within
  <2> QED
    BY <1>1, <1>3, <2>1 DEF Own, Bottom, Within
<1> QED
  BY <1>1, <1>2, <1>3

(* What happens to the step of the call on top leaves its callers a chain. *)
LEMMA CallersKept ==
  ASSUME NEW s, NEW t, NEW l \in PlanSteps, NEW f \in FrameOf(l), NEW c \in Seq(FrameOf(l)),
         plan \in Plans, Chain(s, l, <<f>> \o c), Within({f.of}, s, t)
  PROVE  Chain(t, l, c)
<1>1. /\ Chain(s, l, c)
      /\ IF c = <<>> THEN f.of = l ELSE f.of = 0
  BY ChainOnTop
<1>2. CASE c = <<>>
  <2>1. Chain(t, l, <<>>)
    BY DEF Chain
  <2> QED
    BY <1>2, <2>1
<1>3. CASE c # <<>>
  <2>1. l \notin {f.of}
    BY <1>1, <1>3, PlanNumbers DEF PlanSteps
  <2> QED
    BY <1>1, <2>1, ChainKept
<1> QED
  BY <1>2, <1>3

-----------------------------------------------------------------------------
(* What a step of a lane does *)


SettledEffect(l) ==
  /\ Within(OfLane(l), steps, steps')
  /\ integrated \subseteq integrated'
  /\ signals # <<>> => signals' # <<>>
  /\ Chain(steps', l, lanes'[l].frames)
  /\ ctl = "lanes" => LaneInv(l)'

(* The innermost call of a running lane and what waits for it *)
TopFacts(l, f, c) ==
  /\ f = Top(l) /\ c = Callers(l)
  /\ f \in FrameOf(l) /\ c \in Seq(FrameOf(l))
  /\ l \in PlanSteps /\ plan \in Plans /\ steps \in Seq(Execution)
  /\ f.of \in OfLane(l) /\ f.of \in Nat /\ f.num \in Nat
  /\ Chain(steps, l, <<f>> \o c) /\ Own(steps, f)
  /\ IF c = <<>> THEN f.of = l /\ Bottom(steps, l, f) ELSE f.of = 0
  /\ ctl = "lanes" => AllExecute(c)
  /\ f.at \in {"agent", "quality"} => f.exec \in DOMAIN steps /\ steps[f.exec].of = f.of

(* The invariant says this of every running lane. *)
LEMMA TopKnown ==
  ASSUME StructInv, SettledInv, NEW l \in DOMAIN lanes, Running(l)
  PROVE  \E f, c : TopFacts(l, f, c)
<1>1. PICK fr \in Seq(FrameOf(l)) : fr = lanes[l].frames /\ fr # <<>>
  BY DEF StructInv, LaneOf
<1>2. PICK f \in FrameOf(l), c \in Seq(FrameOf(l)) : fr = <<f>> \o c /\ f = Top(l) /\ c = Callers(l)
  BY <1>1, Decompose DEF Top, Callers
<1>3. Chain(steps, l, <<f>> \o c) /\ (ctl = "lanes" => CallersExecute(<<f>> \o c))
  <2>1. Chain(steps, l, fr) /\ (ctl = "lanes" => CallersExecute(fr))
    BY <1>1 DEF SettledInv, LaneInv
  <2> QED
    BY <1>2, <2>1
<1>4. /\ Own(steps, f)
      /\ IF c = <<>> THEN f.of = l /\ Bottom(steps, l, f) ELSE f.of = 0
      /\ ctl = "lanes" => AllExecute(c)
  BY <1>3, ChainOnTop
<1>5. l \in PlanSteps /\ plan \in Plans /\ steps \in Seq(Execution)
  BY DEF StructInv, TypeOK
<1>6. f.of \in OfLane(l) /\ f.of \in Nat /\ f.num \in Nat
  BY <1>2, TopType DEF FrameOf, OfLane
<1>7. f.at \in {"agent", "quality"} => f.exec \in DOMAIN steps /\ steps[f.exec].of = f.of
  BY <1>2, <1>4 DEF FrameOf, Own
<1>8. TopFacts(l, f, c)
  BY <1>2, <1>3, <1>4, <1>5, <1>6, <1>7 DEF TopFacts
<1> QED
  BY <1>8

(* A lane that fails or throws is an empty chain. *)
LEMMA EndsBadly ==
  ASSUME NEW l \in DOMAIN lanes, NEW r \in {"failed", "thrown"}, SetLane(l, <<>>, r)
  PROVE  Chain(steps', l, lanes'[l].frames) /\ LaneInv(l)'
<1>1. lanes'[l].frames = <<>> /\ lanes'[l].result = r
  BY DEF SetLane
<1>2. Chain(steps', l, <<>>) /\ CallersExecute(<<>>)
  BY DEF Chain, CallersExecute
<1> QED
  BY <1>1, <1>2 DEF LaneInv

(* So is one that LaneFails ends. *)
LEMMA FailsBadly ==
  ASSUME NEW l \in DOMAIN lanes, LaneFails(l)
  PROVE  Chain(steps', l, lanes'[l].frames) /\ LaneInv(l)'
  BY EndsBadly DEF LaneFails

(* A lane whose innermost call is replaced stays a chain. *)
LEMMA GoesOn ==
  ASSUME NEW l \in DOMAIN lanes, NEW g \in FrameOf(l), NEW c \in Seq(FrameOf(l)),
         SetLane(l, <<g>> \o c, "running"), Chain(steps', l, c), Own(steps', g),
         IF c = <<>> THEN g.of = l /\ Bottom(steps', l, g) ELSE g.of = 0,
         ctl = "lanes" => AllExecute(c)
  PROVE  Chain(steps', l, lanes'[l].frames) /\ (ctl = "lanes" => LaneInv(l)')
<1>1. PICK fr \in Seq(FrameOf(l)) : fr = <<g>> \o c
  BY PutOnTop
<1>2. lanes'[l].frames = fr /\ lanes'[l].result = "running"
  BY <1>1 DEF SetLane
<1>3. Chain(steps', l, <<g>> \o c) /\ (CallersExecute(<<g>> \o c) <=> AllExecute(c))
  BY ChainOnTop
<1> QED
  BY <1>1, <1>2, <1>3 DEF LaneInv

(* A lane that completes by its bottom call has completed its step; one     *)
(* that completes by another call is no lane of the group.                  *)
LEMMA CompletesWell ==
  ASSUME NEW l \in DOMAIN lanes, NEW f, NEW c, TopFacts(l, f, c), StepCompletes(l),
         Within({f.of}, steps, steps'), DOMAIN steps' = DOMAIN steps,
         f.exec \in DOMAIN steps, steps[f.exec].of = f.of, f.exec # 0,
         c = <<>> => steps'[f.exec].status = "completed"
  PROVE  /\ Chain(steps', l, lanes'[l].frames) /\ (ctl = "lanes" => LaneInv(l)')
         /\ integrated \subseteq integrated'
<1>3. c \in Seq(FrameOf(l))
  BY DEF TopFacts
<1>4. c # <<>> => \E h \in FrameOf(l), d \in Seq(FrameOf(l)) : c = <<h>> \o d
  <2> SUFFICES ASSUME c # <<>>
               PROVE  \E h \in FrameOf(l), d \in Seq(FrameOf(l)) : c = <<h>> \o d
    OBVIOUS
  <2>1. c = <<Head(c)>> \o Tail(c) /\ Head(c) \in FrameOf(l) /\ Tail(c) \in Seq(FrameOf(l))
    BY <1>3, Decompose
  <2> QED
    BY <2>1, Zenon
<1> USE DEF TopFacts
<1>1. CASE c # <<>>
  <2>1. PICK h \in FrameOf(l), d \in Seq(FrameOf(l)) : c = <<h>> \o d
    BY <1>1, <1>4
  <2>2. PICK p : p = Proceed(c)
    OBVIOUS
  <2>3. lanes'[l].frames = p /\ integrated' = integrated
        /\ lanes'[l].result = IF p = <<>> THEN "completed" ELSE "running"
    BY <1>1, <2>2 DEF StepCompletes, SetLane
  <2>4. Chain(steps', l, c)
    BY CallersKept
  <2>5. AllExecute(c) => h.exec # 0 /\ AllExecute(d)
    <3>1. (CallersExecute(<<h>> \o d) <=> AllExecute(d))
      BY ChainOnTop
    <3>2. /\ DOMAIN c = 1..(Len(d) + 1) /\ Len(d) \in Nat
          /\ \A i \in 1..(Len(d) + 1) : c[i] = IF i = 1 THEN h ELSE d[i - 1]
      BY <2>1, OnTop
    <3>3. 1 \in DOMAIN c /\ c[1] = h
      BY <3>2
    <3>4. AllExecute(c) => CallersExecute(c) /\ h.exec # 0
      BY <3>3 DEF AllExecute, CallersExecute
    <3> QED
      BY <2>1, <3>1, <3>4
  <2>6. Chain(steps', l, p) /\ (AllExecute(c) => p # <<>> /\ CallersExecute(p))
    BY <2>1, <2>2, <2>4, <2>5, ProceedOnTop
  <2> QED
    BY <2>3, <2>6 DEF LaneInv
<1>2. CASE c = <<>>
  <2>1. CASE SetLane(l, <<>>, "completed") /\ integrated' = integrated \cup {l}
    <3>1. lanes'[l].frames = <<>> /\ lanes'[l].result = "completed"
      BY <2>1 DEF SetLane
    <3>2. Chain(steps', l, <<>>) /\ CallersExecute(<<>>)
      BY DEF Chain, CallersExecute
    <3>3. \A j \in DOMAIN steps' : steps'[j].of = l => j <= f.exec
      BY <1>2 DEF Bottom, Within
    <3>4. f.exec \in DOMAIN steps' /\ steps'[f.exec].of = l
      BY <1>2 DEF Within
    <3>5. Done(l)'
      BY <1>2, <2>1, <3>3, <3>4 DEF Done, LatestCompleted, Executions, IsLatest
    <3> QED
      BY <2>1, <3>1, <3>2, <3>5 DEF LaneInv
  <2>2. CASE SetLane(l, <<>>, "thrown") /\ integrated' = integrated
    BY <2>2, EndsBadly
  <2> QED
    BY <1>2, <2>1, <2>2 DEF StepCompletes
<1> QED
  BY <1>1, <1>2

(* A new execution becomes the latest of its step. *)
LEMMA StartAgentSettles ==
  ASSUME StructInv, SettledInv, NEW l \in DOMAIN lanes, StartAgent(l)
  PROVE  SettledEffect(l)
<1>1. PICK f, c : TopFacts(l, f, c)
  BY TopKnown DEF StartAgent
<1>2. PICK b : b = Begun(f)
  OBVIOUS
<1>3. /\ Within({f.of}, steps, b) /\ b \in Seq(Execution)
      /\ Len(b) \in DOMAIN b /\ Len(b) # 0 /\ b[Len(b)].of = f.of /\ Len(b) \in Nat
      /\ \A j \in DOMAIN b : j <= Len(b)
  <2>1. steps \in Seq(Execution) /\ f.num \in Nat /\ f.of \in Nat
    BY <1>1 DEF TopFacts
  <2>2. /\ Within({f.of}, steps, b) /\ b \in Seq(Execution)
        /\ Len(b) \in DOMAIN b /\ Len(b) # 0 /\ b[Len(b)].of = f.of
        /\ \A j \in DOMAIN b : j <= Len(b)
    BY <1>2, <2>1, BegunWithin
  <2> QED
    BY <2>2, LenProperties
<1>4. PICK g : g = [f EXCEPT !.at = "agent", !.exec = Len(b), !.rework = Count(f.num)]
  OBVIOUS
<1>5. /\ steps' = b /\ SetLane(l, <<g>> \o c, "running")
      /\ integrated' = integrated /\ signals' = signals
  <2>1. f = Top(l) /\ c = Callers(l)
    BY <1>1 DEF TopFacts
  <2> QED
    BY <1>2, <1>4, <2>1 DEF StartAgent
<1>6. g \in FrameOf(l) /\ g.of = f.of /\ g.exec = Len(b) /\ g.at = "agent"
  <2>1. Count(f.num) \in Nat
    BY StructFacts, CountType DEF StructInvFacts
  <2> QED
    BY <1>1, <1>3, <1>4, <2>1 DEF FrameOf, TopFacts
<1>7. Own(b, g) /\ Bottom(b, l, g)
  BY <1>3, <1>6 DEF Own, Bottom
<1>8. Chain(b, l, c)
  BY <1>1, <1>3, CallersKept DEF TopFacts
<1>9. c \in Seq(FrameOf(l)) /\ (ctl = "lanes" => AllExecute(c))
      /\ IF c = <<>> THEN g.of = l ELSE g.of = 0
  BY <1>1, <1>6 DEF TopFacts
<1>10. Chain(steps', l, lanes'[l].frames) /\ (ctl = "lanes" => LaneInv(l)')
  BY <1>5, <1>6, <1>7, <1>8, <1>9, GoesOn
<1>11. Within(OfLane(l), steps, steps')
  BY <1>1, <1>3, <1>5 DEF Within, TopFacts
<1> QED
  BY <1>5, <1>10, <1>11 DEF SettledEffect

(* A call that fails before its agent runs ends its lane. *)
LEMMA StartFailsSettles ==
  ASSUME StructInv, SettledInv, NEW l \in DOMAIN lanes,
         LimitReached(l) \/ StartThrows(l) \/ SubWorktreeFails(l)
  PROVE  SettledEffect(l)
<1>1. PICK f, c : TopFacts(l, f, c)
  BY TopKnown DEF LimitReached, StartThrows, SubWorktreeFails
<1>2. PICK b : b = Begun(f)
  OBVIOUS
<1> DEFINE N == OfLane(l)
<1>3. /\ Within(N, steps, b) /\ b \in Seq(Execution)
      /\ Len(b) \in DOMAIN b /\ b[Len(b)].of = f.of
  <2>1. steps \in Seq(Execution) /\ f.num \in Nat /\ f.of \in Nat /\ f.of \in N
    BY <1>1 DEF TopFacts
  <2> HIDE DEF N
  <2> QED
    BY <1>2, <2>1, BegunWithin
<1>4. integrated' = integrated /\ signals' = signals
  BY DEF LimitReached, StartThrows, SubWorktreeFails
<1>5. Chain(steps', l, lanes'[l].frames) /\ LaneInv(l)'
  BY EndsBadly, FailsBadly DEF LimitReached, StartThrows, SubWorktreeFails
<1>6. ASSUME NEW i \in DOMAIN b, b[i].of \in N PROVE Within(N, steps, Mark(b, i, "failed"))
  <2>1. Within(N, b, Mark(b, i, "failed"))
    BY <1>3, <1>6, MarkWithin DEF StepStatus
  <2> QED
    BY <1>3, <2>1 DEF Within
<1>7. Within(N, steps, steps')
  <2>1. CASE steps' = Mark(b, Len(b), "failed")
    <3>1. Len(b) \in DOMAIN b /\ b[Len(b)].of \in N
      BY <1>1, <1>3 DEF TopFacts
    <3>2. Within(N, steps, Mark(b, Len(b), "failed"))
      BY <1>6, <3>1
    <3> QED
      BY <2>1, <3>2
  <2>2. CASE steps' = b
    BY <1>3, <2>2
  <2>3. ASSUME c # <<>>, Head(c).exec # 0, steps' = Mark(b, Head(c).exec, "failed")
        PROVE  Within(N, steps, steps')
    <3>1. c \in Seq(FrameOf(l))
      BY <1>1 DEF TopFacts
    <3>2. PICK h \in FrameOf(l), d \in Seq(FrameOf(l)) : c = <<h>> \o d /\ h = Head(c)
      BY <2>3, <3>1, Decompose
    <3>3. Chain(steps, l, c)
      BY <1>1, ChainOnTop DEF TopFacts
    <3>4. Own(steps, h)
      BY <3>2, <3>3, ChainOnTop
    <3>5. h.exec \in DOMAIN b /\ b[h.exec].of = h.of /\ h.of \in N
      BY <1>3, <2>3, <3>2, <3>4 DEF Own, Within, FrameOf, OfLane
    <3>6. Within(N, steps, Mark(b, h.exec, "failed"))
      BY <1>6, <3>5
    <3> QED
      BY <2>3, <3>2, <3>6
  <2>4. CASE steps' = steps
    BY <2>4 DEF Within
  <2>5. f = Top(l) /\ c = Callers(l)
    BY <1>1 DEF TopFacts
  <2> HIDE DEF N
  <2>6. CASE LimitReached(l)
    BY <1>2, <2>1, <2>5, <2>6 DEF LimitReached
  <2>7. CASE StartThrows(l)
    BY <1>2, <2>2, <2>3, <2>5, <2>7 DEF StartThrows
  <2>8. CASE SubWorktreeFails(l)
    BY <2>4, <2>8 DEF SubWorktreeFails
  <2> QED
    BY <2>6, <2>7, <2>8
<1> QED
  BY <1>4, <1>5, <1>7 DEF SettledEffect

(* The execution of a call that has one is marked, and no other. *)
LEMMA MarksOwn ==
  ASSUME NEW l, NEW f, NEW c, TopFacts(l, f, c), f.at \in {"agent", "quality"},
         NEW st \in StepStatus, NEW t, t = Mark(steps, f.exec, st)
  PROVE  /\ Within({f.of}, steps, t) /\ Within(OfLane(l), steps, t)
         /\ DOMAIN t = DOMAIN steps /\ t[f.exec].status = st
         /\ f.exec \in DOMAIN steps /\ steps[f.exec].of = f.of /\ f.exec # 0
         /\ t[f.exec].of = f.of /\ Chain(t, l, c)
<1>1. /\ steps \in Seq(Execution) /\ f.exec \in DOMAIN steps /\ steps[f.exec].of = f.of
      /\ f.of \in {f.of} /\ f.of \in OfLane(l)
  BY DEF TopFacts
<1>2. f.exec \in Nat \ {0}
  <2>1. DOMAIN steps = 1..Len(steps)
    BY <1>1, LenProperties
  <2> QED
    BY <1>1, <2>1
<1>3. Within({f.of}, steps, t) /\ t[f.exec].of = f.of /\ t[f.exec].status = st
  BY <1>1, MarkWithin
<1>4. DOMAIN t = DOMAIN steps
  BY <1>1, <1>2, MarkType
<1>5. Within(OfLane(l), steps, t)
  BY <1>1, <1>3 DEF Within
<1>6. Chain(t, l, c)
  BY <1>3, CallersKept DEF TopFacts
<1> QED
  BY <1>1, <1>2, <1>3, <1>4, <1>5, <1>6

(* An agent that completes leaves its execution for the quality gate, or    *)
(* completes the call.                                                      *)
LEMMA AgentCompletesSettles ==
  ASSUME StructInv, SettledInv, NEW l \in DOMAIN lanes, AgentCompletes(l)
  PROVE  SettledEffect(l)
<1>1. PICK f, c : TopFacts(l, f, c)
  BY TopKnown DEF AgentCompletes
<1>2. f = Top(l) /\ c = Callers(l) /\ f \in FrameOf(l) /\ c \in Seq(FrameOf(l))
      /\ (ctl = "lanes" => AllExecute(c))
      /\ IF c = <<>> THEN f.of = l /\ Bottom(steps, l, f) ELSE f.of = 0
  BY <1>1 DEF TopFacts
<1>3. f.at = "agent" /\ steps' = Mark(steps, f.exec, "completed") /\ signals' = signals
  BY <1>2 DEF AgentCompletes
<1>4. /\ Within({f.of}, steps, steps') /\ Within(OfLane(l), steps, steps')
      /\ DOMAIN steps' = DOMAIN steps /\ steps'[f.exec].status = "completed"
      /\ f.exec \in DOMAIN steps /\ steps[f.exec].of = f.of /\ f.exec # 0
      /\ steps'[f.exec].of = f.of /\ Chain(steps', l, c)
  <2>1. f.at \in {"agent", "quality"} /\ "completed" \in StepStatus
    BY <1>3 DEF StepStatus
  <2>2. PICK t : t = Mark(steps, f.exec, "completed")
    OBVIOUS
  <2>3. Within({f.of}, steps, t) /\ Within(OfLane(l), steps, t) /\ Chain(t, l, c)
    BY <1>1, <2>1, <2>2, MarksOwn
  <2>4. f.exec \in DOMAIN steps /\ steps[f.exec].of = f.of /\ f.exec # 0
    BY <1>1, <2>1, <2>2, MarksOwn
  <2>5. /\ DOMAIN t = DOMAIN steps /\ t[f.exec].status = "completed"
        /\ t[f.exec].of = f.of
    <3>1. steps \in Seq(Execution) /\ f.exec \in Nat
      BY <1>1, <1>2 DEF TopFacts, FrameOf
    <3> QED
      BY <2>1, <2>2, <2>4, <3>1, MarkType, MarkWithin
  <2>6. steps' = t
    BY <1>3, <2>2
  <2> QED
    BY <2>3, <2>4, <2>5, <2>6
<1>5. CASE /\ SetLane(l, <<[f EXCEPT !.at = "quality"]>> \o c, "running")
           /\ integrated' = integrated
  <2>1. PICK g : g = [f EXCEPT !.at = "quality"]
    OBVIOUS
  <2>2. g \in FrameOf(l) /\ g.of = f.of /\ g.exec = f.exec /\ g.at = "quality"
    BY <1>2, <1>4, <2>1 DEF FrameOf
  <2>3. Own(steps', g)
    BY <1>4, <2>2 DEF Own
  <2>4. c = <<>> => Bottom(steps', l, g)
    BY <1>2, <1>4, <2>2 DEF Bottom, Within
  <2>5. SetLane(l, <<g>> \o c, "running")
    BY <1>5, <2>1
  <2>6. Chain(steps', l, lanes'[l].frames) /\ (ctl = "lanes" => LaneInv(l)')
    BY <1>2, <1>4, <2>2, <2>3, <2>4, <2>5, GoesOn
  <2> QED
    BY <1>3, <1>4, <1>5, <2>6 DEF SettledEffect
<1>6. CASE StepCompletes(l)
  <2>1. /\ Chain(steps', l, lanes'[l].frames) /\ (ctl = "lanes" => LaneInv(l)')
        /\ integrated \subseteq integrated'
    BY <1>1, <1>4, <1>6, CompletesWell
  <2> QED
    BY <1>3, <1>4, <2>1 DEF SettledEffect
<1> QED
  BY <1>2, <1>5, <1>6 DEF AgentCompletes

(* A quality gate that passes completes the call, whose agent had completed. *)
LEMMA QualityGatePassesSettles ==
  ASSUME StructInv, SettledInv, NEW l \in DOMAIN lanes, QualityGatePasses(l)
  PROVE  SettledEffect(l)
<1>1. PICK f, c : TopFacts(l, f, c)
  BY TopKnown DEF QualityGatePasses
<1>2. f = Top(l) /\ f.at = "quality" /\ steps' = steps /\ signals' = signals
      /\ StepCompletes(l)
  BY <1>1 DEF QualityGatePasses, TopFacts
<1>3. f.exec \in DOMAIN steps /\ steps[f.exec].of = f.of /\ f.exec # 0
  BY <1>1, <1>2 DEF TopFacts, FrameOf
<1>4. Within({f.of}, steps, steps') /\ Within(OfLane(l), steps, steps')
  BY <1>2 DEF Within
<1>5. ASSUME Callers(l) = <<>> PROVE steps[f.exec].status = "completed"
  BY <1>1, <1>2, <1>3, <1>5 DEF TopFacts, Bottom
<1>6. /\ Chain(steps', l, lanes'[l].frames) /\ (ctl = "lanes" => LaneInv(l)')
      /\ integrated \subseteq integrated'
  BY <1>1, <1>2, <1>3, <1>4, <1>5, CompletesWell DEF TopFacts
<1> QED
  BY <1>2, <1>4, <1>6 DEF SettledEffect

(* An agent that fails ends its lane. *)
LEMMA AgentEndsSettles ==
  ASSUME StructInv, SettledInv, NEW l \in DOMAIN lanes, CommitFails(l) \/ AgentFails(l)
  PROVE  SettledEffect(l)
<1>1. PICK f, c : TopFacts(l, f, c)
  BY TopKnown DEF CommitFails, AgentFails
<1>2. f = Top(l) /\ f.at = "agent" /\ steps' = Mark(steps, f.exec, "failed") /\ signals' = signals
      /\ integrated' = integrated /\ LaneFails(l)
  BY <1>1 DEF CommitFails, AgentFails, TopFacts
<1>3. Within(OfLane(l), steps, steps')
  BY <1>1, <1>2, MarksOwn DEF StepStatus
<1>4. Chain(steps', l, lanes'[l].frames) /\ LaneInv(l)'
  BY <1>2, FailsBadly
<1> QED
  BY <1>2, <1>3, <1>4 DEF SettledEffect

(* A member of a group that asks for rework leaves a signal. *)
LEMMA AgentSignalsReworkSettles ==
  ASSUME StructInv, SettledInv, NEW l \in DOMAIN lanes, AgentSignalsRework(l)
  PROVE  SettledEffect(l)
<1>1. PICK f, c : TopFacts(l, f, c)
  BY TopKnown DEF AgentSignalsRework
<1>2. f = Top(l) /\ f.at = "agent" /\ steps' = Mark(steps, f.exec, "needs_rework")
      /\ integrated' = integrated /\ SetLane(l, <<>>, "rework")
      /\ signals' = Append(signals, [num |-> l, rework |-> f.rework])
  BY <1>1 DEF AgentSignalsRework, TopFacts
<1>3. Within(OfLane(l), steps, steps')
  BY <1>1, <1>2, MarksOwn DEF StepStatus
<1>4. signals' # <<>>
  <2>1. l \in PlanSteps /\ f.rework \in Nat
    BY <1>1 DEF TopFacts, FrameOf
  <2>2. signals \in Seq([num : PlanSteps, rework : Nat])
    BY DEF StructInv, TypeOK
  <2> QED
    BY <1>2, <2>1, <2>2, AppendProperties
<1>5. lanes'[l].frames = <<>> /\ lanes'[l].result = "rework"
  BY <1>2 DEF SetLane
<1>6. Chain(steps', l, <<>>) /\ CallersExecute(<<>>)
  BY DEF Chain, CallersExecute
<1> QED
  BY <1>2, <1>3, <1>4, <1>5, <1>6 DEF SettledEffect, LaneInv

(* A quality gate that fails has the step tried again, or ends the lane. *)
LEMMA QualityGateFailsSettles ==
  ASSUME StructInv, SettledInv, NEW l \in DOMAIN lanes, QualityGateFails(l)
  PROVE  SettledEffect(l)
<1>1. PICK f, c : TopFacts(l, f, c)
  BY TopKnown DEF QualityGateFails
<1>2. f = Top(l) /\ c = Callers(l) /\ f \in FrameOf(l) /\ c \in Seq(FrameOf(l))
      /\ (ctl = "lanes" => AllExecute(c))
      /\ IF c = <<>> THEN f.of = l ELSE f.of = 0
  BY <1>1 DEF TopFacts
<1>3. f.at = "quality" /\ integrated' = integrated /\ signals' = signals
  BY <1>2 DEF QualityGateFails
<1>4. PICK st \in StepStatus : steps' = Mark(steps, f.exec, st)
  BY <1>2 DEF QualityGateFails, StepStatus
<1>5. /\ Within(OfLane(l), steps, steps') /\ Chain(steps', l, c)
  <2>1. f.at \in {"agent", "quality"}
    BY <1>3
  <2>2. PICK t : t = Mark(steps, f.exec, st)
    OBVIOUS
  <2>3. Within(OfLane(l), steps, t) /\ Chain(t, l, c)
    BY <1>1, <2>1, <2>2, MarksOwn
  <2>4. steps' = t
    BY <1>4, <2>2
  <2> QED
    BY <2>3, <2>4
<1>6. CASE LaneFails(l)
  <2>1. Chain(steps', l, lanes'[l].frames) /\ LaneInv(l)'
    BY <1>6, FailsBadly
  <2> QED
    BY <1>3, <1>5, <2>1 DEF SettledEffect
<1>7. CASE SetLane(l, <<StartFrame(f.num, f.of, FALSE)>> \o c, "running")
  <2>1. PICK g \in FrameOf(l) : g = StartFrame(f.num, f.of, FALSE)
    BY <1>2, StartFrameType DEF FrameOf
  <2>2. g.of = f.of /\ Own(steps', g) /\ Bottom(steps', l, g)
    BY <2>1 DEF StartFrame, Own, Bottom
  <2>3. SetLane(l, <<g>> \o c, "running")
    BY <1>7, <2>1
  <2>4. Chain(steps', l, lanes'[l].frames) /\ (ctl = "lanes" => LaneInv(l)')
    BY <1>2, <1>5, <2>2, <2>3, GoesOn
  <2> QED
    BY <1>3, <1>5, <2>4 DEF SettledEffect
<1> QED
  BY <1>2, <1>6, <1>7 DEF QualityGateFails

(* An agent that asks for rework outside a group has its rework plan run    *)
(* above its call, or ends the lane.                                        *)
LEMMA AgentNeedsReworkSettles ==
  ASSUME StructInv, SettledInv, NEW l \in DOMAIN lanes, AgentNeedsRework(l)
  PROVE  SettledEffect(l)
<1>1. PICK f, c : TopFacts(l, f, c)
  BY TopKnown DEF AgentNeedsRework
<1>2. f = Top(l) /\ c = Callers(l) /\ f \in FrameOf(l) /\ c \in Seq(FrameOf(l))
      /\ (ctl = "lanes" => AllExecute(c))
      /\ IF c = <<>> THEN f.of = l /\ Bottom(steps, l, f) ELSE f.of = 0
  BY <1>1 DEF TopFacts
<1>3. f.at = "agent" /\ integrated' = integrated /\ signals' = signals
  BY <1>2 DEF AgentNeedsRework
<1>4. PICK st \in StepStatus : steps' = Mark(steps, f.exec, st)
  BY <1>2 DEF AgentNeedsRework, StepStatus
<1>5. /\ Within({f.of}, steps, steps')
      /\ Within(OfLane(l), steps, steps') /\ Chain(steps', l, c)
      /\ f.exec \in DOMAIN steps' /\ steps'[f.exec].of = f.of /\ f.exec # 0
      /\ DOMAIN steps' = DOMAIN steps
  <2>1. f.at \in {"agent", "quality"}
    BY <1>3
  <2>2. PICK t : t = Mark(steps, f.exec, st)
    OBVIOUS
  <2>3. /\ Within({f.of}, steps, t) /\ Within(OfLane(l), steps, t)
        /\ DOMAIN t = DOMAIN steps /\ Chain(t, l, c)
        /\ f.exec \in DOMAIN steps /\ t[f.exec].of = f.of /\ f.exec # 0
    <3>1. Within({f.of}, steps, t) /\ Within(OfLane(l), steps, t)
      BY <1>1, <2>1, <2>2, MarksOwn
    <3>2. Chain(t, l, c)
      BY <1>1, <2>1, <2>2, MarksOwn
    <3>3. DOMAIN t = DOMAIN steps
      BY <2>2 DEF Mark
    <3>4. f.exec \in DOMAIN steps /\ steps[f.exec].of = f.of /\ f.exec # 0
      BY <1>1, <2>1, <2>2, MarksOwn
    <3>5. t[f.exec].of = f.of
      BY <3>1, <3>4 DEF Within
    <3> QED
      BY <3>1, <3>2, <3>3, <3>4, <3>5
  <2>4. steps' = t
    BY <1>4, <2>2
  <2> QED
    BY <2>3, <2>4
<1>6. CASE LaneFails(l)
  <2>1. Chain(steps', l, lanes'[l].frames) /\ LaneInv(l)'
    BY <1>6, FailsBadly
  <2> QED
    BY <1>3, <1>5, <2>1 DEF SettledEffect
<1>7. CASE \E p \in ReworkPlans(f.num) :
             SetLane(l, Proceed(<<[f EXCEPT !.at = "replan", !.todo = p]>> \o c), "running")
  <2>1. PICK p \in ReworkPlans(f.num) :
          SetLane(l, Proceed(<<[f EXCEPT !.at = "replan", !.todo = p]>> \o c), "running")
    BY <1>7
  <2>2. p \in Seq(Nat)
    BY <1>2, TopType, ReworkPlansType DEF AgentNeedsRework
  <2>3. PICK g : g = [f EXCEPT !.at = "replan", !.todo = p]
    OBVIOUS
  <2>4. g \in FrameOf(l) /\ g.of = f.of /\ g.exec = f.exec /\ g.at = "replan"
    BY <1>2, <2>2, <2>3 DEF FrameOf
  <2>5. Own(steps', g) /\ (c = <<>> => Bottom(steps', l, g))
    <3>1. Own(steps', g)
      BY <1>5, <2>4 DEF Own
    <3>2. ASSUME c = <<>> PROVE Bottom(steps', l, g)
      BY <1>2, <1>5, <2>4, <3>2 DEF Bottom, Within
    <3> QED
      BY <3>1, <3>2
  <2>6. PICK r : r = <<g>> \o c
    OBVIOUS
  <2>7. PICK q : q = Proceed(r)
    OBVIOUS
  <2>8. Chain(steps', l, r)
    <3>1. Chain(steps', l, <<g>> \o c)
      BY <1>2, <1>5, <2>4, <2>5, ChainOnTop
    <3> QED
      BY <2>6, <3>1
  <2>9. Chain(steps', l, q) /\ (AllExecute(c) => q # <<>> /\ CallersExecute(q))
    BY <1>2, <1>5, <2>4, <2>6, <2>7, <2>8, ProceedOnTop
  <2>10. lanes'[l].frames = q /\ lanes'[l].result = "running"
    BY <2>1, <2>3, <2>6, <2>7 DEF SetLane
  <2>11. Chain(steps', l, lanes'[l].frames) /\ (ctl = "lanes" => LaneInv(l)')
    BY <1>2, <2>9, <2>10 DEF LaneInv
  <2> QED
    BY <1>3, <1>5, <2>11 DEF SettledEffect
<1> QED
  BY <1>2, <1>6, <1>7 DEF AgentNeedsRework

(* Every step of executeStepBody does no more than that. *)
LEMMA LaneStepSettles ==
  ASSUME StructInv, SettledInv, NEW l \in DOMAIN lanes, LaneStep(l)
  PROVE  SettledEffect(l)
  BY StartAgentSettles, StartFailsSettles, AgentCompletesSettles, QualityGatePassesSettles,
     AgentEndsSettles, AgentSignalsReworkSettles, QualityGateFailsSettles,
     AgentNeedsReworkSettles
  DEF LaneStep

-----------------------------------------------------------------------------
(* The invariant *)

(* A new run satisfies it. *)
LEMMA InitSettled == Init => SettledInv
  BY NoLanesType DEF Init, SettledInv

(* The lanes keep it: a lane leaves alone what the others and the completed *)
(* steps rely on.                                                           *)
LEMMA LaneStepSettled ==
  ASSUME StructInv, GateInv, SettledInv, NEW l \in DOMAIN lanes, LaneStep(l)
  PROVE  SettledInv'
<1> DEFINE N == OfLane(l)
<1>1. LaneEffect(l) /\ SettledEffect(l)
  BY LaneStepEffect, LaneStepSettles
<1>2. /\ UNCHANGED <<ctl, completed, resumes>>
      /\ DOMAIN lanes' = DOMAIN lanes /\ \A m \in DOMAIN lanes \ {l} : lanes'[m] = lanes[m]
  BY <1>1 DEF LaneEffect, LaneChange, SetLane
<1>3. /\ Within(N, steps, steps') /\ integrated \subseteq integrated'
      /\ signals # <<>> => signals' # <<>>
      /\ Chain(steps', l, lanes'[l].frames) /\ (ctl = "lanes" => LaneInv(l)')
  BY <1>1 DEF SettledEffect
<1>4. /\ PlanSteps \cap {0} = {} /\ completed \subseteq PlanSteps
      /\ DOMAIN lanes \subseteq PlanSteps
  BY PlanNumbers DEF StructInv, TypeOK, PlanSteps
<1> HIDE DEF N
<1>5. ASSUME NEW d \in PlanSteps, d # l, Done(d) PROVE Done(d)'
  <2>1. d \notin N
    BY <1>4, <1>5 DEF N, OfLane
  <2> QED
    BY <1>3, <1>5, <2>1, DoneKept
<1>6. ASSUME Fresh, ctl # "down", NEW d \in completed PROVE Done(d)'
  <2>1. d \in PlanSteps /\ d # l /\ Done(d)
    BY <1>4, <1>6 DEF GateInv, SettledInv
  <2> QED
    BY <1>5, <2>1
<1>7. ASSUME NEW m \in DOMAIN lanes, m # l PROVE Chain(steps', m, lanes'[m].frames)
  <2>1. m \notin N
    BY <1>4, <1>7 DEF N, OfLane
  <2>2. PICK fr \in Seq(FrameOf(m)) : fr = lanes[m].frames
    BY DEF StructInv, LaneOf
  <2>3. Chain(steps, m, fr)
    BY <2>2 DEF SettledInv
  <2>4. Chain(steps', m, fr)
    BY <1>3, <2>1, <2>3, ChainKept
  <2> QED
    BY <1>2, <1>7, <2>2, <2>4
<1>8. ASSUME ctl = "lanes", NEW m \in DOMAIN lanes, m # l PROVE LaneInv(m)'
  <2>1. LaneInv(m) /\ lanes'[m] = lanes[m] /\ m \in PlanSteps
    BY <1>2, <1>4, <1>8 DEF SettledInv
  <2>2. lanes[m].result = "completed" => Done(m)'
    BY <1>5, <1>8, <2>1 DEF LaneInv
  <2> QED
    BY <1>3, <2>1, <2>2 DEF LaneInv
<1> QED
  BY <1>2, <1>3, <1>6, <1>7, <1>8 DEF SettledInv, Fresh

(* A step of executePlan that leaves the lanes of a group, or has none *)
LEMMA KeepsSettled ==
  ASSUME StructInv, SettledInv, Within({}, steps, steps'),
         UNCHANGED <<completed, integrated, resumes>>, lanes' \in {lanes, NoLanes},
         ctl # "down", ctl' # "lanes"
  PROVE  SettledInv'
<1>1. ASSUME Fresh, NEW d \in completed PROVE Done(d)'
  <2>1. Done(d)
    BY <1>1 DEF SettledInv
  <2> QED
    BY <2>1, DoneKept
<1>2. ASSUME NEW m \in DOMAIN lanes PROVE Chain(steps', m, lanes[m].frames)
  <2>1. PICK fr \in Seq(FrameOf(m)) : fr = lanes[m].frames
    BY DEF StructInv, LaneOf
  <2>2. Chain(steps, m, fr)
    BY <2>1 DEF SettledInv
  <2> QED
    BY <2>1, <2>2, ChainKept
<1> QED
  BY <1>1, <1>2, NoLanesType DEF SettledInv, Fresh

(* Launched calls have no execution yet. *)
LEMMA LaunchSettled ==
  ASSUME StructInv, SettledInv, NEW G \in SUBSET Ready, NEW d \in BOOLEAN, Launch(G, d),
         ctl = "loop"
  PROVE  SettledInv'
<1>1. /\ UNCHANGED <<steps, completed, integrated, resumes>> /\ ctl' = "lanes"
      /\ DOMAIN lanes' = G
      /\ \A l \in G : lanes'[l] = [frames |-> <<StartFrame(l, l, d)>>, result |-> "running"]
  BY DEF Launch
<1>2. ASSUME NEW l \in G
      PROVE  Chain(steps', l, lanes'[l].frames) /\ LaneInv(l)'
  <2>1. PICK g : g = StartFrame(l, l, d)
    OBVIOUS
  <2>2. g.exec = 0 /\ g.of = l
    BY <2>1 DEF StartFrame
  <2>3. Own(steps', g) /\ Bottom(steps', l, g)
    BY <2>2 DEF Own, Bottom
  <2>4. lanes'[l].frames = <<g>> /\ lanes'[l].result = "running"
    BY <1>1, <2>1
  <2>5. DOMAIN <<g>> = {1} /\ <<g>>[1] = g /\ Len(<<g>>) = 1
    OBVIOUS
  <2>6. Chain(steps', l, <<g>>) /\ CallersExecute(<<g>>)
    BY <2>2, <2>3, <2>5 DEF Chain, CallersExecute
  <2> QED
    BY <2>4, <2>6 DEF LaneInv
<1>3. ASSUME Fresh, NEW s \in completed PROVE Done(s)'
  <2>1. Done(s)
    BY <1>3, ctl # "down" DEF SettledInv
  <2> QED
    BY <1>1, <2>1 DEF Done, LatestCompleted, Executions, IsLatest
<1> QED
  BY <1>1, <1>2, <1>3 DEF SettledInv, Fresh

(* A call without an execution has a rework plan run above it. *)
LEMMA GroupChain ==
  ASSUME plan \in Plans, NEW n \in PlanSteps, NEW p \in ReworkPlans(n), NEW s, NEW fr,
         fr = Proceed(<<[StartFrame(n, n, FALSE) EXCEPT !.at = "replan", !.todo = p]>>)
  PROVE  Chain(s, n, fr)
<1>1. n \in Nat \ {0}
  BY PlanNumbers DEF PlanSteps
<1>2. PICK f : f = [StartFrame(n, n, FALSE) EXCEPT !.at = "replan", !.todo = p]
  OBVIOUS
<1>3. f \in FrameOf(n) /\ f.exec = 0 /\ f.of = n
  <2>1. p \in Seq(Nat)
    BY <1>1, ReworkPlansType
  <2>2. StartFrame(n, n, FALSE) \in FrameOf(n)
    BY <1>1, StartFrameType
  <2>3. f \in FrameOf(n)
    BY <1>2, <2>1, <2>2 DEF FrameOf
  <2> QED
    BY <1>2, <2>3 DEF StartFrame
<1>4. PICK c : c = <<f>>
  OBVIOUS
<1>5. PICK d \in Seq(FrameOf(n)) : c = <<f>> \o d
  <2>1. c = <<f>> \o <<>> /\ <<>> \in Seq(FrameOf(n))
    BY <1>3, <1>4
  <2> QED
    BY <2>1, Zenon
<1>6. Chain(s, n, c)
  <2>1. DOMAIN c = {1} /\ c[1] = f /\ Len(c) = 1
    BY <1>4
  <2>2. Own(s, f) /\ Bottom(s, n, f)
    BY <1>3 DEF Own, Bottom
  <2> QED
    BY <1>3, <2>1, <2>2 DEF Chain
<1>7. fr = Proceed(c)
  BY <1>2, <1>4
<1> QED
  BY <1>3, <1>5, <1>6, <1>7, ProceedOnTop

(* The merged rework of a group runs above a call without an execution. *)
LEMMA GroupReplansSettled ==
  ASSUME StructInv, StructInv', SettledInv, GroupReplans
  PROVE  SettledInv'
<1>1. /\ UNCHANGED <<steps, completed, integrated, resumes>> /\ ctl = "lanes"
      /\ ctl' \in {"rework", "unwind"}
  BY DEF GroupReplans
<1>2. ASSUME Fresh, NEW s \in completed PROVE Done(s)'
  <2>1. Done(s)
    BY <1>1, <1>2 DEF SettledInv
  <2> QED
    BY <1>1, <2>1 DEF Done, LatestCompleted, Executions, IsLatest
<1>3. plan' = plan /\ plan \in Plans /\ DOMAIN lanes' \subseteq PlanSteps'
  BY DEF GroupReplans, StructInv, TypeOK
<1>4. \A l \in DOMAIN lanes' : Chain(steps', l, lanes'[l].frames)
  <2>1. CASE lanes' = NoLanes
    BY <2>1, NoLanesType
  <2>2. CASE lanes' # NoLanes
    <3>1. PICK n, fr, p :
            /\ n = signals[1].num /\ p \in ReworkPlans(n)
            /\ fr = Proceed(<<[StartFrame(n, n, FALSE) EXCEPT !.at = "replan", !.todo = p]>>)
            /\ lanes' = [l \in {n} |->
                 [frames |-> fr, result |-> IF fr = <<>> THEN "completed" ELSE "running"]]
      BY ZenonT(30), <2>2 DEF GroupReplans
    <3>2. DOMAIN lanes' = {n} /\ lanes'[n].frames = fr
      BY <3>1
    <3>3. n \in PlanSteps
      BY <1>3, <3>2 DEF PlanSteps
    <3>4. Chain(steps', n, fr)
      BY <1>3, <3>1, <3>3, GroupChain
    <3> QED
      BY <3>2, <3>4
  <2> QED
    BY <2>1, <2>2
<1> QED
  BY <1>1, <1>2, <1>4 DEF SettledInv, Fresh

(* executePlan keeps the invariant: it takes for completed what the lanes   *)
(* of a group have completed, when none of them asks for rework.            *)
LEMMA EngineSettled ==
  ASSUME StructInv, StructInv', GateInv, SettledInv, Engine
  PROVE  SettledInv'
<1>1. CASE LaunchParallel \/ LaunchSequential
  <2>1. PICK G \in SUBSET Ready, d \in BOOLEAN : Launch(G, d) /\ ctl = "loop"
    BY <1>1 DEF LaunchParallel, LaunchSequential
  <2> QED
    BY <2>1, LaunchSettled
<1>2. CASE GroupReplans
  BY <1>2, GroupReplansSettled
<1>3. CASE GroupCompletes
  <2>1. /\ ctl = "lanes" /\ ctl' = "budget" /\ signals = <<>> /\ Settled /\ ~SomeFailed
        /\ completed' = completed \cup DOMAIN lanes /\ lanes' = NoLanes
        /\ UNCHANGED <<steps, integrated, resumes>>
    BY <1>3 DEF GroupCompletes
  <2>2. ASSUME NEW l \in DOMAIN lanes PROVE Done(l)
    BY <2>1 DEF Settled, SomeFailed, SettledInv, LaneInv
  <2>3. ASSUME Fresh, NEW d \in completed' PROVE Done(d)
    BY <2>1, <2>2, <2>3 DEF SettledInv
  <2>4. ASSUME Fresh, NEW d \in completed' PROVE Done(d)'
    <3>1. Done(d)
      BY <2>3, <2>4
    <3> QED
      BY <2>1, <3>1 DEF Done, LatestCompleted, Executions, IsLatest
  <2> QED
    BY <2>1, <2>4, NoLanesType DEF SettledInv, Fresh
<1>4. CASE ReviewApproved
  <2>1. steps \in Seq(Execution)
    BY DEF StructInv, TypeOK
  <2>2. /\ DOMAIN steps' = DOMAIN steps
        /\ \A i \in DOMAIN steps : /\ steps'[i].of = steps[i].of
                                   /\ steps'[i].status = steps[i].status
    <3>1. \A i \in DOMAIN steps : steps[i] \in Execution
      BY <2>1, LenProperties
    <3> QED
      BY <1>4, <3>1 DEF ReviewApproved, Execution
  <2>3. Within({}, steps, steps')
    BY <2>2 DEF Within
  <2>4. /\ UNCHANGED <<completed, integrated, resumes, lanes>> /\ ctl # "down" /\ ctl' # "lanes"
    BY <1>4 DEF ReviewApproved
  <2> QED
    BY <2>3, <2>4, KeepsSettled
<1>5. ASSUME UNCHANGED <<steps, completed, integrated, resumes>>, lanes' \in {lanes, NoLanes},
             ctl # "down", ctl' # "lanes"
      PROVE  SettledInv'
  <2>1. Within({}, steps, steps')
    BY <1>5 DEF Within
  <2> QED
    BY <1>5, <2>1, KeepsSettled
<1>6. CASE PlanDeadlock \/ GroupFails \/ ReworkDone \/ LaneThrew
  BY <1>5, <1>6 DEF PlanDeadlock, GroupFails, ReworkDone, LaneThrew, FailRun
<1>7. CASE SkipConfirmation \/ AskConfirmation \/ ConfirmationGiven \/ ConfirmationRefused
  BY <1>5, <1>7
  DEF SkipConfirmation, AskConfirmation, ConfirmationGiven, ConfirmationRefused, FailRun
<1>8. CASE SkipGate \/ RequestReview \/ ReviewRejected \/ GatesDone
  BY <1>5, <1>8 DEF SkipGate, RequestReview, ReviewRejected, GatesDone, FailRun
<1>9. CASE PlanCompleted \/ EngineThrows \/ Teardown \/ Finalize
  BY <1>5, <1>9 DEF PlanCompleted, EngineThrows, Teardown, Finalize
<1> QED
  BY <1>1, <1>2, <1>3, <1>4, <1>6, <1>7, <1>8, <1>9 DEF Engine

(* The environment keeps it: a dead process has no lanes, and a resumed run *)
(* makes no claim for what came before.                                     *)
LEMMA EnvironmentSettled ==
  ASSUME StructInv, GateInv, SettledInv, Environment
  PROVE  SettledInv'
<1> USE DEF SettledInv, Fresh
<1>1. CASE FlushRunState
  BY <1>1 DEF FlushRunState, Done, LatestCompleted, Executions, IsLatest, LaneInv
<1>2. CASE ProcessDies
  BY <1>2, NoLanesType DEF ProcessDies
<1>3. CASE CancelSession \/ ResumeTask
  <2>1. lanes = NoLanes /\ lanes' = lanes
    BY <1>3 DEF CancelSession, ResumeTask, GateInv
  <2>2. CASE CancelSession
    BY <2>1, <2>2, NoLanesType DEF CancelSession
  <2>3. CASE ResumeTask
    <3>1. resumes \in Nat /\ resumes' = resumes + 1 /\ ctl' = "loop"
      BY <2>3, BoundsAssumption DEF ResumeTask, StructInv, TypeOK
    <3> QED
      BY <2>1, <3>1, NoLanesType
  <2> QED
    BY <1>3, <2>2, <2>3
<1> QED
  BY <1>1, <1>2, <1>3 DEF Environment

(* Both invariants of the engine hold in every reachable state. *)
LEMMA SpecSettled == Spec => [](GateInv /\ SettledInv)
<1>1. StructInv /\ GateInv /\ [Next]_vars => GateInv'
  <2> SUFFICES ASSUME StructInv, GateInv, [Next]_vars PROVE GateInv'
    OBVIOUS
  <2>1. CASE Lanes
    BY <2>1, LaneStepGate DEF Lanes
  <2>2. CASE UNCHANGED vars
    BY <2>2 DEF vars, GateInv, Fresh
  <2> QED
    BY <2>1, <2>2, EngineGate, EnvironmentGate DEF Next, Quiet
<1>2. StructInv /\ StructInv' /\ GateInv /\ SettledInv /\ [Next]_vars => SettledInv'
  <2> SUFFICES ASSUME StructInv, StructInv', GateInv, SettledInv, [Next]_vars
               PROVE  SettledInv'
    OBVIOUS
  <2>1. CASE Lanes
    BY <2>1, LaneStepSettled DEF Lanes
  <2>2. CASE UNCHANGED vars
    BY <2>2
    DEF vars, SettledInv, Fresh, Done, LatestCompleted, Executions, IsLatest, LaneInv
  <2> QED
    BY <2>1, <2>2, EngineSettled, EnvironmentSettled DEF Next, Quiet
<1> QED
  BY <1>1, <1>2, InitStruct, NextStruct, InitGate, InitSettled, PTL DEF Spec

(* For every set of plans and of rework plans, numbered like plan steps or *)
(* not, every limit and every interleaving of lanes: an agent of a run     *)
(* that was never resumed works for a step only when all it depends on is  *)
(* done, merged and, where a gate stands, approved (orchestration-         *)
(* service.ts:897-1178).                                                   *)
THEOREM WorkIsOnSettled == Spec => []WorksOnSettled
<1>1. GateInv /\ SettledInv => DependenciesSettled
  <2> SUFFICES ASSUME GateInv, SettledInv, Fresh, NEW l \in AtWork, NEW d \in plan.deps[l]
               PROVE  LatestCompleted(d) /\ d \in integrated
    BY DEF DependenciesSettled
  <2>1. l \in DOMAIN lanes /\ ctl # "down"
    BY NoLanesType DEF AtWork, GateInv
  <2>2. d \in completed
    BY <2>1 DEF GateInv
  <2> QED
    BY <2>1, <2>2 DEF SettledInv, Done
<1>2. DependenciesSettled /\ GateBeforeDependents => WorksOnSettled
  BY DEF WorksOnSettled
<1> QED
  BY <1>1, <1>2, SpecSettled, GatesHold, PTL

-----------------------------------------------------------------------------
(* The pull request *)

(* DeliversReviewedWork needs to know that executePlan declares a run       *)
(* completed from its loop only, where no lane is left and every gate has   *)
(* been visited, and that a run with a pull request does nothing any more.  *)
Reviewed == integrated = PlanSteps /\ plan.gates \subseteq approved
DeliveryInv ==
  /\ ctl \in {"loop", "budget", "budget_review", "gates", "gate_review", "finally",
              "finalize", "down"} => lanes = NoLanes
  /\ Fresh =>
       /\ disk.pr => pr
       /\ pr => ctl \in {"ended", "down"} /\ lanes = NoLanes /\ Reviewed
       /\ status = "completed" /\ ctl = "finally" => Reviewed
       /\ ctl = "finalize" => Reviewed

(* A new run satisfies it. *)
LEMMA InitDelivery == Init => DeliveryInv
  BY DEF Init, DeliveryInv, RunRecord

(* The lanes write the run as it is. *)
LEMMA LaneStepSaves ==
  ASSUME NEW l, LaneStep(l)
  PROVE  disk' = disk \/ disk'.pr = pr
<1> USE DEF RunRecord
<1>1. CASE SubWorktreeFails(l) \/ StartAgent(l) \/ LimitReached(l) \/ StartThrows(l)
  BY <1>1 DEF SubWorktreeFails, StartAgent, LimitReached, StartThrows
<1>2. CASE AgentCompletes(l) \/ CommitFails(l) \/ AgentFails(l) \/ AgentSignalsRework(l)
  BY <1>2 DEF AgentCompletes, CommitFails, AgentFails, AgentSignalsRework
<1>3. CASE AgentNeedsRework(l) \/ QualityGatePasses(l) \/ QualityGateFails(l)
  BY <1>3 DEF AgentNeedsRework, QualityGatePasses, QualityGateFails
<1> QED
  BY <1>1, <1>2, <1>3 DEF LaneStep

(* The lanes keep it: there are none when it has something to say. *)
LEMMA LaneStepDelivery ==
  ASSUME StructInv, DeliveryInv, NEW l \in DOMAIN lanes, LaneStep(l)
  PROVE  DeliveryInv'
<1>1. UNCHANGED <<plan, pr, ctl, resumes>>
  BY LaneStepEffect DEF LaneEffect
<1>2. lanes # NoLanes
  BY NoLanesType
<1>3. disk' = disk \/ disk'.pr = pr
  BY LaneStepSaves
<1> QED
  BY <1>1, <1>2, <1>3 DEF DeliveryInv, Fresh

(* executePlan keeps it: completed is every step, integrated and approved. *)
LEMMA EngineDelivery ==
  ASSUME StructInv, GateInv, SettledInv, DeliveryInv, Engine
  PROVE  DeliveryInv'
<1> USE DEF DeliveryInv, Fresh, Reviewed, PlanSteps
<1>0. ASSUME UNCHANGED <<plan, pr, disk, resumes, integrated, approved>>,
             ctl \notin {"ended", "down"},
             ctl' \in {"lanes", "rework", "unwind"} \/ (ctl' = "budget" /\ lanes' = NoLanes)
      PROVE  DeliveryInv'
  BY <1>0
<1>1. CASE LaunchParallel \/ LaunchSequential
  <2>1. /\ UNCHANGED <<plan, pr, disk, resumes, integrated, approved>>
        /\ ctl = "loop" /\ ctl' = "lanes"
    BY <1>1 DEF LaunchParallel, LaunchSequential, Launch
  <2> QED
    BY <1>0, <2>1
<1>2. CASE PlanDeadlock \/ GroupFails \/ ReworkDone \/ LaneThrew
  BY <1>2 DEF PlanDeadlock, GroupFails, ReworkDone, LaneThrew, FailRun
<1>3. CASE GroupReplans \/ GroupCompletes
  <2>1. /\ UNCHANGED <<plan, pr, disk, resumes, integrated, approved>>
        /\ ctl = "lanes"
        /\ ctl' \in {"rework", "unwind"} \/ (ctl' = "budget" /\ lanes' = NoLanes)
    BY <1>3 DEF GroupReplans, GroupCompletes
  <2> QED
    BY <1>0, <2>1
<1>4. CASE SkipConfirmation \/ AskConfirmation \/ ConfirmationGiven \/ ConfirmationRefused
  BY <1>4 DEF SkipConfirmation, AskConfirmation, ConfirmationGiven, ConfirmationRefused, FailRun
<1>5. CASE SkipGate \/ RequestReview \/ ReviewApproved \/ ReviewRejected \/ GatesDone
  BY <1>5 DEF SkipGate, RequestReview, ReviewApproved, ReviewRejected, GatesDone, FailRun
<1>6. CASE PlanCompleted
  <2>1. /\ ctl = "loop" /\ completed = PlanSteps /\ ctl' = "finally"
        /\ UNCHANGED <<plan, pr, lanes, disk, resumes, approved, integrated>>
    BY <1>6 DEF PlanCompleted
  <2>2. integrated \subseteq PlanSteps /\ plan \in Plans
    BY DEF StructInv, TypeOK
  <2>3. plan.gates \subseteq PlanSteps
    BY <2>2, PlansAssumption DEF PlanType
  <2>4. Fresh => Reviewed
    BY <2>1, <2>2, <2>3 DEF GateInv, SettledInv, Done
  <2> QED
    BY <2>1, <2>4
<1>7. CASE EngineThrows
  BY <1>7 DEF EngineThrows
<1>8. CASE Teardown
  <2>1. /\ UNCHANGED <<plan, pr, lanes, disk, resumes, integrated, approved>>
        /\ ctl \in {"finally", "unwind"} /\ ctl' \in {"finalize", "ended"}
        /\ ctl' = "finalize" => ctl = "finally" /\ status = "completed"
    BY <1>8 DEF Teardown
  <2> QED
    BY <2>1
<1>9. CASE Finalize
  <2>1. /\ UNCHANGED <<plan, lanes, disk, resumes, integrated, approved>>
        /\ ctl = "finalize" /\ ctl' = "ended" /\ pr' \in {pr, TRUE}
    BY <1>9 DEF Finalize
  <2> QED
    BY <2>1
<1> QED
  BY <1>9, <1>1, <1>2, <1>3, <1>4, <1>5, <1>6, <1>7, <1>8 DEF Engine

(* The environment keeps it: what is read back was written before. *)
LEMMA EnvironmentDelivery ==
  ASSUME StructInv, DeliveryInv, Environment
  PROVE  DeliveryInv'
<1> USE DEF DeliveryInv, Fresh, Reviewed, PlanSteps
<1>1. CASE FlushRunState
  BY <1>1 DEF FlushRunState, RunRecord
<1>2. CASE ProcessDies
  BY <1>2 DEF ProcessDies
<1>3. CASE CancelSession
  BY <1>3 DEF CancelSession
<1>4. CASE ResumeTask
  <2>1. resumes \in Nat /\ resumes' = resumes + 1 /\ lanes' = lanes /\ ctl = "down"
    BY <1>4, BoundsAssumption DEF ResumeTask, StructInv, TypeOK
  <2> QED
    BY <2>1
<1> QED
  BY <1>1, <1>2, <1>3, <1>4 DEF Environment

(* What the pull request relies on holds in every reachable state. *)
LEMMA SpecDelivery == Spec => []DeliveryInv
<1>1. StructInv /\ GateInv /\ SettledInv /\ DeliveryInv /\ [Next]_vars => DeliveryInv'
  <2> SUFFICES ASSUME StructInv, GateInv, SettledInv, DeliveryInv, [Next]_vars
               PROVE  DeliveryInv'
    OBVIOUS
  <2>1. CASE Lanes
    BY <2>1, LaneStepDelivery DEF Lanes
  <2>2. CASE UNCHANGED vars
    BY <2>2 DEF vars, DeliveryInv, Fresh, Reviewed, PlanSteps
  <2> QED
    BY <2>1, <2>2, EngineDelivery, EnvironmentDelivery DEF Next, Quiet
<1> QED
  BY <1>1, InitStruct, NextStruct, SpecSettled, InitDelivery, PTL DEF Spec

(* For every set of plans, whatever its rework steps are numbered: a pull  *)
(* request of a run that was never resumed carries every step of the plan, *)
(* approved where a gate stands, and is opened when no agent works any     *)
(* more (orchestration-service.ts:1119-1172, 374-474).                     *)
THEOREM DeliversReviewed == Spec => []DeliversReviewedWork
<1>1. DeliveryInv => DeliversReviewedWork
  BY NoLanesType DEF DeliveryInv, DeliversReviewedWork, Reviewed, AtWork, Running
<1> QED
  BY <1>1, SpecDelivery, PTL

-----------------------------------------------------------------------------
(* The contract *)

(* A run whose process never dies is not resumed; what it approves it has   *)
(* accepted; and what it leaves at work when it ends is of a failed run.    *)
Unbroken ==
  crashes = 0 => /\ Fresh /\ ctl # "down" /\ approved \subseteq completed
                 /\ gateTodo \subseteq plan.gates
                 /\ ctl = "ended" => status = "failed" \/ lanes = NoLanes

(* A lane leaves the status of the run alone, or sets it to failed. *)
LEMMA LaneStepStatus ==
  ASSUME NEW l, LaneStep(l)
  PROVE  status' = status \/ status' = "failed"
<1>1. CASE SubWorktreeFails(l) \/ StartAgent(l) \/ LimitReached(l) \/ StartThrows(l)
  BY <1>1 DEF SubWorktreeFails, StartAgent, LimitReached, StartThrows
<1>2. CASE AgentCompletes(l) \/ CommitFails(l) \/ AgentFails(l) \/ AgentSignalsRework(l)
  BY <1>2 DEF AgentCompletes, CommitFails, AgentFails, AgentSignalsRework
<1>3. CASE AgentNeedsRework(l) \/ QualityGatePasses(l) \/ QualityGateFails(l)
  BY <1>3 DEF AgentNeedsRework, QualityGatePasses, QualityGateFails
<1> QED
  BY <1>1, <1>2, <1>3 DEF LaneStep

(* A new run satisfies it, and every step keeps it. *)
LEMMA SpecUnbroken == Spec => []Unbroken
<1>1. Init => Unbroken
  BY DEF Init, Unbroken, Fresh
<1>2. StructInv /\ GateInv /\ DeliveryInv /\ Unbroken /\ [Next]_vars => Unbroken'
  <2> SUFFICES ASSUME StructInv, GateInv, DeliveryInv, Unbroken, [Next]_vars PROVE Unbroken'
    OBVIOUS
  <2> USE DEF Unbroken, Fresh
  <2>1. CASE Lanes
    <3>1. PICK l \in DOMAIN lanes : LaneStep(l)
      BY <2>1 DEF Lanes
    <3>2. approved' \subseteq approved /\ UNCHANGED <<plan, ctl, completed, gateTodo, boundVars>>
      BY <3>1, LaneStepEffect DEF LaneEffect
    <3>3. lanes # NoLanes /\ (status' = status \/ status' = "failed")
      BY <3>1, NoLanesType, LaneStepStatus
    <3> QED
      BY <3>2, <3>3
  <2>2. CASE LaunchParallel \/ LaunchSequential \/ PlanDeadlock
    BY <2>2 DEF LaunchParallel, LaunchSequential, Launch, PlanDeadlock, FailRun
  <2>3. CASE GroupFails \/ GroupReplans \/ ReworkDone
    BY <2>3 DEF GroupFails, GroupReplans, ReworkDone, FailRun
  <2>4. CASE GroupCompletes \/ LaneThrew
    BY <2>4 DEF GroupCompletes, LaneThrew
  <2>5. CASE SkipConfirmation \/ AskConfirmation \/ ConfirmationGiven \/ ConfirmationRefused
    BY <2>5 DEF SkipConfirmation, AskConfirmation, ConfirmationGiven, ConfirmationRefused, FailRun,
                OpenGates
  <2>6. CASE SkipGate \/ RequestReview \/ ReviewRejected \/ GatesDone
    BY <2>6 DEF SkipGate, RequestReview, ReviewRejected, GatesDone, FailRun
  <2>7. CASE ReviewApproved
    <3>1. /\ ctl = "gate_review" /\ ctl' = "gates" /\ approved' = approved \cup {review}
          /\ gateTodo' \subseteq gateTodo /\ UNCHANGED <<plan, completed, boundVars>>
      BY <2>7 DEF ReviewApproved
    <3>2. review \in gateTodo
      BY <3>1 DEF StructInv, ReviewOpen
    <3> QED
      BY <3>1, <3>2 DEF GateInv
  <2>8. CASE PlanCompleted \/ EngineThrows \/ Teardown \/ Finalize
    BY <2>8 DEF PlanCompleted, EngineThrows, Teardown, Finalize, DeliveryInv
  <2>9. CASE FlushRunState \/ CancelSession \/ ResumeTask
    BY <2>9 DEF FlushRunState, CancelSession, ResumeTask
  <2>10. CASE ProcessDies
    <3>1. crashes \in Nat /\ crashes' = crashes + 1
      BY <2>10, BoundsAssumption DEF ProcessDies, StructInv, TypeOK
    <3> QED
      BY <3>1
  <2>11. CASE UNCHANGED vars
    BY <2>11 DEF vars
  <2> QED
    BY <2>1, <2>2, <2>3, <2>4, <2>5, <2>6, <2>7, <2>8, <2>9, <2>10, <2>11
    DEF Next, Engine, Environment, Quiet
<1> QED
  BY <1>1, <1>2, InitStruct, NextStruct, SpecSettled, SpecDelivery, PTL DEF Spec

(* How the run ends, as the contract sees it *)
Going == {"loop", "lanes", "rework", "budget", "budget_review", "gates", "gate_review"}
Outcome ==
  CASE ctl \in {"finally", "finalize", "ended"} /\ status = "completed" -> "done"
    [] ctl \in {"finally", "finalize", "ended"} /\ status # "completed" -> "failed"
    [] ctl = "unwind" -> "failed"
    [] OTHER -> "open"
Round == IF ctl = "lanes" THEN DOMAIN lanes ELSE {}

(* A new run is one of the contract. *)
LEMMA InitContract == Init => Contract!Init
  BY DEF Init, Contract!Init, NoLanes

(* What the contract calls a run that goes on or has ended *)
LEMMA Outcomes ==
  /\ ctl \in Going => Outcome = "open"
  /\ ctl = "unwind" => Outcome = "failed"
  /\ ctl \in {"finally", "finalize", "ended"} =>
       Outcome = IF status = "completed" THEN "done" ELSE "failed"
  BY DEF Outcome, Going

(* The steps of the contract, by what they do to the run *)
Kept == UNCHANGED <<plan, completed, approved>>
ContractStep == [Contract!Next]_(Contract!vars)

(* Nothing that the contract sees is changed. *)
LEMMA Stutters ==
  ASSUME Kept, Round' = Round, Outcome' = Outcome
  PROVE  ContractStep
  BY DEF Kept, Round, Outcome, ContractStep, Contract!vars

(* The run fails. *)
LEMMA FailsContract ==
  ASSUME Kept, Outcome = "open", Outcome' = "failed", Round' = {}
  PROVE  ContractStep
  BY DEF Kept, Round, Outcome, ContractStep, Contract!Next, Contract!Fail

(* A round starts. *)
LEMMA BeginsContract ==
  ASSUME Kept, Outcome = "open", Outcome' = "open", Round = {},
         NEW G \in SUBSET (PlanSteps \ completed), G # {}, Round' = G,
         \A s \in G : plan.deps[s] \subseteq completed /\ plan.deps[s] \cap plan.gates \subseteq approved
  PROVE  ContractStep
<1>1. G \in SUBSET Contract!Steps /\ \A s \in G : Contract!MayStart(s)
  BY DEF Contract!Steps, Contract!MayStart, Contract!Gates, PlanSteps, Numbers
<1>2. Contract!Begin(G)
  BY <1>1 DEF Contract!Begin, Kept, Round, Outcome
<1> QED
  BY <1>1, <1>2 DEF ContractStep, Contract!Next

(* A round is accepted, or not. *)
LEMMA EndsContract ==
  ASSUME UNCHANGED <<plan, approved>>, Outcome = "open", Outcome' = "open", Round' = {},
         completed' = completed \/ completed' = completed \cup Round
  PROVE  ContractStep
<1>1. CASE Round = {}
  BY <1>1, Stutters DEF Kept
<1>2. CASE Round # {} /\ completed' = completed
  <2>1. Contract!Rework
    BY <1>2 DEF Contract!Rework, Round, Outcome
  <2> QED
    BY <2>1 DEF ContractStep, Contract!Next
<1>3. CASE Round # {} /\ completed' = completed \cup Round
  <2>1. Contract!Accept
    BY <1>3 DEF Contract!Accept, Round, Outcome
  <2> QED
    BY <2>1 DEF ContractStep, Contract!Next
<1> QED
  BY <1>1, <1>2, <1>3

(* A gate is approved, perhaps once more. *)
LEMMA ApprovesContract ==
  ASSUME UNCHANGED <<plan, completed>>, Outcome = "open", Outcome' = "open",
         Round = {}, Round' = {},
         NEW s \in completed \cap plan.gates, approved' = approved \cup {s}
  PROVE  ContractStep
<1>1. CASE s \in approved
  BY <1>1, Stutters DEF Kept
<1>2. CASE s \notin approved
  <2>1. Contract!Approve(s) /\ s \in Contract!Gates
    BY <1>2 DEF Contract!Approve, Contract!Gates, Round, Outcome
  <2> QED
    BY <2>1 DEF ContractStep, Contract!Next
<1> QED
  BY <1>1, <1>2

(* The run is done, and may fail after that. *)
LEMMA DeliversContract ==
  ASSUME Kept, Round = {}, Round' = {},
         \/ Outcome = "open" /\ Outcome' = "done" /\ completed = PlanSteps /\ plan.gates \subseteq approved
         \/ Outcome = "done" /\ Outcome' = "failed"
  PROVE  ContractStep
<1>1. CASE Outcome = "open"
  <2>1. Contract!Deliver
    BY <1>1 DEF Contract!Deliver, Contract!Steps, Contract!Gates, PlanSteps, Numbers, Kept, Round,
                Outcome
  <2> QED
    BY <2>1 DEF ContractStep, Contract!Next
<1>2. CASE Outcome = "done"
  <2>1. Contract!Withdraw
    BY <1>2 DEF Contract!Withdraw, Kept, Round, Outcome
  <2> QED
    BY <2>1 DEF ContractStep, Contract!Next
<1> QED
  BY <1>1, <1>2

(* The lanes are inside a round: nothing that they do is seen.              *)
LEMMA LaneStepContract ==
  ASSUME StructInv, GateInv, DeliveryInv, Unbroken, crashes = 0, NEW l \in DOMAIN lanes, LaneStep(l)
  PROVE  ContractStep
<1>1. LaneEffect(l)
  BY LaneStepEffect
<1>2. /\ UNCHANGED <<plan, ctl, completed>> /\ DOMAIN lanes' = DOMAIN lanes
      /\ approved' \subseteq approved /\ (approved \ approved') \cap PlanSteps \subseteq {l}
  BY <1>1 DEF LaneEffect, LaneChange, SetLane
<1>3. status' = status \/ status' = "failed"
  BY LaneStepStatus
<1>4. approved \subseteq PlanSteps /\ l \notin approved
  BY DEF StructInv, TypeOK, Unbroken, GateInv
<1>5. approved' = approved
  BY <1>2, <1>4
<1>6. /\ ctl \in Going \cup {"unwind", "ended"}
      /\ ctl = "ended" => status = "failed"
  <2>1. lanes # NoLanes /\ ctl \in Control
    BY NoLanesType DEF StructInv, TypeOK
  <2> QED
    BY <2>1 DEF DeliveryInv, Unbroken, Control, Going
<1> QED
  BY <1>2, <1>3, <1>5, <1>6, Stutters DEF Kept, Round, Outcome, Going

(* executePlan keeps the contract. *)
LEMMA EngineContract ==
  ASSUME StructInv, GateInv, Unbroken, crashes = 0, Engine
  PROVE  ContractStep
<1> USE DEF Going
<1>1. CASE LaunchParallel \/ LaunchSequential
  <2>1. PICK G \in SUBSET Ready, d \in BOOLEAN : Launch(G, d) /\ G # {} /\ ctl = "loop"
    <3>1. CASE LaunchParallel
      BY <3>1 DEF LaunchParallel, IsParallelGroup, Several
    <3>2. CASE LaunchSequential
      BY <3>2 DEF LaunchSequential
    <3> QED
      BY <1>1, <3>1, <3>2
  <2>2. ctl' = "lanes" /\ DOMAIN lanes' = G /\ UNCHANGED <<plan, completed, approved>>
    BY <2>1 DEF Launch
  <2>3. \A s \in G : /\ s \in PlanSteps \ completed /\ plan.deps[s] \subseteq completed
    BY <2>1 DEF Ready
  <2>4. completed \cap plan.gates \subseteq approved
    BY <2>1 DEF GateInv, Unbroken
  <2>5. Outcome = "open" /\ Outcome' = "open" /\ Round = {} /\ Round' = G
    BY <2>1, <2>2 DEF Outcome, Round
  <2> QED
    BY <2>1, <2>2, <2>3, <2>4, <2>5, BeginsContract DEF Kept
<1>2. CASE PlanDeadlock \/ GroupFails \/ LaneThrew \/ ConfirmationRefused \/ ReviewRejected \/ EngineThrows
  <2>1. /\ Kept /\ ctl \in Going
        /\ ctl' = "unwind" \/ (ctl' = "finally" /\ status' = "failed")
    BY <1>2 DEF PlanDeadlock, GroupFails, LaneThrew, ConfirmationRefused, ReviewRejected,
                EngineThrows, FailRun, Kept
  <2>2. Outcome = "open" /\ Outcome' = "failed" /\ Round' = {}
    BY <2>1 DEF Outcome, Round
  <2> QED
    BY <2>1, <2>2, FailsContract
<1>3. CASE GroupReplans \/ ReworkDone \/ GroupCompletes
  <2>1. /\ UNCHANGED <<plan, approved>> /\ ctl \in {"lanes", "rework"}
        /\ \/ ctl' \in {"rework", "loop"} /\ completed' = completed
           \/ ctl' = "unwind" /\ completed' = completed
           \/ ctl = "lanes" /\ ctl' = "budget" /\ completed' = completed \cup DOMAIN lanes
    BY <1>3 DEF GroupReplans, ReworkDone, GroupCompletes
  <2>2. Outcome = "open" /\ Round' = {} /\ (ctl = "lanes" => Round = DOMAIN lanes)
    BY <2>1 DEF Outcome, Round
  <2>3. CASE ctl' = "unwind"
    <3>1. Outcome' = "failed"
      BY <2>3 DEF Outcome
    <3> QED
      BY <2>1, <2>2, <2>3, <3>1, FailsContract DEF Kept
  <2>4. CASE ctl' # "unwind"
    <3>1. Outcome' = "open"
      BY <2>1, <2>4 DEF Outcome
    <3> QED
      BY <2>1, <2>2, <2>4, <3>1, EndsContract
  <2> QED
    BY <2>3, <2>4
<1>4. CASE SkipConfirmation \/ AskConfirmation \/ ConfirmationGiven \/ SkipGate \/ RequestReview \/ GatesDone
  <2>1. Kept /\ {ctl, ctl'} \subseteq Going \ {"lanes"}
    BY <1>4 DEF SkipConfirmation, AskConfirmation, ConfirmationGiven, SkipGate, RequestReview,
                GatesDone, Kept
  <2>2. Outcome = "open" /\ Outcome' = "open" /\ Round = {} /\ Round' = {}
    BY <2>1 DEF Outcome, Round
  <2> QED
    BY <2>1, <2>2, Stutters
<1>5. CASE ReviewApproved
  <2>1. /\ ctl = "gate_review" /\ ctl' = "gates" /\ approved' = approved \cup {review}
        /\ UNCHANGED <<plan, completed>>
    BY <1>5 DEF ReviewApproved
  <2>2. review \in completed \cap plan.gates
    BY <2>1 DEF StructInv, ReviewOpen, GateInv, Unbroken
  <2>3. Outcome = "open" /\ Outcome' = "open" /\ Round = {} /\ Round' = {}
    BY <2>1 DEF Outcome, Round
  <2> QED
    BY <2>1, <2>2, <2>3, ApprovesContract
<1>6. CASE PlanCompleted
  <2>1. /\ ctl = "loop" /\ ctl' = "finally" /\ status' = "completed" /\ completed = PlanSteps
        /\ Kept
    BY <1>6 DEF PlanCompleted, Kept
  <2>2. plan.gates \subseteq approved
    <3>1. plan.gates \subseteq PlanSteps
      BY PlansAssumption DEF PlanType, PlanSteps, StructInv, TypeOK
    <3> QED
      BY <2>1, <3>1 DEF GateInv, Unbroken
  <2>3. Outcome = "open" /\ Outcome' = "done" /\ Round = {} /\ Round' = {}
    BY <2>1 DEF Outcome, Round
  <2> QED
    BY <2>1, <2>2, <2>3, DeliversContract
<1>7. CASE Teardown \/ Finalize
  <2>1. /\ Kept /\ ctl \in {"finally", "unwind", "finalize"} /\ ctl' \in {"finalize", "ended"}
        /\ status' = status \/ status' = "failed"
        /\ ctl = "unwind" => status' = "failed"
    BY <1>7 DEF Teardown, Finalize, Kept
  <2>2. /\ Round = {} /\ Round' = {}
        /\ Outcome' = Outcome \/ (Outcome = "done" /\ Outcome' = "failed")
    BY <2>1 DEF Outcome, Round
  <2> QED
    BY <2>1, <2>2, Stutters, DeliversContract
<1> QED
  BY <1>1, <1>2, <1>3, <1>4, <1>5, <1>6, <1>7 DEF Engine

(* A run that is not killed keeps the contract of PlanContract, for every   *)
(* plan and rework plan, every limit and however its lanes fail or race     *)
(* with each other: its steps are accepted in rounds, none before what it   *)
(* depends on is accepted and approved, and it is done when all are.        *)
THEOREM ContractKept == Spec /\ [](crashes = 0) => KeepsContract
<1>1. StructInv /\ GateInv /\ DeliveryInv /\ Unbroken /\ crashes = 0 /\ [Next]_vars /\ (crashes = 0)'
        => [Contract!Next]_(Contract!vars)
  <2> SUFFICES ASSUME StructInv, GateInv, DeliveryInv, Unbroken, crashes = 0, [Next]_vars, (crashes = 0)'
               PROVE  ContractStep
    BY DEF ContractStep
  <2>1. CASE Lanes
    BY <2>1, LaneStepContract DEF Lanes
  <2>2. CASE Environment
    <3>1. FlushRunState
      <4>1. ctl # "down" /\ crashes \in Nat
        BY BoundsAssumption DEF Unbroken, StructInv, TypeOK
      <4> QED
        BY <2>2, <4>1 DEF Environment, ProcessDies, CancelSession, ResumeTask
    <3> QED
      BY <3>1, Stutters DEF FlushRunState, Kept, Round, Outcome
  <2>3. CASE UNCHANGED vars
    BY <2>3, Stutters DEF vars, Kept, Round, Outcome
  <2> QED
    BY <2>1, <2>2, <2>3, EngineContract DEF Next, Quiet
<1> QED
  BY <1>1, InitStruct, NextStruct, SpecSettled, SpecDelivery, SpecUnbroken, InitContract, PTL
  DEF Spec, KeepsContract, Contract!Spec

-----------------------------------------------------------------------------
(* What the engine accounts for.                                              *)

USE DEF runVars, planVars, gateVars, storeVars, boundVars, histVars

-----------------------------------------------------------------------------
(* Extreme members of sets of naturals *)

(* A set of naturals that is not empty has a smallest member. *)
LEMMA Smallest ==
  ASSUME NEW T \in SUBSET Nat, T # {}
  PROVE  \E n \in T : \A m \in T : n <= m
<1> DEFINE U == {1..n : n \in T}
<1>1. ASSUME NEW n \in Nat PROVE 1..n \in SUBSET Nat /\ IsFiniteSet(1..n)
  BY FS_Interval
<1>2. U \subseteq FiniteSubsetsOf(Nat) /\ U # {}
  BY <1>1 DEF FiniteSubsetsOf
<1>3. PICK x \in U : \A y \in U : ~(<<y, x>> \in StrictSubsetOrdering(Nat))
  <2> HIDE DEF U
  <2> QED
    BY <1>2, FS_StrictSubsetOrderingWellFounded, WFMin, Zenon
<1>4. PICK n \in T : x = 1..n
  BY <1>3
<1>5. ASSUME NEW m \in T, m < n PROVE FALSE
  <2>1. 1..m \in U
    OBVIOUS
  <2>2. 1..m \subseteq 1..n /\ 1..m # 1..n
    <3>1. n \in 1..n /\ n \notin 1..m
      BY <1>5
    <3> QED
      BY <1>5, <3>1
  <2>3. 1..m \in SUBSET Nat /\ 1..n \in SUBSET Nat
    OBVIOUS
  <2>4. <<1..m, 1..n>> \in StrictSubsetOrdering(Nat)
    BY <2>2, <2>3 DEF StrictSubsetOrdering
  <2> QED
    BY <1>3, <1>4, <2>1, <2>4
<1> QED
  BY <1>5

-----------------------------------------------------------------------------
(* The budget *)

(* SpendWithinOneRound needs to know who can still spend: the agents at     *)
(* work are those of one group, and each of them was started below the      *)
(* limit and uses MostUsed at most.                                         *)
Working == {l \in DOMAIN lanes : Running(l) /\ Top(l).at = "agent"}
Room(n) == n * MostUsed
SpendInv ==
  /\ Cardinality(DOMAIN lanes) <= Width
  /\ (cost = 0 /\ Working = {}) \/ cost + Room(Cardinality(Working)) < CostLimit + Room(Width)
  /\ disk.cost = 0 \/ disk.cost < CostLimit + Room(Width)

(* What n agents may use: nothing when there are none, and no less when     *)
(* there are more.                                                          *)
LEMMA RoomType ==
  ASSUME NEW n \in Nat, NEW m \in Nat
  PROVE  /\ Room(n) \in Nat /\ Room(0) = 0
         /\ m <= n => Room(m) <= Room(n)
         /\ n # 0 => Room(n) = Room(n - 1) + MostUsed
<1>1. MostUsed \in Nat
  BY UsesAssumption
<1>2. Room(n) \in Nat /\ Room(0) = 0
  BY <1>1 DEF Room
<1>3. m <= n => Room(m) <= Room(n)
  BY <1>1 DEF Room
<1>4. n # 0 => Room(n) = Room(n - 1) + MostUsed
  BY <1>1 DEF Room
<1> QED
  BY <1>2, <1>3, <1>4

(* The largest of finitely many naturals *)
LEMMA Largest ==
  ASSUME NEW T \in SUBSET Nat, T # {}, NEW b \in Nat, \A x \in T : x <= b
  PROVE  \E n \in T : \A m \in T : m <= n
<1> DEFINE U == {u \in Nat : \A x \in T : x <= u}
<1>1. PICK n \in U : \A m \in U : n <= m
  <2>1. U \in SUBSET Nat /\ b \in U
    OBVIOUS
  <2> HIDE DEF U
  <2> QED
    BY <2>1, Smallest
<1>2. ASSUME n \notin T PROVE FALSE
  <2>1. PICK x \in T : TRUE
    OBVIOUS
  <2>2. n # 0
    BY <1>2, <2>1
  <2>3. n - 1 \in U
    BY <1>2, <2>2
  <2> QED
    BY <1>1, <2>3
<1> QED
  BY <1>1, <1>2

(* A plan has finitely many steps. *)
LEMMA PlanFinite ==
  ASSUME plan \in Plans
  PROVE  IsFiniteSet(PlanSteps)
<1>1. plan.order \in Seq(Nat \ {0})
  BY PlansAssumption DEF PlanType
<1>2. DOMAIN plan.order = 1..Len(plan.order) /\ Len(plan.order) \in Nat
  BY <1>1, LenProperties
<1>3. IsFiniteSet(DOMAIN plan.order)
  BY <1>2, FS_Interval
<1>4. plan.order \in Surjection(DOMAIN plan.order, PlanSteps)
  BY <1>1, <1>2 DEF Surjection, PlanSteps, Numbers
<1> QED
  BY <1>3, <1>4, FS_Surjection

(* Width is the size of the largest parallel group, and at least one. *)
LEMMA WidthType ==
  ASSUME plan \in Plans
  PROVE  /\ Width \in Nat \ {0}
         /\ \A i \in DOMAIN plan.groups : Cardinality(plan.groups[i]) <= Width
<1> DEFINE W == {Cardinality(plan.groups[i]) : i \in DOMAIN plan.groups} \cup {1}
<1>1. \A i \in DOMAIN plan.groups : plan.groups[i] \in SUBSET PlanSteps
  <2>1. plan.groups \in Seq(SUBSET PlanSteps)
    BY PlansAssumption DEF PlanType, PlanSteps
  <2> QED
    BY <2>1, LenProperties
<1>2. Cardinality(PlanSteps) \in Nat
  BY PlanFinite, FS_CardinalityType
<1>3. \A i \in DOMAIN plan.groups : /\ Cardinality(plan.groups[i]) \in Nat
                                   /\ Cardinality(plan.groups[i]) <= Cardinality(PlanSteps)
  BY <1>1, PlanFinite, FS_Subset, FS_CardinalityType
<1>4. W \in SUBSET Nat /\ 1 \in W /\ \A w \in W : w <= Cardinality(PlanSteps) + 1
  BY <1>2, <1>3
<1>5. Width = CHOOSE w \in W : \A v \in W : v <= w
  BY DEF Width
<1> HIDE DEF W
<1>6. \E w \in W : \A v \in W : v <= w
  <2>1. Cardinality(PlanSteps) + 1 \in Nat
    BY <1>2
  <2> QED
    BY <1>4, <2>1, Largest
<1>7. Width \in W /\ \A v \in W : v <= Width
  BY <1>5, <1>6
<1>8. \A i \in DOMAIN plan.groups : Cardinality(plan.groups[i]) \in W
  BY DEF W
<1>9. Width \in Nat /\ 1 <= Width
  BY <1>4, <1>7
<1>10. \A i \in DOMAIN plan.groups : Cardinality(plan.groups[i]) <= Width
  BY <1>7, <1>8
<1> QED
  BY <1>9, <1>10

(* The lanes are lanes of finitely many steps. *)
LEMMA LanesFinite ==
  ASSUME StructInv
  PROVE  /\ IsFiniteSet(DOMAIN lanes) /\ Cardinality(DOMAIN lanes) \in Nat
         /\ IsFiniteSet(Working) /\ Cardinality(Working) \in Nat
         /\ Cardinality(Working) <= Cardinality(DOMAIN lanes)
         /\ Width \in Nat \ {0} /\ cost \in Nat /\ disk.cost \in Nat /\ CostLimit \in Nat
<1>1. plan \in Plans /\ DOMAIN lanes \subseteq PlanSteps /\ Working \subseteq DOMAIN lanes
  BY DEF StructInv, TypeOK, Working
<1>2. IsFiniteSet(DOMAIN lanes) /\ IsFiniteSet(Working)
  BY <1>1, PlanFinite, FS_Subset
<1>3. cost \in Nat /\ disk.cost \in Nat
  BY DEF StructInv, TypeOK
<1> QED
  BY <1>1, <1>2, <1>3, WidthType, FS_Subset, FS_CardinalityType, BoundsAssumption

(* What a lane does for the budget: it starts an agent below the limit,     *)
(* an agent of its spends, or it does neither.                              *)
SpendEffect(l) ==
  /\ \/ StartAgent(l) /\ cost < CostLimit /\ cost' = cost /\ Working' \subseteq Working \cup {l}
     \/ l \in Working /\ cost' <= cost + MostUsed /\ Working' \subseteq Working \ {l}
     \/ cost' = cost /\ Working' \subseteq Working \ {l}
  /\ disk' = disk \/ disk'.cost = cost

(* Going on with the calls of a lane puts a new call on top: a step of the  *)
(* rework plan, or the step itself again; or the calls are over.            *)
Proceeded(l, p, f, d) ==
  \/ p = <<>> /\ f.exec = 0
  \/ \E g \in FrameOf(l) :
       /\ g.at = "start" /\ g.exec = 0 /\ ~g.defer
       /\ \/ f.exec # 0 /\ g.num = f.num /\ g.of = f.of /\ p = <<g>> \o d
          \/ \E h \in FrameOf(l) :
               /\ h.num = f.num /\ h.of = f.of /\ h.exec = f.exec
               /\ h.at = f.at /\ h.defer = f.defer
               /\ g.of = 0 /\ p = <<g>> \o (<<h>> \o d)
(* Proceed does that. *)
LEMMA ProceedShape ==
  ASSUME NEW l, NEW c \in Seq(FrameOf(l)), c # <<>>,
         NEW f, NEW d, f = Head(c), d = Tail(c)
  PROVE  Proceeded(l, Proceed(c), f, d)
<1> USE DEF Proceeded
<1>1. f \in FrameOf(l) /\ d \in Seq(FrameOf(l))
  BY HeadTailProperties
<1>2. /\ f.of \in {l, 0} /\ f.num \in Nat /\ (f.of # 0 => f.num = l)
      /\ f.todo \in Seq(Nat)
  BY <1>1 DEF FrameOf
<1>4. CASE f.todo # <<>>
  <2>1. Head(f.todo) \in Nat /\ Tail(f.todo) \in Seq(Nat)
    BY <1>2, <1>4, HeadTailProperties
  <2>2. PICK g \in FrameOf(l) : g = StartFrame(Head(f.todo), 0, FALSE)
    BY <2>1, StartFrameType
  <2>3. PICK h \in FrameOf(l) : h = [f EXCEPT !.todo = Tail(f.todo)]
    BY <1>1, <2>1 DEF FrameOf
  <2>4. <<g>> \in Seq(FrameOf(l)) /\ <<h>> \in Seq(FrameOf(l)) /\ <<g, h>> = <<g>> \o <<h>>
    OBVIOUS
  <2>5. (<<g>> \o <<h>>) \o d = <<g>> \o (<<h>> \o d)
    BY <1>1, <2>4, ConcatAssociative
  <2>6. Proceed(c) = <<g>> \o (<<h>> \o d)
    <3>1. Proceed(c) = <<g, h>> \o d
      BY <1>4, <2>2, <2>3 DEF Proceed
    <3> QED
      BY <2>4, <2>5, <3>1, Zenon
  <2>7. g.at = "start" /\ g.exec = 0 /\ ~g.defer /\ g.of = 0
    BY <2>1, <2>2 DEF StartFrame
  <2>8. /\ h.num = f.num /\ h.of = f.of /\ h.exec = f.exec
        /\ h.at = f.at /\ h.defer = f.defer
    BY <1>1, <2>3 DEF FrameOf
  <2> QED
    BY <2>6, <2>7, <2>8
<1>5. CASE f.todo = <<>> /\ f.exec # 0
  <2>1. PICK g \in FrameOf(l) : g = StartFrame(f.num, f.of, FALSE)
    BY <1>2, StartFrameType
  <2>2. Proceed(c) = <<g>> \o d
    BY <1>5, <2>1 DEF Proceed
  <2>3. g.at = "start" /\ g.exec = 0 /\ ~g.defer /\ g.num = f.num /\ g.of = f.of
    BY <2>1 DEF StartFrame
  <2> QED
    BY <1>5, <2>2, <2>3
<1>6. CASE f.todo = <<>> /\ f.exec = 0
  BY <1>6 DEF Proceed
<1> QED
  BY <1>4, <1>5, <1>6

(* Going on with the calls of a lane starts no agent by itself. *)
LEMMA ProceedRests ==
  ASSUME NEW l, NEW c \in Seq(FrameOf(l)), c # <<>>, Proceed(c) # <<>>
  PROVE  Head(Proceed(c)).at = "start"
<1>1. PICK f \in FrameOf(l), d \in Seq(FrameOf(l)) : f = Head(c) /\ d = Tail(c)
  BY HeadTailProperties
<1>2. \E g \in FrameOf(l), e \in Seq(FrameOf(l)) : g.at = "start" /\ Proceed(c) = <<g>> \o e
  <2>1. PICK g \in FrameOf(l) :
          /\ g.at = "start"
          /\ \/ Proceed(c) = <<g>> \o d
             \/ \E h \in FrameOf(l) : Proceed(c) = <<g>> \o (<<h>> \o d)
    <3>1. Proceeded(l, Proceed(c), f, d)
      BY <1>1, ProceedShape
    <3> QED
      BY <3>1 DEF Proceeded
  <2>2. ASSUME NEW h \in FrameOf(l) PROVE <<h>> \o d \in Seq(FrameOf(l))
    BY <1>1, PutOnTop
  <2> QED
    BY <1>1, <2>1, <2>2
<1>3. ASSUME NEW g \in FrameOf(l), NEW e \in Seq(FrameOf(l))
      PROVE  Head(<<g>> \o e) = g
  BY PutOnTop
<1> QED
  BY <1>2, <1>3

(* A lane that is set to anything but an agent at work is one agent less. *)
LEMMA Rests ==
  ASSUME StructInv, NEW l \in DOMAIN lanes, NEW fr, NEW r, SetLane(l, fr, r)
  PROVE  /\ Working' \subseteq Working \cup {l}
         /\ r # "running" \/ Head(fr).at # "agent" => Working' \subseteq Working \ {l}
<1>1. /\ DOMAIN lanes' = DOMAIN lanes /\ \A m \in DOMAIN lanes \ {l} : lanes'[m] = lanes[m]
      /\ lanes'[l].frames = fr /\ lanes'[l].result = r
  BY DEF SetLane
<1> QED
  BY <1>1 DEF Working, Running, Top

(* A call that completes leaves its lane at rest. *)
LEMMA CompletesRests ==
  ASSUME StructInv, NEW l \in DOMAIN lanes, Running(l), StepCompletes(l)
  PROVE  Working' \subseteq Working \ {l}
<1>1. Callers(l) \in Seq(FrameOf(l))
  BY TopType
<1>2. CASE Callers(l) # <<>>
  <2>1. PICK p : p = Proceed(Callers(l))
    OBVIOUS
  <2>2. SetLane(l, p, IF p = <<>> THEN "completed" ELSE "running")
    BY <1>2, <2>1 DEF StepCompletes
  <2>3. p # <<>> => Head(p).at = "start"
    BY <1>1, <1>2, <2>1, ProceedRests
  <2>4. (IF p = <<>> THEN "completed" ELSE "running") # "running" \/ Head(p).at # "agent"
    BY <2>3
  <2> QED
    BY <2>2, <2>4, Rests
<1>3. CASE Callers(l) = <<>>
  <2>1. \E r \in {"completed", "thrown"} : SetLane(l, <<>>, r)
    BY <1>3 DEF StepCompletes
  <2> QED
    BY <2>1, Rests
<1> QED
  BY <1>2, <1>3

(* A call that fails too. *)
LEMMA FailsRests ==
  ASSUME StructInv, NEW l \in DOMAIN lanes, LaneFails(l)
  PROVE  Working' \subseteq Working \ {l}
<1>1. \E r \in {"failed", "thrown"} : SetLane(l, <<>>, r)
  BY DEF LaneFails
<1> QED
  BY <1>1, Rests

(* A new innermost call that has not started its agent is at rest. *)
LEMMA TopRests ==
  ASSUME StructInv, NEW l \in DOMAIN lanes, NEW g \in FrameOf(l), NEW c \in Seq(FrameOf(l)),
         SetLane(l, <<g>> \o c, "running"), g.at # "agent"
  PROVE  Working' \subseteq Working \ {l}
<1>1. Head(<<g>> \o c) = g
  BY PutOnTop
<1> QED
  BY <1>1, Rests

(* Every step of executeStepBody does no more than that to the budget. *)
LEMMA LaneStepSpends ==
  ASSUME StructInv, NEW l \in DOMAIN lanes, LaneStep(l)
  PROVE  SpendEffect(l)
<1> USE DEF RunRecord
<1>0. Running(l)
  BY DEF LaneStep, StartAgent, LimitReached, StartThrows, SubWorktreeFails, AgentCompletes,
         CommitFails, AgentFails, AgentSignalsRework, AgentNeedsRework, QualityGatePasses,
         QualityGateFails
<1>1. PICK f \in FrameOf(l), c \in Seq(FrameOf(l)) : f = Top(l) /\ c = Callers(l)
  BY <1>0, TopType
<1>2. f.at = "agent" => l \in Working
  BY <1>0, <1>1 DEF Working
<1>e. f.of \in {l, 0} /\ f.num \in Nat /\ (f.of # 0 => f.num = l)
  BY DEF FrameOf
<1>u. cost \in Nat /\ MostUsed \in Nat
  BY UsesAssumption DEF StructInv, TypeOK
<1>3. CASE StartAgent(l)
  <2>1. cost < CostLimit /\ cost' = cost /\ (disk' = disk \/ disk'.cost = cost)
    BY <1>3 DEF StartAgent
  <2>2. \E fr : SetLane(l, fr, "running")
    BY <1>3 DEF StartAgent
  <2>3. Working' \subseteq Working \cup {l}
    BY <2>2, Rests
  <2> QED
    BY <1>3, <2>1, <2>3 DEF SpendEffect
<1>4. CASE LimitReached(l)
  <2>1. cost' = cost /\ disk'.cost = cost /\ LaneFails(l)
    BY <1>4 DEF LimitReached
  <2> QED
    BY <2>1, FailsRests DEF SpendEffect
<1>5. CASE StartThrows(l) \/ SubWorktreeFails(l)
  <2>1. cost' = cost /\ (disk' = disk \/ disk'.cost = cost)
    BY <1>5 DEF StartThrows, SubWorktreeFails
  <2>2. \E r \in {"failed", "thrown"} : SetLane(l, <<>>, r)
    BY <1>5 DEF StartThrows, SubWorktreeFails
  <2>3. Working' \subseteq Working \ {l}
    BY <2>2, Rests
  <2> QED
    BY <2>1, <2>3 DEF SpendEffect
<1>6. CASE AgentCompletes(l)
  <2>1. cost' <= cost + MostUsed /\ disk' = disk /\ l \in Working
    BY <1>1, <1>2, <1>u, <1>6, AddsUseType DEF AgentCompletes
  <2>2. CASE StepCompletes(l)
    BY <1>0, <2>1, <2>2, CompletesRests DEF SpendEffect
  <2>3. CASE SetLane(l, <<[f EXCEPT !.at = "quality"]>> \o c, "running")
    <3>1. PICK g \in FrameOf(l) : g = [f EXCEPT !.at = "quality"]
      BY <1>1, <1>6 DEF FrameOf, AgentCompletes
    <3>2. g.at = "quality"
      BY <3>1 DEF FrameOf
    <3>3. Working' \subseteq Working \ {l}
      BY <2>3, <3>1, <3>2, TopRests
    <3> QED
      BY <2>1, <3>3 DEF SpendEffect
  <2> QED
    BY <1>1, <1>6, <2>2, <2>3 DEF AgentCompletes
<1>7. CASE CommitFails(l) \/ AgentFails(l)
  <2>1. cost' <= cost + MostUsed /\ disk' = disk /\ l \in Working /\ LaneFails(l)
    <3>1. AddsUse \/ cost' = cost
      BY <1>7 DEF CommitFails, AgentFails
    <3>2. cost' <= cost + MostUsed
      BY <1>u, <3>1, AddsUseType
    <3> QED
      BY <1>1, <1>2, <1>7, <3>2 DEF CommitFails, AgentFails
  <2> QED
    BY <2>1, FailsRests DEF SpendEffect
<1>8. CASE AgentSignalsRework(l)
  <2>1. /\ cost' <= cost + MostUsed /\ disk' = disk /\ l \in Working
        /\ SetLane(l, <<>>, "rework")
    BY <1>1, <1>2, <1>u, <1>8, AddsUseType DEF AgentSignalsRework
  <2>2. Working' \subseteq Working \ {l}
    BY <2>1, Rests
  <2> QED
    BY <2>1, <2>2 DEF SpendEffect
<1>9. CASE AgentNeedsRework(l)
  <2>1. cost' <= cost + MostUsed /\ disk' = disk /\ l \in Working
    BY <1>1, <1>2, <1>u, <1>9, AddsUseType DEF AgentNeedsRework
  <2>2. CASE LaneFails(l)
    BY <2>1, <2>2, FailsRests DEF SpendEffect
  <2>3. CASE \E p \in ReworkPlans(f.num) :
               SetLane(l, Proceed(<<[f EXCEPT !.at = "replan", !.todo = p]>> \o c), "running")
    <3>1. PICK p \in ReworkPlans(f.num) :
            SetLane(l, Proceed(<<[f EXCEPT !.at = "replan", !.todo = p]>> \o c), "running")
      BY <2>3
    <3>2. p \in Seq(Nat)
      BY <1>0, <1>1, TopType, ReworkPlansType
    <3>3. PICK g \in FrameOf(l) : g = [f EXCEPT !.at = "replan", !.todo = p]
      BY <3>2 DEF FrameOf
    <3>4. g.exec # 0
      BY <1>1, <1>9, <3>3 DEF FrameOf, AgentNeedsRework
    <3>5. PICK q \in Seq(FrameOf(l)) : q = <<g>> \o c /\ q # <<>> /\ Head(q) = g
      BY PutOnTop
    <3>6. PICK t : t = Proceed(q)
      OBVIOUS
    <3>7. t # <<>>
      BY <3>4, <3>5, <3>6, ProceedType
    <3>8. Head(t).at = "start"
      BY <3>5, <3>6, <3>7, ProceedRests
    <3>9. SetLane(l, t, "running")
      BY <3>1, <3>3, <3>5, <3>6
    <3>10. Working' \subseteq Working \ {l}
      BY <3>8, <3>9, Rests
    <3> QED
      BY <2>1, <3>10 DEF SpendEffect
  <2> QED
    BY <1>1, <1>9, <2>2, <2>3 DEF AgentNeedsRework
<1>10. CASE QualityGatePasses(l)
  <2>1. cost' = cost /\ disk' = disk /\ StepCompletes(l)
    BY <1>10 DEF QualityGatePasses
  <2> QED
    BY <1>0, <2>1, CompletesRests DEF SpendEffect
<1>11. CASE QualityGateFails(l)
  <2>1. cost' = cost /\ disk' = disk
    BY <1>11 DEF QualityGateFails
  <2>2. CASE LaneFails(l)
    BY <2>1, <2>2, FailsRests DEF SpendEffect
  <2>3. CASE SetLane(l, <<StartFrame(f.num, f.of, FALSE)>> \o c, "running")
    <3>1. PICK g \in FrameOf(l) : g = StartFrame(f.num, f.of, FALSE)
      BY <1>e, StartFrameType
    <3>2. g.at = "start"
      BY <3>1 DEF StartFrame
    <3>3. Working' \subseteq Working \ {l}
      BY <2>3, <3>1, <3>2, TopRests
    <3> QED
      BY <2>1, <3>3 DEF SpendEffect
  <2> QED
    BY <1>1, <1>11, <2>2, <2>3 DEF QualityGateFails
<1> QED
  BY <1>3, <1>4, <1>5, <1>6, <1>7, <1>8, <1>9, <1>10, <1>11 DEF LaneStep

(* A new run satisfies it. *)
LEMMA InitSpend == Init => SpendInv
<1> SUFFICES ASSUME Init PROVE SpendInv
  OBVIOUS
<1>1. StructInv /\ DOMAIN lanes = {} /\ cost = 0 /\ disk.cost = 0
  BY InitStruct, NoLanesType DEF Init, RunRecord
<1>2. Working = {} /\ Cardinality({}) = 0
  BY <1>1, FS_EmptySet DEF Working
<1> QED
  BY <1>1, <1>2, LanesFinite DEF SpendInv

(* The lanes keep it: at most Width agents are at work when one starts. *)
LEMMA LaneStepSpend ==
  ASSUME StructInv, StructInv', SpendInv, NEW l \in DOMAIN lanes, LaneStep(l)
  PROVE  SpendInv'
<1>1. DOMAIN lanes' = DOMAIN lanes /\ plan' = plan
  BY LaneStepEffect DEF LaneEffect, LaneChange, SetLane
<1>2. SpendEffect(l)
  BY LaneStepSpends
<1>3. Width' = Width
  BY <1>1 DEF Width
<1>4. /\ Cardinality(Working') \in Nat /\ Cardinality(Working') <= Cardinality(DOMAIN lanes')
      /\ cost' \in Nat /\ disk'.cost \in Nat
  <2>1. Working' \subseteq DOMAIN lanes' /\ IsFiniteSet(DOMAIN lanes')
    BY <1>1, LanesFinite DEF Working
  <2>2. cost' \in Nat /\ disk'.cost \in Nat
    BY DEF StructInv, TypeOK
  <2> QED
    BY <2>1, <2>2, FS_Subset, FS_CardinalityType
<1>5. /\ IsFiniteSet(Working) /\ Cardinality(Working) \in Nat /\ Width \in Nat /\ cost \in Nat
      /\ CostLimit \in Nat /\ Cardinality(DOMAIN lanes) \in Nat /\ disk.cost \in Nat
      /\ Cardinality(DOMAIN lanes) <= Width
  BY LanesFinite DEF SpendInv
<1> DEFINE k == Cardinality(Working)
           m == Cardinality(Working')
<1>6. k \in Nat /\ m \in Nat /\ m <= Width
  BY <1>1, <1>4, <1>5
<1>7. Working = {} => k = 0
  BY FS_EmptySet
<1> HIDE DEF k, m
<1>8. /\ Room(k) \in Nat /\ Room(m) \in Nat /\ Room(Width) \in Nat /\ Room(m) <= Room(Width)
      /\ MostUsed \in Nat /\ (m <= k => Room(m) <= Room(k))
      /\ k # 0 => Room(k - 1) \in Nat /\ Room(k) = Room(k - 1) + MostUsed
                 /\ (m <= k - 1 => Room(m) <= Room(k - 1))
  <2>1. Room(k) \in Nat /\ Room(m) \in Nat /\ Room(Width) \in Nat /\ MostUsed \in Nat
    BY <1>5, <1>6, RoomType, UsesAssumption
  <2>2. Room(m) <= Room(Width) /\ (m <= k => Room(m) <= Room(k))
    BY <1>5, <1>6, RoomType
  <2>3. ASSUME k # 0
        PROVE  /\ Room(k - 1) \in Nat /\ Room(k) = Room(k - 1) + MostUsed
               /\ m <= k - 1 => Room(m) <= Room(k - 1)
    <3>1. k - 1 \in Nat
      BY <1>6, <2>3
    <3>2. Room(k) = Room(k - 1) + MostUsed
      BY <1>6, <2>3, RoomType
    <3> QED
      BY <1>6, <3>1, <3>2, RoomType
  <2> QED
    BY <2>1, <2>2, <2>3
<1>9. (cost = 0 /\ Working = {}) \/ cost + Room(k) < CostLimit + Room(Width)
  BY DEF SpendInv, k
<1>10. disk'.cost = 0 \/ disk'.cost < CostLimit + Room(Width)
  <2>1. disk'.cost \in {cost, disk.cost}
    BY <1>2 DEF SpendEffect
  <2> QED
    BY <1>5, <1>8, <1>9, <2>1 DEF SpendInv
<1>11. (cost' = 0 /\ Working' = {}) \/ cost' + Room(m) < CostLimit + Room(Width)
  <2>1. CASE cost < CostLimit /\ cost' = cost
    BY <1>4, <1>5, <1>8, <2>1
  <2>2. CASE l \in Working /\ cost' <= cost + MostUsed /\ Working' \subseteq Working \ {l}
    <3>1. IsFiniteSet(Working \ {l}) /\ Cardinality(Working \ {l}) = k - 1
      BY <1>5, <2>2, FS_RemoveElement DEF k
    <3>2. m <= k - 1 /\ k # 0
      <4>1. m <= Cardinality(Working \ {l}) /\ Cardinality(Working \ {l}) \in Nat
        BY <2>2, <3>1, FS_Subset, FS_CardinalityType DEF m
      <4> QED
        BY <1>6, <3>1, <4>1
    <3>3. cost + Room(k) < CostLimit + Room(Width)
      BY <1>9, <2>2
    <3> QED
      BY <1>4, <1>5, <1>8, <2>2, <3>2, <3>3
  <2>3. CASE cost' = cost /\ Working' \subseteq Working \ {l}
    <3>1. m <= k
      BY <1>5, <2>3, FS_Subset DEF k, m
    <3>2. Working = {} => Working' = {}
      BY <2>3
    <3> QED
      BY <1>4, <1>5, <1>8, <1>9, <2>3, <3>1, <3>2
  <2> QED
    BY <1>2, <2>1, <2>2, <2>3 DEF SpendEffect
<1> QED
  BY <1>1, <1>3, <1>10, <1>11 DEF SpendInv, m

(* A step that spends nothing and leaves the lanes or gives them up *)
LEMMA KeepsSpend ==
  ASSUME StructInv, StructInv', SpendInv, UNCHANGED plan, cost' \in {cost, disk.cost},
         disk'.cost \in {cost, disk.cost}, lanes' = NoLanes \/ (lanes' = lanes /\ cost' = cost)
  PROVE  SpendInv'
<1>1. /\ Cardinality(Working) \in Nat /\ Width \in Nat \ {0} /\ Width' = Width /\ cost \in Nat
      /\ CostLimit \in Nat /\ disk.cost \in Nat
  BY LanesFinite DEF Width
<1>2. /\ Room(Cardinality(Working)) \in Nat /\ Room(Width) \in Nat /\ Room(0) = 0
  BY <1>1, RoomType
<1>3. /\ cost = 0 \/ cost < CostLimit + Room(Width)
      /\ disk.cost = 0 \/ disk.cost < CostLimit + Room(Width)
  BY <1>1, <1>2 DEF SpendInv
<1>4. /\ disk'.cost = 0 \/ disk'.cost < CostLimit + Room(Width)
      /\ cost' = 0 \/ cost' < CostLimit + Room(Width)
  BY <1>3
<1>5. CASE lanes' = NoLanes
  <2>1. DOMAIN lanes' = {} /\ Working' = {} /\ Cardinality({}) = 0
    BY <1>5, NoLanesType, FS_EmptySet DEF Working
  <2>2. cost' \in Nat
    BY <1>1
  <2> QED
    BY <1>1, <1>2, <1>4, <2>1, <2>2 DEF SpendInv
<1>6. CASE lanes' = lanes /\ cost' = cost
  <2>1. Working' = Working
    BY <1>6 DEF Working, Running, Top
  <2> QED
    BY <1>1, <1>4, <1>6, <2>1 DEF SpendInv
<1> QED
  BY <1>5, <1>6

(* No agent is at work in new calls, of a group or of its merged rework. *)
LEMMA NoneAtWork ==
  ASSUME StructInv, SpendInv, UNCHANGED <<plan, cost, disk>>, Working' = {},
         Cardinality(DOMAIN lanes') <= Width
  PROVE  SpendInv'
<1>1. /\ Cardinality(Working) \in Nat /\ Width \in Nat \ {0} /\ Width' = Width /\ cost \in Nat
      /\ CostLimit \in Nat /\ Cardinality({}) = 0
  BY LanesFinite, FS_EmptySet DEF Width
<1>2. /\ Room(Cardinality(Working)) \in Nat /\ Room(Width) \in Nat /\ Room(0) = 0
  BY <1>1, RoomType
<1>3. cost = 0 \/ cost + Room(0) < CostLimit + Room(Width)
  BY <1>1, <1>2 DEF SpendInv
<1> QED
  BY <1>1, <1>3 DEF SpendInv

(* The calls of a new group are as many as its members, and none is at work. *)
LEMMA LaunchSpend ==
  ASSUME StructInv, StructInv', SpendInv, NEW G, NEW d, Launch(G, d), Cardinality(G) <= Width
  PROVE  SpendInv'
<1>1. /\ DOMAIN lanes' = G /\ \A l \in G : lanes'[l].frames = <<StartFrame(l, l, d)>>
      /\ UNCHANGED <<plan, cost, disk>>
  BY DEF Launch
<1>2. Working' = {}
  <2>1. ASSUME NEW l \in G PROVE Head(lanes'[l].frames).at = "start"
    <3>1. PICK g : g = StartFrame(l, l, d)
      OBVIOUS
    <3>2. Head(<<g>>) = g /\ g.at = "start"
      BY <3>1 DEF StartFrame
    <3> QED
      BY <1>1, <3>1, <3>2
  <2> QED
    BY <1>1, <2>1 DEF Working, Top
<1> QED
  BY <1>1, <1>2, NoneAtWork

(* executePlan keeps it: a group is part of one of the plan's groups. *)
LEMMA EngineSpend ==
  ASSUME StructInv, StructInv', SpendInv, Engine
  PROVE  SpendInv'
<1>1. CASE LaunchParallel
  <2>1. PICK G \in SUBSET Ready : IsParallelGroup(G) /\ Launch(G, TRUE)
    BY <1>1 DEF LaunchParallel
  <2>2. PICK i \in DOMAIN plan.groups : G \subseteq plan.groups[i]
    BY <2>1 DEF IsParallelGroup
  <2>3. plan \in Plans
    BY DEF StructInv, TypeOK
  <2>4. IsFiniteSet(plan.groups[i])
    <3>1. plan.groups \in Seq(SUBSET PlanSteps)
      BY <2>3, PlansAssumption DEF PlanType, PlanSteps
    <3>2. plan.groups[i] \in SUBSET PlanSteps
      BY <3>1, LenProperties
    <3> QED
      BY <2>3, <3>2, PlanFinite, FS_Subset
  <2>5. /\ Cardinality(G) <= Cardinality(plan.groups[i]) /\ Cardinality(plan.groups[i]) <= Width
        /\ Cardinality(G) \in Nat /\ Cardinality(plan.groups[i]) \in Nat /\ Width \in Nat
    BY <2>2, <2>3, <2>4, FS_Subset, FS_CardinalityType, WidthType
  <2>6. Cardinality(G) <= Width
    BY <2>5
  <2> QED
    BY <2>1, <2>6, LaunchSpend
<1>2. CASE LaunchSequential
  <2>1. PICK s : Launch({s}, FALSE)
    BY <1>2 DEF LaunchSequential
  <2>2. Cardinality({s}) = 1 /\ Width \in Nat \ {0}
    BY FS_Singleton, LanesFinite
  <2>3. Cardinality({s}) <= Width
    BY <2>2
  <2> QED
    BY <2>1, <2>3, LaunchSpend
<1>3. CASE GroupReplans
  <2>1. UNCHANGED <<plan, cost, disk>>
    BY <1>3 DEF GroupReplans
  <2>2. CASE lanes' = NoLanes
    BY <2>1, <2>2, KeepsSpend
  <2>3. CASE lanes' # NoLanes
    <3>1. PICK n, fr, q :
            /\ n = signals[1].num /\ q \in ReworkPlans(n)
            /\ fr = Proceed(<<[StartFrame(n, n, FALSE) EXCEPT !.at = "replan", !.todo = q]>>)
            /\ lanes' = [l \in {n} |->
                 [frames |-> fr, result |-> IF fr = <<>> THEN "completed" ELSE "running"]]
      BY ZenonT(30), <1>3, <2>3 DEF GroupReplans
    <3>2. PICK f : f = [StartFrame(n, n, FALSE) EXCEPT !.at = "replan", !.todo = q]
      OBVIOUS
    <3>9. /\ DOMAIN lanes' = {n} /\ lanes'[n].frames = fr /\ fr = Proceed(<<f>>)
          /\ lanes'[n].result = IF fr = <<>> THEN "completed" ELSE "running"
      BY <3>1, <3>2
    <3>3. n \in PlanSteps /\ plan \in Plans
      BY <2>1, <3>9 DEF StructInv, TypeOK, PlanSteps
    <3>4. f \in FrameOf(n)
      <4>1. n \in Nat \ {0}
        BY <3>3, PlanNumbers DEF PlanSteps
      <4>2. q \in Seq(Nat)
        BY <3>1, <4>1, ReworkPlansType
      <4>3. StartFrame(n, n, FALSE) \in FrameOf(n)
        BY <4>1, StartFrameType
      <4> QED
        BY <3>2, <4>2, <4>3 DEF FrameOf
    <3>5. PICK c \in Seq(FrameOf(n)) : c = <<f>> /\ c # <<>>
      BY <3>4, ShortSequences, EmptySeq
    <3>6. Proceed(c) # <<>> => Head(Proceed(c)).at = "start"
      BY <3>5, ProceedRests
    <3>7. Working' = {}
      BY <3>5, <3>6, <3>9 DEF Working, Running, Top
    <3>8. Cardinality(DOMAIN lanes') <= Width
      <4>1. Cardinality({n}) = 1 /\ Width \in Nat \ {0}
        BY FS_Singleton, LanesFinite
      <4> QED
        BY <3>9, <4>1
    <3> QED
      BY <2>1, <3>7, <3>8, NoneAtWork
  <2> QED
    BY <2>2, <2>3
<1>4. ASSUME UNCHANGED <<plan, cost, disk>>, lanes' \in {lanes, NoLanes} PROVE SpendInv'
  BY <1>4, KeepsSpend
<1>5. CASE PlanDeadlock \/ GroupFails \/ ReworkDone \/ GroupCompletes \/ LaneThrew
  BY <1>4, <1>5 DEF PlanDeadlock, GroupFails, ReworkDone, GroupCompletes, LaneThrew, FailRun
<1>6. CASE SkipConfirmation \/ AskConfirmation \/ ConfirmationGiven \/ ConfirmationRefused
  BY <1>4, <1>6
  DEF SkipConfirmation, AskConfirmation, ConfirmationGiven, ConfirmationRefused, FailRun
<1>7. CASE SkipGate \/ RequestReview \/ ReviewApproved \/ ReviewRejected \/ GatesDone
  BY <1>4, <1>7 DEF SkipGate, RequestReview, ReviewApproved, ReviewRejected, GatesDone, FailRun
<1>8. CASE PlanCompleted \/ EngineThrows \/ Teardown \/ Finalize
  BY <1>4, <1>8 DEF PlanCompleted, EngineThrows, Teardown, Finalize
<1> QED
  BY <1>1, <1>2, <1>3, <1>5, <1>6, <1>7, <1>8 DEF Engine

(* The environment keeps it: a crash forgets what was spent, never adds to it. *)
LEMMA EnvironmentSpend ==
  ASSUME StructInv, StructInv', SpendInv, Environment
  PROVE  SpendInv'
<1>1. CASE FlushRunState
  BY <1>1, KeepsSpend DEF FlushRunState, RunRecord
<1>2. CASE ProcessDies
  BY <1>2, KeepsSpend DEF ProcessDies
<1>3. CASE CancelSession \/ ResumeTask
  BY <1>3, KeepsSpend DEF CancelSession, ResumeTask
<1> QED
  BY <1>1, <1>2, <1>3 DEF Environment

(* For every plan and every limit, whatever each agent uses, and across     *)
(* crashes and resumes: a run that used anything stays below its limit and  *)
(* what all agents of its largest parallel group may use on top of it       *)
(* (orchestration-service.ts:1294-1325, 1456-1457).                         *)
THEOREM SpendIsBounded == Spec => []SpendWithinOneRound
<1>1. StructInv /\ StructInv' /\ SpendInv /\ [Next]_vars => SpendInv'
  <2> SUFFICES ASSUME StructInv, StructInv', SpendInv, [Next]_vars PROVE SpendInv'
    OBVIOUS
  <2>1. CASE Lanes
    BY <2>1, LaneStepSpend DEF Lanes
  <2>2. CASE UNCHANGED vars
    BY <2>2, KeepsSpend DEF vars
  <2> QED
    BY <2>1, <2>2, EngineSpend, EnvironmentSpend DEF Next, Quiet
<1>2. ASSUME StructInv, SpendInv PROVE SpendWithinOneRound
  <2>1. Cardinality(Working) \in Nat /\ Width \in Nat /\ cost \in Nat /\ CostLimit \in Nat
    BY <1>2, LanesFinite
  <2>2. Room(Cardinality(Working)) \in Nat /\ Room(Width) \in Nat
    BY <2>1, RoomType
  <2>3. cost # 0 => cost < CostLimit + Room(Width)
    BY <1>2, <2>1, <2>2 DEF SpendInv
  <2> QED
    BY <2>3 DEF SpendWithinOneRound, Room
<1> QED
  BY <1>1, <1>2, InitStruct, NextStruct, InitSpend, PTL DEF Spec

-----------------------------------------------------------------------------
(* The calls of a lane, after a step of it *)

(* The calls on F come of the call f on top of the calls c. *)
Reshaped(l, F, f, c) ==
  \/ F = <<>>
  \/ \E g \in FrameOf(l) :
       /\ g.num = f.num /\ g.of = f.of /\ (g.defer => f.defer) /\ F = <<g>> \o c
       /\ g.at # "start" => UNCHANGED reworkCounts
       /\ \/ g.at = "start" /\ g.exec = 0
          \/ g.at = "agent" /\ g.exec = Len(Begun(f)) /\ g.rework = Count(g.num)
          \/ g.at = "quality" /\ f.at = "agent" /\ g.exec = f.exec /\ g.rework = f.rework
  \/ c # <<>> /\ F = Proceed(c)
  \/ \E g \in FrameOf(l) : /\ g.num = f.num /\ g.of = f.of
                           /\ g.defer = f.defer /\ g.exec = f.exec
                           /\ F = Proceed(<<g>> \o c)

(* Every step of executeStepBody replaces the innermost call, returns to    *)
(* the calls below it, or ends the lane.                                    *)
LEMMA LaneStepShape ==
  ASSUME StructInv, NEW l \in DOMAIN lanes, LaneStep(l)
  PROVE  /\ Running(l)
         /\ Reshaped(l, lanes'[l].frames, Top(l), Callers(l))
         /\ DOMAIN lanes' = DOMAIN lanes /\ \A m \in DOMAIN lanes \ {l} : lanes'[m] = lanes[m]
<1>0. Running(l)
  BY DEF LaneStep, StartAgent, LimitReached, StartThrows, SubWorktreeFails, AgentCompletes,
         CommitFails, AgentFails, AgentSignalsRework, AgentNeedsRework, QualityGatePasses,
         QualityGateFails
<1>1. PICK f \in FrameOf(l), c \in Seq(FrameOf(l)) : f = Top(l) /\ c = Callers(l)
  BY <1>0, TopType
<1>2. PICK fr, r : SetLane(l, fr, r)
  BY LaneStepEffect DEF LaneEffect, LaneChange
<1>3. /\ DOMAIN lanes' = DOMAIN lanes /\ \A m \in DOMAIN lanes \ {l} : lanes'[m] = lanes[m]
  BY <1>2 DEF SetLane
<1>4. ASSUME NEW g, NEW s, SetLane(l, g, s) PROVE lanes'[l].frames = g
  BY <1>4 DEF SetLane
<1>5. ASSUME LaneFails(l) PROVE lanes'[l].frames = <<>>
  BY <1>4, <1>5 DEF LaneFails
<1>6. ASSUME StepCompletes(l)
      PROVE  lanes'[l].frames = <<>> \/ (c # <<>> /\ lanes'[l].frames = Proceed(c))
  BY <1>1, <1>4, <1>6 DEF StepCompletes
<1>7. f.of \in {l, 0} /\ f.num \in Nat /\ (f.of # 0 => f.num = l)
  BY DEF FrameOf
<1> DEFINE F == lanes'[l].frames
<1>8. CASE StartAgent(l)
  <2>1. F = <<[f EXCEPT !.at = "agent", !.exec = Len(Begun(f)), !.rework = Count(f.num)]>> \o c
    BY <1>1, <1>4, <1>8 DEF StartAgent
  <2>2. PICK g : g = [f EXCEPT !.at = "agent", !.exec = Len(Begun(f)), !.rework = Count(f.num)]
    OBVIOUS
  <2>3. /\ g.num = f.num /\ g.of = f.of /\ g.defer = f.defer
        /\ g.at = "agent" /\ g.rework = Count(g.num) /\ g.exec = Len(Begun(f))
    BY <2>2 DEF FrameOf
  <2>5. UNCHANGED reworkCounts
    BY <1>8 DEF StartAgent
  <2>4. g \in FrameOf(l)
    <3>1. f.num \in Nat /\ f.of \in Nat /\ steps \in Seq(Execution) /\ reworkCounts \in [DOMAIN reworkCounts -> Nat]
      BY <1>0, <1>1, TopType DEF StructInv, TypeOK
    <3>2. Len(Begun(f)) \in Nat \ {0} /\ Count(f.num) \in Nat
      <4>1. Begun(f) \in Seq(Execution) /\ Len(Begun(f)) # 0
        BY <3>1, BegunType
      <4> QED
        BY <3>1, <4>1, LenProperties, CountType
    <3> QED
      BY <2>2, <3>2 DEF FrameOf
  <2> QED
    BY <1>0, <1>1, <1>3, <2>1, <2>2, <2>3, <2>4, <2>5 DEF Reshaped
<1>9. CASE LimitReached(l) \/ StartThrows(l) \/ SubWorktreeFails(l) \/ CommitFails(l) \/ AgentFails(l)
           \/ AgentSignalsRework(l)
  <2>1. F = <<>>
    BY <1>4, <1>5, <1>9
    DEF LimitReached, StartThrows, SubWorktreeFails, CommitFails, AgentFails, AgentSignalsRework
  <2> QED
    BY <1>0, <1>3, <2>1 DEF Reshaped
<1>10. CASE AgentCompletes(l)
  <2>1. CASE SetLane(l, <<[f EXCEPT !.at = "quality"]>> \o c, "running")
    <3>1. PICK g \in FrameOf(l) : g = [f EXCEPT !.at = "quality"]
      BY <1>1, <1>10 DEF FrameOf, AgentCompletes
    <3>2. /\ g.num = f.num /\ g.of = f.of /\ g.defer = f.defer /\ F = <<g>> \o c
          /\ g.at = "quality" /\ g.rework = f.rework /\ g.exec = f.exec
      BY <1>4, <2>1, <3>1 DEF FrameOf
    <3>3. f.at = "agent" /\ UNCHANGED reworkCounts
      BY <1>1, <1>10 DEF AgentCompletes
    <3> QED
      BY <1>0, <1>1, <1>3, <3>2, <3>3 DEF Reshaped
  <2>2. CASE StepCompletes(l)
    BY <1>0, <1>1, <1>3, <1>6, <2>2 DEF Reshaped
  <2> QED
    BY <1>1, <1>10, <2>1, <2>2 DEF AgentCompletes
<1>11. CASE AgentNeedsRework(l)
  <2>1. CASE LaneFails(l)
    BY <1>0, <1>3, <1>5, <2>1 DEF Reshaped
  <2>2. CASE \E p \in ReworkPlans(f.num) :
               SetLane(l, Proceed(<<[f EXCEPT !.at = "replan", !.todo = p]>> \o c), "running")
    <3>1. PICK p \in ReworkPlans(f.num) :
            SetLane(l, Proceed(<<[f EXCEPT !.at = "replan", !.todo = p]>> \o c), "running")
      BY <2>2
    <3>2. p \in Seq(Nat)
      BY <1>0, <1>1, TopType, ReworkPlansType
    <3>3. PICK g \in FrameOf(l) : g = [f EXCEPT !.at = "replan", !.todo = p]
      BY <3>2 DEF FrameOf
    <3>4. g.num = f.num /\ g.of = f.of /\ g.defer = f.defer /\ g.exec = f.exec
      BY <3>3 DEF FrameOf
    <3>5. F = Proceed(<<g>> \o c)
      BY <1>4, <3>1, <3>3
    <3> QED
      BY <1>0, <1>1, <1>3, <3>4, <3>5 DEF Reshaped
  <2> QED
    BY <1>1, <1>11, <2>1, <2>2 DEF AgentNeedsRework
<1>12. CASE QualityGatePasses(l)
  BY <1>0, <1>1, <1>3, <1>6, <1>12 DEF Reshaped, QualityGatePasses
<1>13. CASE QualityGateFails(l)
  <2>1. CASE LaneFails(l)
    BY <1>0, <1>3, <1>5, <2>1 DEF Reshaped
  <2>2. CASE SetLane(l, <<StartFrame(f.num, f.of, FALSE)>> \o c, "running")
    <3>1. PICK g \in FrameOf(l) : g = StartFrame(f.num, f.of, FALSE)
      BY <1>7, StartFrameType
    <3>2. /\ g.num = f.num /\ g.of = f.of /\ ~g.defer /\ F = <<g>> \o c
          /\ g.at = "start" /\ g.exec = 0
      BY <1>4, <2>2, <3>1 DEF StartFrame
    <3> QED
      BY <1>0, <1>1, <1>3, <3>2 DEF Reshaped
  <2> QED
    BY <1>1, <1>13, <2>1, <2>2 DEF QualityGateFails
<1> QED
  BY <1>8, <1>9, <1>10, <1>11, <1>12, <1>13 DEF LaneStep

-----------------------------------------------------------------------------
(* Rework cycles *)

SentFor(s, n) == {i \in DOMAIN s : s[i].of = n /\ s[i].status = "needs_rework"}
SentOn(s, n) == {i \in SentFor(s, n) : \E j \in DOMAIN s : s[j].of = n /\ j > i}
Signalled(n) == \E i \in DOMAIN signals : signals[i].num = n

(* No rework step was executed under the number of step n. *)
OwnOn(s, n) == \A i \in DOMAIN s : s[i].num = n => s[i].of = n
(* The executions in s keep their numbers in t. *)
Numbered(s, t) ==
  \A i \in DOMAIN s : i \in DOMAIN t /\ t[i].num = s[i].num /\ t[i].of = s[i].of

(* A call that leaves its rework to the group is one of the group. *)
Tame(l) == {f \in FrameOf(l) : f.defer => f.of = l /\ ctl # "rework"}

(* RetriesWithinLimit needs to know where a rework is counted: by the call  *)
(* itself before it retries, or, once the member of a group has signalled   *)
(* it, when the group is planned again; until then the lane of the member   *)
(* is over.  The count that a call at work has read is the one in force.    *)
(* As long as no rework step was executed under the number of step n, the   *)
(* calls of its own lane alone touch its count: a call at work has an entry *)
(* under its number.                                                        *)
Limited(n) ==
  /\ OwnOn(steps, n) => /\ Count(n) <= MaxRework
                        /\ Cardinality(SentOn(steps, n)) <= MaxRework
  /\ OwnOn(disk.steps, n) => Cardinality(SentOn(disk.steps, n)) <= MaxRework
Counted(n) ==
  OwnOn(steps, n) /\ (Running(n) \/ (ctl \in Going /\ ~Signalled(n))) =>
    Cardinality(SentFor(steps, n)) <= Count(n)
Pending(m) ==
  /\ ~Running(m.num)
  /\ OwnOn(steps, m.num) => /\ m.rework = Count(m.num)
                            /\ Cardinality(SentFor(steps, m.num)) <= Count(m.num) + 1
HasRead(l) ==
  Running(l) /\ Top(l).at \in {"agent", "quality"} =>
    /\ steps[Top(l).exec].num = Top(l).num
    /\ Top(l).of = l /\ OwnOn(steps, l) => Top(l).rework = Count(l)
RetryInv ==
  /\ \A l \in DOMAIN lanes : lanes[l].frames \in Seq(Tame(l))
  /\ Fresh =>
       /\ \A n \in PlanSteps : Limited(n) /\ Counted(n)
       /\ \A i \in DOMAIN signals : Pending(signals[i])
       /\ ctl \in Going /\ signals # <<>> => ctl = "lanes"
       /\ \A l \in DOMAIN lanes : HasRead(l)

(* The executions sent back are finitely many. *)
LEMMA SentFinite ==
  ASSUME NEW s \in Seq(Execution), NEW n
  PROVE  /\ IsFiniteSet(SentFor(s, n)) /\ Cardinality(SentFor(s, n)) \in Nat
         /\ IsFiniteSet(SentOn(s, n)) /\ Cardinality(SentOn(s, n)) \in Nat
         /\ Cardinality(SentOn(s, n)) <= Cardinality(SentFor(s, n))
<1>1. DOMAIN s = 1..Len(s) /\ Len(s) \in Nat
  BY LenProperties
<1>2. IsFiniteSet(DOMAIN s)
  BY <1>1, FS_Interval
<1>3. SentFor(s, n) \in SUBSET DOMAIN s /\ SentOn(s, n) \in SUBSET SentFor(s, n)
  BY DEF SentFor, SentOn
<1> QED
  BY <1>2, <1>3, FS_Subset, FS_CardinalityType

(* What is said of the executions of a step holds as long as they stay. *)
LEMMA SentSame ==
  ASSUME NEW N, NEW s, NEW t, Within(N, s, t), NEW n, n \notin N
  PROVE  SentFor(t, n) = SentFor(s, n) /\ SentOn(t, n) = SentOn(s, n)
<1>1. /\ \A i \in DOMAIN t : t[i].of = n => i \in DOMAIN s /\ s[i].of = n
      /\ \A i \in DOMAIN s : s[i].of = n => i \in DOMAIN t /\ t[i].of = n /\ t[i].status = s[i].status
  BY DEF Within
<1>2. SentFor(t, n) = SentFor(s, n)
  BY <1>1 DEF SentFor
<1> QED
  BY <1>1, <1>2 DEF SentOn, SentFor

(* A number that is a step's own now was so before. *)
LEMMA OwnKept ==
  ASSUME NEW s, NEW t, Numbered(s, t), NEW n, OwnOn(t, n)
  PROVE  OwnOn(s, n)
  BY DEF Numbered, OwnOn

(* The calls of a lane stay tame. *)
LEMMA TameKept ==
  ASSUME StructInv, NEW l \in DOMAIN lanes, LaneStep(l), lanes[l].frames \in Seq(Tame(l))
  PROVE  lanes'[l].frames \in Seq(Tame(l))
<1>1. PICK f, c : f = Top(l) /\ c = Callers(l)
  OBVIOUS
<1>2. f \in Tame(l) /\ c \in Seq(Tame(l))
  <2>1. Running(l)
    BY LaneStepShape
  <2>2. lanes[l].frames # <<>>
    BY <2>1 DEF StructInv
  <2> QED
    BY <1>1, <2>2, HeadTailProperties DEF Top, Callers
<1>3. Tame(l) \subseteq FrameOf(l) /\ Seq(Tame(l)) \subseteq Seq(FrameOf(l))
  <2>1. Tame(l) \subseteq FrameOf(l)
    BY DEF Tame
  <2> QED
    BY <2>1, SeqMonotonic
<1>4. ASSUME NEW g \in FrameOf(l), g.of = f.of, g.defer => f.defer PROVE g \in Tame(l)
  BY <1>2, <1>4 DEF Tame
<1>5. ASSUME NEW q \in Seq(Tame(l)), q # <<>> PROVE Proceed(q) \in Seq(Tame(l))
  <2>1. PICK h \in Tame(l), d \in Seq(Tame(l)) : h = Head(q) /\ d = Tail(q)
    BY <1>5, HeadTailProperties
  <2>2. Proceeded(l, Proceed(q), h, d)
    BY <1>3, <1>5, <2>1, ProceedShape
  <2>3. CASE Proceed(q) = <<>>
    BY <2>3, EmptySeq
  <2>4. CASE \E g \in FrameOf(l) : ~g.defer /\ Proceed(q) = <<g>> \o d
    <3>1. PICK g \in Tame(l) : Proceed(q) = <<g>> \o d
      BY <2>4 DEF Tame
    <3> QED
      BY <2>1, <3>1, PutOnTop
  <2>5. CASE \E g, k \in FrameOf(l) : /\ ~g.defer /\ k.of = h.of /\ k.defer = h.defer
                                      /\ Proceed(q) = <<g>> \o (<<k>> \o d)
    <3>1. PICK g, k \in Tame(l) : Proceed(q) = <<g>> \o (<<k>> \o d)
      BY <2>1, <2>5 DEF Tame
    <3>2. <<k>> \o d \in Seq(Tame(l))
      BY <2>1, PutOnTop
    <3> QED
      BY <3>1, <3>2, PutOnTop
  <2> QED
    BY <2>2, <2>3, <2>4, <2>5 DEF Proceeded
<1>6. Reshaped(l, lanes'[l].frames, f, c)
  BY <1>1, LaneStepShape
<1>7. CASE lanes'[l].frames = <<>>
  BY <1>7, EmptySeq
<1>8. CASE \E g \in FrameOf(l) : g.of = f.of /\ (g.defer => f.defer) /\ lanes'[l].frames = <<g>> \o c
  BY <1>2, <1>4, <1>8, PutOnTop
<1>9. CASE c # <<>> /\ lanes'[l].frames = Proceed(c)
  BY <1>2, <1>5, <1>9
<1>10. CASE \E g \in FrameOf(l) : /\ g.of = f.of /\ g.defer = f.defer /\ g.exec = f.exec
                                  /\ lanes'[l].frames = Proceed(<<g>> \o c)
  <2>1. PICK g \in Tame(l) : lanes'[l].frames = Proceed(<<g>> \o c)
    BY <1>4, <1>10
  <2>2. <<g>> \o c \in Seq(Tame(l)) /\ <<g>> \o c # <<>>
    BY <1>2, PutOnTop
  <2> QED
    BY <1>5, <2>1, <2>2
<1> QED
  BY <1>6, <1>7, <1>8, <1>9, <1>10 DEF Reshaped

(* What marking and beginning executions sends back *)
LEMMA MarkSent ==
  ASSUME NEW s \in Seq(Execution), NEW i \in Nat, NEW st \in StepStatus, NEW n
  PROVE  /\ SentFor(Mark(s, i, st), n) \subseteq SentFor(s, n) \cup {i}
         /\ st # "needs_rework" => SentFor(Mark(s, i, st), n) \subseteq SentFor(s, n)
<1>1. s \in [1..Len(s) -> Execution] /\ DOMAIN s = 1..Len(s)
  BY LenProperties
<1>2. /\ DOMAIN Mark(s, i, st) = DOMAIN s
      /\ \A j \in DOMAIN s : Mark(s, i, st)[j].of = s[j].of
  BY MarkType
<1>3. \A j \in DOMAIN s : Mark(s, i, st)[j].status = IF j = i THEN st ELSE s[j].status
  BY <1>1 DEF Mark, Execution
<1> QED
  BY <1>2, <1>3 DEF SentFor

(* A new execution is not sent back, and has the number of its call. *)
LEMMA BegunSent ==
  ASSUME steps \in Seq(Execution), NEW f, f.num \in Nat, f.of \in Nat, NEW b, b = Begun(f), NEW n
  PROVE  /\ SentFor(b, n) = SentFor(steps, n)
         /\ Numbered(steps, b) /\ b[Len(b)].num = f.num
<1> DEFINE e == [num |-> f.num, of |-> f.of, status |-> "running", reviewed |-> FALSE]
<1>1. e \in Execution /\ b = Append(steps, e) /\ e.num = f.num /\ e.status = "running"
  BY DEF Execution, StepStatus, Begun
<1> HIDE DEF e
<1>2. /\ Len(b) = Len(steps) + 1
      /\ \A i \in 1..(Len(steps) + 1) : b[i] = IF i = Len(steps) + 1 THEN e ELSE steps[i]
  BY <1>1, AppendProperties
<1>3. /\ DOMAIN b = 1..(Len(steps) + 1) /\ DOMAIN steps = 1..Len(steps) /\ Len(steps) \in Nat
  BY <1>1, <1>2, LenProperties, AppendProperties
<1>4. SentFor(b, n) = SentFor(steps, n)
  BY <1>1, <1>2, <1>3 DEF SentFor
<1>5. Numbered(steps, b) /\ b[Len(b)].num = f.num
  BY <1>1, <1>2, <1>3 DEF Numbered
<1> QED
  BY <1>4, <1>5

(* A mark leaves the numbers. *)
LEMMA MarkNumbered ==
  ASSUME NEW s \in Seq(Execution), NEW i \in Nat, NEW st \in StepStatus, NEW t, t = Mark(s, i, st)
  PROVE  Numbered(s, t)
  BY MarkType DEF Numbered

(* The lanes leave the numbers of the executions. *)
LEMMA LaneStepNumbers ==
  ASSUME StructInv, SettledInv, NEW l \in DOMAIN lanes, LaneStep(l)
  PROVE  Numbered(steps, steps')
<1>1. Running(l)
  BY LaneStepShape
<1>2. PICK f, c : TopFacts(l, f, c)
  BY <1>1, TopKnown
<1>3. /\ f = Top(l) /\ c = Callers(l) /\ f \in FrameOf(l) /\ c \in Seq(FrameOf(l))
      /\ steps \in Seq(Execution) /\ f.num \in Nat /\ f.of \in Nat /\ f.exec \in Nat
  BY <1>2 DEF TopFacts, FrameOf
<1>4. PICK b : b = Begun(f)
  OBVIOUS
<1>5. b \in Seq(Execution) /\ Numbered(steps, b) /\ Len(b) \in Nat
  BY <1>3, <1>4, BegunSent, BegunType, LenProperties
<1>6. {"completed", "failed", "needs_rework"} \subseteq StepStatus
  BY DEF StepStatus
<1>7. \A e \in Nat, st \in {"completed", "failed", "needs_rework"} :
        Numbered(steps, Mark(steps, e, st)) /\ Numbered(b, Mark(b, e, st))
  BY <1>3, <1>5, <1>6, MarkNumbered
<1>8. \A e \in Nat : Numbered(steps, Mark(b, e, "failed"))
  <2>1. \A t : Numbered(b, t) => Numbered(steps, t)
    BY <1>5 DEF Numbered
  <2> QED
    BY <1>7, <2>1
<1>9. CASE StartAgent(l) \/ LimitReached(l) \/ StartThrows(l)
  <2>1. \/ steps' \in {b, Mark(b, Len(b), "failed")}
        \/ c # <<>> /\ steps' = Mark(b, Head(c).exec, "failed")
    BY <1>3, <1>4, <1>9 DEF StartAgent, LimitReached, StartThrows
  <2>2. c # <<>> => Head(c).exec \in Nat
    <3>1. c # <<>> => Head(c) \in FrameOf(l)
      BY <1>3, HeadTailProperties
    <3> QED
      BY <3>1 DEF FrameOf
  <2> QED
    BY <1>5, <1>8, <2>1, <2>2
<1>10. CASE UNCHANGED steps
  BY <1>10 DEF Numbered
<1>11. CASE \E st \in {"completed", "failed", "needs_rework"} : steps' = Mark(steps, f.exec, st)
  BY <1>3, <1>7, <1>11
<1>12. CASE SubWorktreeFails(l) \/ QualityGatePasses(l)
  BY <1>10, <1>12 DEF SubWorktreeFails, QualityGatePasses
<1>13. CASE \/ AgentCompletes(l) \/ CommitFails(l) \/ AgentFails(l) \/ AgentSignalsRework(l)
            \/ AgentNeedsRework(l) \/ QualityGateFails(l)
  BY <1>3, <1>11, <1>13
  DEF AgentCompletes, CommitFails, AgentFails, AgentSignalsRework, AgentNeedsRework, QualityGateFails
<1> QED
  BY <1>9, <1>12, <1>13 DEF LaneStep

(* What a step of a lane does to the rework of its step: it sends nothing   *)
(* back, or it counts what it sends back, or it leaves that to the group.   *)
RetryEffect(l) ==
  /\ Numbered(steps, steps')
  /\ \A n \in PlanSteps \ {l} : OwnOn(steps, n) => Count(n)' = Count(n)
  /\ \/ signals' = signals
     \/ /\ ~Running(l)' /\ ctl # "rework"
        /\ \E r \in Nat : signals' = Append(signals, [num |-> l, rework |-> r])
  /\ OwnOn(steps, l) =>
     \/ /\ SentFor(steps', l) \subseteq SentFor(steps, l)
        /\ Count(l)' = Count(l) /\ signals' = signals
     \/ /\ \E i : SentFor(steps', l) \subseteq SentFor(steps, l) \cup {i}
        /\ Count(l) < MaxRework /\ Count(l)' = Count(l) + 1 /\ signals' = signals
     \/ /\ \E i : /\ SentFor(steps', l) \subseteq SentFor(steps, l) \cup {i}
                  /\ \A j \in DOMAIN steps' : steps'[j].of = l => j <= i
        /\ Count(l)' = Count(l) /\ ~Running(l)' /\ ctl # "rework"
        /\ signals' = Append(signals, [num |-> l, rework |-> Count(l)])
  /\ \/ disk' = disk
     \/ /\ disk'.steps \in Seq(Execution) /\ Numbered(steps, disk'.steps)
        /\ Within(OfLane(l), steps, disk'.steps)
        /\ SentFor(disk'.steps, l) = SentFor(steps, l)
  /\ HasRead(l)'

(* The call on top has the number of its entry, and has read the count in   *)
(* force when its agent is at work.                                         *)
LEMMA ReworkRead ==
  ASSUME StructInv, SettledInv, RetryInv, Fresh, NEW l \in DOMAIN lanes, LaneStep(l),
         Running(l)', Top(l)'.at \in {"agent", "quality"}
  PROVE  /\ steps'[Top(l)'.exec].num = Top(l)'.num
         /\ Top(l)'.of = l /\ OwnOn(steps', l) => Top(l)'.rework = Count(l)'
<1>0. PICK f, c : TopFacts(l, f, c)
  BY LaneStepShape, TopKnown
<1>1. /\ f = Top(l) /\ c = Callers(l) /\ f \in FrameOf(l) /\ c \in Seq(FrameOf(l))
      /\ l \in PlanSteps /\ steps \in Seq(Execution) /\ f.num \in Nat /\ f.of \in Nat
      /\ (f.of # 0 => f.num = l)
      /\ f.at \in {"agent", "quality"} => f.exec \in DOMAIN steps
  BY <1>0 DEF TopFacts, FrameOf
<1>2. PICK F : F = lanes'[l].frames
  OBVIOUS
<1>3. Reshaped(l, F, f, c) /\ Running(l)
  BY <1>1, <1>2, LaneStepShape
<1>4. F # <<>> /\ Top(l)' = Head(F)
  BY <1>2, LaneStepEffect DEF LaneEffect, LaneChange, SetLane, Running, Top
<1>5. Proceed(c) # <<>> /\ c # <<>> => Head(Proceed(c)).at = "start"
  BY <1>1, ProceedRests
<1>6. ASSUME NEW g \in FrameOf(l), Proceed(<<g>> \o c) # <<>>
      PROVE  Head(Proceed(<<g>> \o c)).at = "start"
  <2>1. PICK q \in Seq(FrameOf(l)) : q = <<g>> \o c /\ q # <<>>
    BY <1>1, PutOnTop
  <2> QED
    BY <1>6, <2>1, ProceedRests
<1>7. PICK g \in FrameOf(l) :
        /\ g.num = f.num /\ g.of = f.of /\ F = <<g>> \o c
        /\ g.at # "start" => UNCHANGED reworkCounts
        /\ \/ g.at = "start"
           \/ g.at = "agent" /\ g.exec = Len(Begun(f)) /\ g.rework = Count(g.num)
           \/ g.at = "quality" /\ f.at = "agent" /\ g.exec = f.exec /\ g.rework = f.rework
  <2>1. Head(F).at # "start"
    BY <1>4
  <2>2. ~(c # <<>> /\ F = Proceed(c)) /\ ~\E g \in FrameOf(l) : F = Proceed(<<g>> \o c)
    <3>1. ~(c # <<>> /\ F = Proceed(c))
      BY <1>4, <1>5, <2>1
    <3>2. ASSUME NEW g \in FrameOf(l), F = Proceed(<<g>> \o c) PROVE FALSE
      <4>1. Proceed(<<g>> \o c) # <<>>
        BY <1>4, <3>2
      <4>2. Head(Proceed(<<g>> \o c)).at = "start"
        BY <1>6, <4>1
      <4> QED
        BY <2>1, <3>2, <4>2
    <3> QED
      BY <3>1, <3>2
  <2> QED
    BY <1>3, <1>4, <2>2 DEF Reshaped
<1>8. Top(l)' = g
  BY <1>1, <1>4, <1>7, PutOnTop
<1>9. UNCHANGED reworkCounts /\ g.at \in {"agent", "quality"}
  BY <1>7, <1>8
<1>10. Numbered(steps, steps')
  BY LaneStepNumbers
<1>11. f.at = "agent" => /\ steps[f.exec].num = f.num
                         /\ f.of = l /\ OwnOn(steps, l) => f.rework = Count(l)
  BY <1>1, <1>3 DEF RetryInv, HasRead
<1>12. steps'[g.exec].num = g.num
  <2>1. CASE g.at = "agent"
    <3>1. g.exec = Len(Begun(f)) /\ l \in Working'
      <4>1. DOMAIN lanes' = DOMAIN lanes
        BY LaneStepShape
      <4> QED
        BY <1>7, <1>8, <2>1, <4>1 DEF Working, Running
    <3>2. StartAgent(l)
      BY <3>1, LaneStepSpends DEF SpendEffect
    <3>3. PICK b : b = Begun(f)
      OBVIOUS
    <3>4. steps' = b
      BY <1>1, <3>2, <3>3 DEF StartAgent
    <3>5. b[Len(b)].num = f.num
      BY <1>1, <3>3, BegunSent
    <3> QED
      BY <1>7, <3>1, <3>3, <3>4, <3>5
  <2>2. CASE g.at = "quality"
    BY <1>1, <1>7, <1>10, <1>11, <2>2 DEF Numbered
  <2> QED
    BY <1>9, <2>1, <2>2
<1>13. ASSUME g.of = l, OwnOn(steps', l) PROVE g.rework = Count(l)'
  <2>1. l # 0
    BY <1>1, PlanNumbers DEF PlanSteps, StructInv, TypeOK
  <2>2. g.num = l /\ f.of = l /\ OwnOn(steps, l)
    BY <1>1, <1>7, <1>10, <1>13, <2>1, OwnKept
  <2>3. Count(l)' = Count(l)
    BY <1>9 DEF Count
  <2> QED
    BY <1>7, <1>9, <1>11, <2>2, <2>3
<1> QED
  BY <1>8, <1>12, <1>13

(* Every step of executeStepBody does no more than that to the rework. *)
LEMMA LaneStepReworks ==
  ASSUME StructInv, SettledInv, RetryInv, Fresh, NEW l \in DOMAIN lanes, LaneStep(l)
  PROVE  RetryEffect(l)
<1>1. Running(l)
  BY LaneStepShape
<1>2. PICK f, c : TopFacts(l, f, c)
  BY <1>1, TopKnown
<1>3. /\ f = Top(l) /\ c = Callers(l) /\ f \in FrameOf(l) /\ c \in Seq(FrameOf(l))
      /\ steps \in Seq(Execution) /\ f.num \in Nat /\ f.of \in Nat /\ f.exec \in Nat
      /\ f.rework \in Nat /\ l \in PlanSteps /\ plan \in Plans
  BY <1>2 DEF TopFacts, FrameOf
<1>4. HasRead(l)' /\ Numbered(steps, steps')
  BY ReworkRead, LaneStepNumbers DEF HasRead
<1>5. PICK b : b = Begun(f)
  OBVIOUS
<1>6. /\ b \in Seq(Execution) /\ SentFor(b, l) = SentFor(steps, l) /\ Numbered(steps, b)
      /\ Within(OfLane(l), steps, b) /\ Len(b) \in Nat
  <2>1. PICK N : N = OfLane(l)
    OBVIOUS
  <2>2. f.of \in N
    BY <1>2, <2>1 DEF TopFacts
  <2>3. b \in Seq(Execution) /\ Within(N, steps, b)
    BY <1>3, <1>5, <2>2, BegunWithin
  <2>4. SentFor(b, l) = SentFor(steps, l) /\ Numbered(steps, b)
    BY <1>3, <1>5, BegunSent
  <2> QED
    BY <2>1, <2>3, <2>4, LenProperties
<1>7. {"completed", "failed", "needs_rework"} \subseteq StepStatus
  BY DEF StepStatus
<1>8. \A i \in Nat, st \in {"completed", "failed"} :
        /\ SentFor(Mark(steps, i, st), l) \subseteq SentFor(steps, l)
        /\ SentFor(Mark(b, i, st), l) \subseteq SentFor(steps, l)
  BY <1>3, <1>6, <1>7, MarkSent
<1>9. ASSUME f.at \in {"agent", "quality"}
      PROVE  /\ f.of = l /\ OwnOn(steps, l) => f.rework = Count(l)
             /\ \A n \in PlanSteps : OwnOn(steps, n) /\ f.num = n => n = l /\ f.of = l
  <2>1. /\ steps[f.exec].num = f.num
        /\ f.of = l /\ OwnOn(steps, l) => f.rework = Count(l)
    BY <1>1, <1>3, <1>9 DEF RetryInv, HasRead
  <2>2. f.exec \in DOMAIN steps /\ steps[f.exec].of = f.of /\ f.of \in OfLane(l)
    BY <1>2, <1>9 DEF TopFacts
  <2>3. 0 \notin PlanSteps
    BY <1>3, PlanNumbers DEF PlanSteps
  <2> QED
    BY <2>1, <2>2, <2>3 DEF OwnOn, OfLane
<1>10. SentFor(Mark(steps, f.exec, "needs_rework"), l) \subseteq SentFor(steps, l) \cup {f.exec}
  BY <1>3, <1>7, MarkSent
<1>11. ASSUME f.at \in {"agent", "quality"}, f.of # l
       PROVE  SentFor(Mark(steps, f.exec, "needs_rework"), l) = SentFor(steps, l)
  <2>1. PICK t : t = Mark(steps, f.exec, "needs_rework")
    OBVIOUS
  <2>2. Within({f.of}, steps, t)
    BY <1>3, <1>7, <1>2, <1>11, <2>1, MarkWithin DEF TopFacts
  <2>3. SentFor(t, l) = SentFor(steps, l)
    BY <1>11, <2>2, SentSame
  <2> QED
    BY <2>1, <2>3
<1>12. ASSUME UNCHANGED reworkCounts PROVE \A n : Count(n)' = Count(n)
  BY <1>12 DEF Count
<1>13. ASSUME f.at \in {"agent", "quality"},
              reworkCounts' = WithCounts([n \in {f.num} |-> f.rework + 1])
       PROVE  /\ \A n \in PlanSteps \ {l} : OwnOn(steps, n) => Count(n)' = Count(n)
              /\ OwnOn(steps, l) => Count(l)' = IF f.of = l THEN f.rework + 1 ELSE Count(l)
  <2>1. /\ DOMAIN reworkCounts' = DOMAIN reworkCounts \cup {f.num}
        /\ \A n \in DOMAIN reworkCounts' :
             reworkCounts'[n] = IF n = f.num THEN f.rework + 1 ELSE reworkCounts[n]
    BY <1>13 DEF WithCounts
  <2>2. \A n \in PlanSteps : OwnOn(steps, n) /\ f.num = n => n = l /\ f.of = l
    BY <1>9, <1>13
  <2>3. f.of = l => f.num = l
    BY <1>3, PlanNumbers DEF FrameOf, PlanSteps
  <2> QED
    BY <1>3, <2>1, <2>2, <2>3 DEF Count
<1>14. ASSUME NEW st \in StepStatus, NEW t, t = Mark(steps, f.exec, st)
       PROVE  DOMAIN t = DOMAIN steps /\ \A j \in DOMAIN steps : t[j].of = steps[j].of
  BY <1>3, <1>14, MarkType
<1> USE <1>4 DEF RetryEffect
<1>15. CASE StartAgent(l)
  <2>1. steps' = b /\ disk'.steps = b /\ UNCHANGED <<reworkCounts, signals>>
    BY <1>3, <1>5, <1>15 DEF StartAgent, RunRecord
  <2> QED
    BY <1>6, <1>12, <2>1
<1>16. CASE LimitReached(l)
  <2>1. /\ steps' = Mark(b, Len(b), "failed") /\ disk'.steps = b
        /\ UNCHANGED <<reworkCounts, signals>>
    BY <1>3, <1>5, <1>16 DEF LimitReached, RunRecord
  <2> QED
    BY <1>6, <1>8, <1>12, <2>1
<1>17. CASE StartThrows(l)
  <2>1. /\ disk' = disk \/ disk'.steps = b
        /\ UNCHANGED <<reworkCounts, signals>>
        /\ \/ steps' = b
           \/ c # <<>> /\ steps' = Mark(b, Head(c).exec, "failed")
    BY <1>3, <1>5, <1>17 DEF StartThrows, RunRecord
  <2>2. c # <<>> => Head(c).exec \in Nat
    <3>1. c # <<>> => Head(c) \in FrameOf(l)
      BY <1>3, HeadTailProperties
    <3> QED
      BY <3>1 DEF FrameOf
  <2>3. SentFor(steps', l) \subseteq SentFor(steps, l)
    BY <1>6, <1>8, <2>1, <2>2
  <2> QED
    BY <1>6, <1>12, <2>1, <2>3
<1>18. CASE SubWorktreeFails(l) \/ QualityGatePasses(l)
  <2>1. UNCHANGED <<steps, disk, reworkCounts, signals>>
    BY <1>18 DEF SubWorktreeFails, QualityGatePasses
  <2> QED
    BY <1>12, <2>1
<1>19. CASE AgentCompletes(l) \/ CommitFails(l) \/ AgentFails(l)
  <2>1. /\ UNCHANGED <<disk, reworkCounts, signals>>
        /\ \E st \in {"completed", "failed"} : steps' = Mark(steps, f.exec, st)
    BY <1>3, <1>19 DEF AgentCompletes, CommitFails, AgentFails
  <2> QED
    BY <1>3, <1>8, <1>12, <2>1
<1>20. CASE AgentSignalsRework(l)
  <2>1. /\ UNCHANGED <<disk, reworkCounts>> /\ f.at = "agent" /\ f.defer
        /\ steps' = Mark(steps, f.exec, "needs_rework")
        /\ signals' = Append(signals, [num |-> l, rework |-> f.rework])
        /\ SetLane(l, <<>>, "rework")
    BY <1>3, <1>20 DEF AgentSignalsRework
  <2>2. f.of = l /\ ctl # "rework"
    <3>1. lanes[l].frames \in Seq(Tame(l)) /\ lanes[l].frames # <<>>
      BY <1>1 DEF RetryInv, StructInv
    <3>2. f \in Tame(l)
      BY <1>3, <3>1, HeadTailProperties DEF Top
    <3> QED
      BY <2>1, <3>2 DEF Tame
  <2>3. Bottom(steps, l, f) /\ f.exec # 0
    <3>1. l # 0
      BY <1>3, PlanNumbers DEF PlanSteps
    <3> QED
      BY <1>2, <1>3, <2>1, <2>2, <3>1 DEF TopFacts, FrameOf
  <2>4. \A j \in DOMAIN steps' : steps'[j].of = l => j <= f.exec
    <3>0. "needs_rework" \in StepStatus
      BY <1>7
    <3>1. DOMAIN steps' = DOMAIN steps /\ \A j \in DOMAIN steps : steps'[j].of = steps[j].of
      BY <1>14, <2>1, <3>0
    <3> QED
      BY <2>3, <3>1 DEF Bottom
  <2>5. ~Running(l)'
    BY <2>1 DEF SetLane, Running
  <2>6. OwnOn(steps, l) => f.rework = Count(l)
    BY <1>9, <2>1, <2>2
  <2> QED
    BY <1>3, <1>10, <1>12, <2>1, <2>2, <2>4, <2>5, <2>6
<1>21. ASSUME f.at \in {"agent", "quality"}, UNCHANGED <<disk, signals>>,
              \/ steps' = Mark(steps, f.exec, "failed") /\ UNCHANGED reworkCounts
              \/ /\ f.rework < MaxRework
                 /\ \E st \in {"failed", "needs_rework"} : steps' = Mark(steps, f.exec, st)
                 /\ reworkCounts' = WithCounts([n \in {f.num} |-> f.rework + 1])
       PROVE  RetryEffect(l)
  <2>1. CASE steps' = Mark(steps, f.exec, "failed") /\ UNCHANGED reworkCounts
    BY <1>3, <1>8, <1>12, <1>21, <2>1
  <2>2. CASE /\ f.rework < MaxRework
             /\ \E st \in {"failed", "needs_rework"} : steps' = Mark(steps, f.exec, st)
             /\ reworkCounts' = WithCounts([n \in {f.num} |-> f.rework + 1])
    <3>1. SentFor(steps', l) \subseteq SentFor(steps, l) \cup {f.exec}
      BY <1>3, <1>8, <1>10, <2>2
    <3>4. /\ \A n \in PlanSteps \ {l} : OwnOn(steps, n) => Count(n)' = Count(n)
          /\ OwnOn(steps, l) => Count(l)' = IF f.of = l THEN f.rework + 1 ELSE Count(l)
      BY <1>13, <1>21, <2>2
    <3>5. f.of = l /\ OwnOn(steps, l) => f.rework = Count(l)
      BY <1>9, <1>21
    <3>2. CASE f.of = l
      BY <1>21, <2>2, <3>1, <3>2, <3>4, <3>5
    <3>3. CASE f.of # l
      <4>1. SentFor(steps', l) \subseteq SentFor(steps, l)
        BY <1>3, <1>8, <1>11, <1>21, <2>2, <3>3
      <4> QED
        BY <1>21, <3>3, <3>4, <4>1
    <3> QED
      BY <3>2, <3>3
  <2> QED
    BY <1>21, <2>1, <2>2
<1>22. CASE AgentNeedsRework(l) \/ QualityGateFails(l)
  <2>1. /\ f.at \in {"agent", "quality"} /\ UNCHANGED <<disk, signals>>
        /\ \/ steps' = Mark(steps, f.exec, "failed") /\ UNCHANGED reworkCounts
           \/ /\ f.rework < MaxRework
              /\ \E st \in {"failed", "needs_rework"} : steps' = Mark(steps, f.exec, st)
              /\ reworkCounts' = WithCounts([n \in {f.num} |-> f.rework + 1])
    BY <1>3, <1>22 DEF AgentNeedsRework, QualityGateFails
  <2> QED
    BY <1>21, <2>1
<1> QED
  BY <1>15, <1>16, <1>17, <1>18, <1>19, <1>20, <1>22 DEF LaneStep

(* A new run satisfies it. *)
LEMMA InitRetry == Init => RetryInv
<1> SUFFICES ASSUME Init PROVE RetryInv
  OBVIOUS
<1>1. steps = <<>> /\ disk.steps = <<>> /\ signals = <<>> /\ DOMAIN lanes = {}
  BY NoLanesType DEF Init, RunRecord
<1>2. ASSUME NEW n PROVE Limited(n) /\ Counted(n)
  <2>1. Count(n) = 0 /\ MaxRework \in Nat
    BY NoLanesType, BoundsAssumption DEF Init, Count
  <2>2. SentFor(steps, n) = {} /\ SentOn(steps, n) = {} /\ SentOn(disk.steps, n) = {}
    BY <1>1 DEF SentFor, SentOn
  <2>3. Cardinality({}) = 0
    BY FS_EmptySet
  <2> QED
    BY <2>1, <2>2, <2>3 DEF Limited, Counted
<1> QED
  BY <1>1, <1>2 DEF RetryInv

(* What a lane does to the rework of its own step stays within the limit.   *)
LEMMA OwnRetry ==
  ASSUME StructInv, StructInv', SettledInv, DeliveryInv, RetryInv, Fresh,
         NEW l \in DOMAIN lanes, LaneStep(l)
  PROVE  /\ Limited(l)' /\ Counted(l)' /\ HasRead(l)'
         /\ \A i \in DOMAIN signals' : signals'[i].num = l => Pending(signals[i])'
         /\ signals' # signals /\ ctl \in Going => ctl = "lanes"
<1>1. RetryEffect(l) /\ Running(l) /\ l \in PlanSteps
  BY LaneStepReworks, LaneStepShape DEF StructInv, TypeOK
<1>2. PICK A, B : A = SentFor(steps, l) /\ B = SentFor(steps', l)
  OBVIOUS
<1>3. /\ steps \in Seq(Execution) /\ steps' \in Seq(Execution) /\ disk'.steps \in Seq(Execution)
      /\ Count(l) \in Nat /\ Count(l)' \in Nat /\ MaxRework \in Nat
  <2>1. /\ steps \in Seq(Execution) /\ steps' \in Seq(Execution) /\ disk'.steps \in Seq(Execution)
        /\ reworkCounts \in [DOMAIN reworkCounts -> Nat]
        /\ reworkCounts' \in [DOMAIN reworkCounts' -> Nat]
    BY DEF StructInv, TypeOK
  <2> QED
    BY <2>1, BoundsAssumption DEF Count
<1>4. OwnOn(steps, l) => Count(l) <= MaxRework /\ Cardinality(A) <= Count(l)
  BY <1>1, <1>2 DEF RetryInv, Limited, Counted
<1>5. /\ IsFiniteSet(A) /\ IsFiniteSet(B) /\ Cardinality(A) \in Nat /\ Cardinality(B) \in Nat
      /\ Cardinality(SentOn(steps', l)) <= Cardinality(B) /\ Cardinality(SentOn(steps', l)) \in Nat
  BY <1>2, <1>3, SentFinite
<1>6. OwnOn(disk'.steps, l) => Cardinality(SentOn(disk'.steps, l)) <= MaxRework
  <2>1. CASE disk' = disk
    BY <1>1, <2>1 DEF RetryInv, Limited
  <2>2. CASE Numbered(steps, disk'.steps) /\ SentFor(disk'.steps, l) = A
    <3>1. /\ Cardinality(SentOn(disk'.steps, l)) <= Cardinality(SentFor(disk'.steps, l))
          /\ Cardinality(SentOn(disk'.steps, l)) \in Nat
      BY <1>3, SentFinite
    <3>2. OwnOn(disk'.steps, l) => OwnOn(steps, l)
      BY <2>2, OwnKept
    <3> QED
      BY <1>3, <1>4, <1>5, <2>2, <3>1, <3>2
  <2> QED
    BY <1>1, <1>2, <2>1, <2>2 DEF RetryEffect
<1>7. HasRead(l)' /\ Numbered(steps, steps')
  BY <1>1 DEF RetryEffect
<1>8. ASSUME NEW i, B \subseteq A \cup {i}, OwnOn(steps, l) PROVE Cardinality(B) <= Count(l) + 1
  <2>1. IsFiniteSet(A \cup {i}) /\ Cardinality(A \cup {i}) <= Cardinality(A) + 1
        /\ Cardinality(A \cup {i}) \in Nat
    <3>1. CASE i \in A
      <4>1. A \cup {i} = A
        BY <3>1
      <4> QED
        BY <1>5, <4>1
    <3>2. CASE i \notin A
      BY <1>5, <3>2, FS_AddElement
    <3> QED
      BY <3>1, <3>2
  <2>2. Cardinality(B) <= Cardinality(A \cup {i})
    BY <1>8, <2>1, FS_Subset
  <2> QED
    BY <1>3, <1>4, <1>5, <1>8, <2>1, <2>2
<1>9. \A i \in DOMAIN signals : signals[i].num # l
  BY <1>1 DEF RetryInv, Pending
<1>20. PICK r \in Nat : \/ signals' = signals
                        \/ /\ ~Running(l)' /\ ctl # "rework"
                           /\ signals' = Append(signals, [num |-> l, rework |-> r])
  BY <1>1 DEF RetryEffect
<1>21. PICK m : m = [num |-> l, rework |-> r]
  OBVIOUS
<1>22. m.num = l /\ m.rework = r /\ m \in [num : PlanSteps, rework : Nat]
  BY <1>1, <1>21
<1>23. signals' # signals =>
         /\ ~Running(l)' /\ ctl # "rework" /\ signals' = Append(signals, m)
         /\ DOMAIN signals' = 1..(Len(signals) + 1) /\ DOMAIN signals = 1..Len(signals)
         /\ \A k \in 1..(Len(signals) + 1) :
              signals'[k] = IF k = Len(signals) + 1 THEN m ELSE signals[k]
         /\ Len(signals) \in Nat
  <2>1. signals \in Seq([num : PlanSteps, rework : Nat])
    BY DEF StructInv, TypeOK
  <2>2. signals' # signals => ~Running(l)' /\ ctl # "rework" /\ signals' = Append(signals, m)
    BY <1>20, <1>21
  <2>3. ASSUME signals' = Append(signals, m)
        PROVE  /\ DOMAIN signals' = 1..(Len(signals) + 1) /\ DOMAIN signals = 1..Len(signals)
               /\ \A k \in 1..(Len(signals) + 1) :
                    signals'[k] = IF k = Len(signals) + 1 THEN m ELSE signals[k]
               /\ Len(signals) \in Nat
    BY <1>22, <2>1, <2>3, LenProperties, AppendProperties
  <2> QED
    BY <2>2, <2>3
<1>24. signals' # signals /\ ctl \in Going => ctl = "lanes"
  BY <1>23, NoLanesType DEF Going, DeliveryInv
<1>25. \A k \in DOMAIN signals' : signals'[k].num = l => signals'[k] = m /\ signals' # signals
  BY <1>9, <1>23
<1>26. signals' # signals => Signalled(l)'
  BY <1>22, <1>23 DEF Signalled
<1>27. CASE ~OwnOn(steps', l)
  <2>1. Limited(l)' /\ Counted(l)'
    BY <1>6, <1>27 DEF Limited, Counted
  <2>2. Pending(m)' \/ signals' = signals
    BY <1>22, <1>23, <1>27 DEF Pending
  <2> QED
    BY <1>7, <1>24, <1>25, <2>1, <2>2
<1>28. CASE OwnOn(steps', l)
  <2>0. OwnOn(steps, l)
    BY <1>7, <1>28, OwnKept
  <2>10. CASE \/ B \subseteq A /\ Count(l)' = Count(l) /\ signals' = signals
              \/ /\ \E i : B \subseteq A \cup {i}
                 /\ Count(l) < MaxRework /\ Count(l)' = Count(l) + 1 /\ signals' = signals
    <3>1. Cardinality(B) <= Count(l)' /\ Count(l)' <= MaxRework
      <4>1. CASE B \subseteq A /\ Count(l)' = Count(l)
        <5>1. Cardinality(B) <= Cardinality(A)
          BY <1>5, <4>1, FS_Subset
        <5> QED
          BY <1>3, <1>4, <1>5, <2>0, <4>1, <5>1
      <4>2. CASE /\ \E i : B \subseteq A \cup {i}
                 /\ Count(l) < MaxRework /\ Count(l)' = Count(l) + 1
        <5>1. Cardinality(B) <= Count(l) + 1
          BY <1>8, <2>0, <4>2
        <5> QED
          BY <1>3, <4>2, <5>1
      <4> QED
        BY <2>10, <4>1, <4>2
    <3>2. Cardinality(SentOn(steps', l)) <= MaxRework
      BY <1>3, <1>5, <3>1
    <3>3. signals' = signals
      BY <2>10
    <3> QED
      BY <1>2, <1>6, <1>7, <1>9, <3>1, <3>2, <3>3 DEF Limited, Counted
  <2>11. CASE /\ \E i : B \subseteq A \cup {i} /\ \A j \in DOMAIN steps' : steps'[j].of = l => j <= i
              /\ Count(l)' = Count(l)
              /\ signals' = Append(signals, [num |-> l, rework |-> Count(l)])
    <3>1. PICK i : B \subseteq A \cup {i} /\ \A j \in DOMAIN steps' : steps'[j].of = l => j <= i
      BY <2>11
    <3>2. SentOn(steps', l) \subseteq A
      <4>1. ASSUME NEW k \in SentOn(steps', l) PROVE k \in A
        <5>1. PICK j \in DOMAIN steps' : k \in B /\ k \in DOMAIN steps' /\ steps'[j].of = l /\ j > k
          BY <1>2, <4>1 DEF SentOn, SentFor
        <5>2. i # k
          <6>1. j \in Nat /\ k \in Nat
            BY <1>3, <5>1, LenProperties
          <6> QED
            BY <3>1, <5>1, <6>1
        <5> QED
          BY <3>1, <5>1, <5>2
      <4> QED
        BY <4>1
    <3>3. Cardinality(SentOn(steps', l)) <= MaxRework
      <4>1. Cardinality(SentOn(steps', l)) <= Cardinality(A)
        BY <1>5, <3>2, FS_Subset
      <4> QED
        BY <1>3, <1>4, <1>5, <2>0, <4>1
    <3>4. Cardinality(B) <= Count(l) + 1
      BY <1>8, <2>0, <3>1
    <3>5. signals' # signals /\ m.rework = Count(l)
      <4>1. PICK q : q = [num |-> l, rework |-> Count(l)]
        OBVIOUS
      <4>2. /\ q \in [num : PlanSteps, rework : Nat] /\ q.rework = Count(l)
            /\ signals' = Append(signals, q)
        BY <1>1, <1>3, <2>11, <4>1
      <4>3. /\ signals \in Seq([num : PlanSteps, rework : Nat]) /\ Len(signals) \in Nat
        BY LenProperties DEF StructInv, TypeOK
      <4>4. Len(signals') = Len(signals) + 1 /\ signals'[Len(signals) + 1] = q
        BY <4>2, <4>3, AppendProperties
      <4>5. signals' # signals
        BY <4>3, <4>4
      <4>6. q = m
        BY <1>23, <4>3, <4>4, <4>5
      <4> QED
        BY <4>2, <4>5, <4>6
    <3>6. Pending(m)'
      BY <1>2, <1>22, <1>23, <2>11, <3>4, <3>5 DEF Pending
    <3>7. \A k \in DOMAIN signals' : signals'[k].num = l => Pending(signals[k])'
      BY <1>25, <3>6
    <3>8. Limited(l)' /\ Counted(l)'
      BY <1>4, <1>6, <1>23, <1>26, <2>0, <2>11, <3>3, <3>5 DEF Limited, Counted
    <3> QED
      BY <1>7, <1>24, <3>7, <3>8
  <2> QED
    BY <1>1, <1>2, <2>0, <2>10, <2>11 DEF RetryEffect
<1> QED
  BY <1>27, <1>28

(* The lanes keep it: a lane leaves the rework of the other steps alone.    *)
LEMMA LaneStepRetry ==
  ASSUME StructInv, StructInv', SettledInv, DeliveryInv, RetryInv,
         NEW l \in DOMAIN lanes, LaneStep(l)
  PROVE  RetryInv'
<1>1. /\ UNCHANGED <<plan, ctl, resumes>>
      /\ DOMAIN lanes' = DOMAIN lanes /\ \A m \in DOMAIN lanes \ {l} : lanes'[m] = lanes[m]
  BY LaneStepEffect, LaneStepShape DEF LaneEffect
<1>2. ASSUME NEW m \in DOMAIN lanes PROVE lanes'[m].frames \in Seq(Tame(m))'
  <2>1. Tame(m)' = Tame(m)
    BY <1>1 DEF Tame
  <2>2. lanes[m].frames \in Seq(Tame(m))
    BY DEF RetryInv
  <2>3. lanes'[m].frames \in Seq(Tame(m))
    BY <1>1, <2>2, TameKept
  <2> QED
    BY <2>1, <2>3
<1>3. ASSUME Fresh
      PROVE  /\ \A n \in PlanSteps : Limited(n)' /\ Counted(n)'
             /\ \A i \in DOMAIN signals' : Pending(signals[i])'
             /\ ctl \in Going /\ signals' # <<>> => ctl = "lanes"
             /\ \A m \in DOMAIN lanes : HasRead(m)'
  <2>1. /\ Limited(l)' /\ Counted(l)' /\ HasRead(l)'
        /\ \A i \in DOMAIN signals' : signals'[i].num = l => Pending(signals[i])'
        /\ signals' # signals /\ ctl \in Going => ctl = "lanes"
    BY <1>3, OwnRetry
  <2>2. RetryEffect(l)
    BY <1>3, LaneStepReworks
  <2>3. Within(OfLane(l), steps, steps')
    BY LaneStepSettles DEF SettledEffect
  <2>4. /\ \A n \in PlanSteps \ {l} : n \notin OfLane(l)
        /\ DOMAIN lanes \subseteq PlanSteps
        /\ signals \in Seq([num : PlanSteps, rework : Nat])
        /\ signals' \in Seq([num : PlanSteps, rework : Nat])
    BY <1>1, PlanNumbers DEF StructInv, TypeOK, PlanSteps, OfLane
  <2>5. ASSUME NEW n \in PlanSteps \ {l}
        PROVE  /\ OwnOn(steps', n) => OwnOn(steps, n) /\ Count(n)' = Count(n)
               /\ Running(n)' = Running(n)
               /\ SentFor(steps', n) = SentFor(steps, n) /\ SentOn(steps', n) = SentOn(steps, n)
    <3>1. n \notin OfLane(l)
      BY <2>4
    <3>2. Running(n)' = Running(n)
      BY <1>1 DEF Running
    <3>3. OwnOn(steps', n) => OwnOn(steps, n)
      BY <2>2, OwnKept DEF RetryEffect
    <3>4. OwnOn(steps, n) => Count(n)' = Count(n)
      BY <2>2 DEF RetryEffect
    <3> QED
      BY <2>3, <3>1, <3>2, <3>3, <3>4, SentSame
  <2>6. ASSUME NEW n \in PlanSteps \ {l}, OwnOn(disk'.steps, n)
        PROVE  Cardinality(SentOn(disk'.steps, n)) <= MaxRework
    <3>1. n \notin OfLane(l)
      BY <2>4
    <3>2. Limited(n)
      BY <1>3 DEF RetryInv
    <3>3. CASE disk' = disk
      BY <2>6, <3>2, <3>3 DEF Limited
    <3>4. CASE Numbered(steps, disk'.steps) /\ Within(OfLane(l), steps, disk'.steps)
      <4>1. SentOn(disk'.steps, n) = SentOn(steps, n)
        BY <3>1, <3>4, SentSame
      <4>2. OwnOn(steps, n)
        BY <2>6, <3>4, OwnKept
      <4> QED
        BY <3>2, <4>1, <4>2 DEF Limited
    <3> QED
      BY <2>2, <3>3, <3>4 DEF RetryEffect
  <2>7. /\ \A i \in DOMAIN signals' : signals'[i].num # l =>
             i \in DOMAIN signals /\ signals'[i] = signals[i]
        /\ \A i \in DOMAIN signals : i \in DOMAIN signals' /\ signals'[i] = signals[i]
    <3>1. CASE signals' = signals
      BY <3>1
    <3>2. CASE \E s \in Nat : signals' = Append(signals, [num |-> l, rework |-> s])
      <4>0. PICK s \in Nat : signals' = Append(signals, [num |-> l, rework |-> s])
        BY <3>2
      <4>3. PICK m : m = [num |-> l, rework |-> s]
        OBVIOUS
      <4>1. m = [num |-> l, rework |-> s] /\ m.num = l /\ signals' = Append(signals, m)
        BY <4>0, <4>3
      <4>2. /\ DOMAIN signals' = 1..(Len(signals) + 1) /\ DOMAIN signals = 1..Len(signals)
            /\ \A k \in 1..(Len(signals) + 1) :
                 signals'[k] = IF k = Len(signals) + 1 THEN m ELSE signals[k]
            /\ Len(signals) \in Nat
        <5>1. m \in [num : PlanSteps, rework : Nat]
          BY <2>4, <4>1
        <5> QED
          BY <2>4, <4>1, <5>1, LenProperties, AppendProperties
      <4> QED
        BY <4>1, <4>2
    <3> QED
      BY <2>2, <3>1, <3>2 DEF RetryEffect
  <2>8. ASSUME NEW n \in PlanSteps \ {l} PROVE Limited(n)' /\ Counted(n)'
    <3>1. Limited(n) /\ Counted(n)
      BY <1>3 DEF RetryInv
    <3>2. Signalled(n)' = Signalled(n)
      BY <2>7, <2>8 DEF Signalled
    <3>3. Limited(n)'
      BY <2>5, <2>6, <3>1 DEF Limited
    <3>4. Counted(n)'
      BY <1>1, <2>5, <3>1, <3>2 DEF Counted
    <3> QED
      BY <3>3, <3>4
  <2>9. ASSUME NEW i \in DOMAIN signals', signals'[i].num # l PROVE Pending(signals[i])'
    <3>1. i \in DOMAIN signals /\ signals'[i] = signals[i]
      BY <2>7, <2>9
    <3>0. signals[i].num \in PlanSteps \ {l}
      <4>1. signals[i] \in [num : PlanSteps, rework : Nat]
        <5>1. PICK g : g \in Seq([num : PlanSteps, rework : Nat]) /\ g = signals
          BY <2>4
        <5>2. i \in DOMAIN g
          BY <3>1, <5>1
        <5>3. g[i] \in [num : PlanSteps, rework : Nat]
          BY ZenonT(30), <5>1, <5>2, LenProperties
        <5> QED
          BY <5>1, <5>3
      <4> QED
        BY <2>9, <3>1, <4>1
    <3>2. PICK m : m = signals[i] /\ m.num \in PlanSteps \ {l}
      BY <3>0
    <3>3. Pending(m)
      BY <1>3, <3>1, <3>2 DEF RetryInv
    <3>4. Pending(m)'
      BY <2>5, <3>2, <3>3 DEF Pending
    <3> QED
      BY <3>1, <3>2, <3>4
  <2>10. ctl \in Going /\ signals' # <<>> => ctl = "lanes"
    BY <1>3, <2>1 DEF RetryInv
  <2>11. ASSUME NEW m \in DOMAIN lanes \ {l} PROVE HasRead(m)'
    <3>1. HasRead(m)
      BY <1>3 DEF RetryInv
    <3>2. Top(m)' = Top(m)
      BY <1>1 DEF Top
    <3>3. m \in PlanSteps \ {l}
      BY <2>4
    <3>4. /\ Running(m)' = Running(m)
          /\ OwnOn(steps', m) => OwnOn(steps, m) /\ Count(m)' = Count(m)
      BY <2>5, <3>3
    <3>5. Running(m) /\ Top(m).at \in {"agent", "quality"} =>
            Top(m).exec \in DOMAIN steps
      BY TopKnown DEF TopFacts
    <3>6. Numbered(steps, steps')
      BY <2>2 DEF RetryEffect
    <3> QED
      BY <3>1, <3>2, <3>4, <3>5, <3>6 DEF HasRead, Numbered
  <2> QED
    BY <2>1, <2>8, <2>9, <2>10, <2>11
<1> QED
  BY <1>1, <1>2, <1>3 DEF RetryInv, Fresh, PlanSteps

(* A step that ends lanes or leaves them keeps it, as long as it asks for   *)
(* no more of executePlan than before.                                      *)
LEMMA KeepsRetry ==
  ASSUME StructInv, SettledInv, RetryInv, Within({}, steps, steps'), Numbered(steps, steps'),
         disk'.steps \in {disk.steps, steps}, UNCHANGED <<plan, reworkCounts, resumes>>,
         lanes' \in {lanes, NoLanes}, signals' \in {signals, <<>>},
         \/ UNCHANGED <<ctl, signals>>
         \/ /\ ctl' # "rework"
            /\ ctl' \in Going => ctl \in Going /\ (ctl = "lanes" => signals = <<>>)
  PROVE  RetryInv'
<1>1. ASSUME NEW n
      PROVE  /\ SentFor(steps', n) = SentFor(steps, n) /\ SentOn(steps', n) = SentOn(steps, n)
             /\ Count(n)' = Count(n) /\ (Running(n)' => Running(n))
             /\ OwnOn(steps', n) => OwnOn(steps, n)
  <2>1. n \notin {}
    OBVIOUS
  <2>2. Running(n)' => Running(n)
    BY NoLanesType DEF Running
  <2>3. OwnOn(steps', n) => OwnOn(steps, n)
    BY OwnKept
  <2> QED
    BY <2>1, <2>2, <2>3, SentSame DEF Count
<1>2. ASSUME NEW l \in DOMAIN lanes' PROVE lanes'[l].frames \in Seq(Tame(l)')
  <2>1. l \in DOMAIN lanes /\ lanes' = lanes
    BY <1>2, NoLanesType
  <2>2. Tame(l) \subseteq Tame(l)'
    BY DEF Tame
  <2>3. lanes[l].frames \in Seq(Tame(l))
    BY <2>1 DEF RetryInv
  <2> QED
    BY <2>1, <2>2, <2>3, SeqMonotonic
<1>3. ASSUME Fresh
      PROVE  /\ \A n \in PlanSteps : Limited(n)' /\ Counted(n)'
             /\ \A i \in DOMAIN signals' : Pending(signals[i])'
             /\ ctl' \in Going /\ signals' # <<>> => ctl' = "lanes"
             /\ \A l \in DOMAIN lanes' : HasRead(l)'
  <2>1. ASSUME NEW n \in PlanSteps PROVE Limited(n)' /\ Counted(n)'
    <3>1. Limited(n) /\ Counted(n)
      BY <1>3 DEF RetryInv
    <3>2. OwnOn(disk'.steps, n) => Cardinality(SentOn(disk'.steps, n)) <= MaxRework
      BY <3>1 DEF Limited
    <3>3. Limited(n)'
      BY <1>1, <3>1, <3>2 DEF Limited
    <3>4. ctl' \in Going /\ ~Signalled(n)' => ctl \in Going /\ ~Signalled(n)
      <4>1. CASE UNCHANGED <<ctl, signals>>
        BY <4>1 DEF Signalled
      <4>2. CASE ctl' \in Going => ctl \in Going /\ (ctl = "lanes" => signals = <<>>)
        <5>1. ctl \in Going /\ signals # <<>> => ctl = "lanes"
          BY <1>3 DEF RetryInv
        <5>2. signals = <<>> => ~Signalled(n)
          BY DEF Signalled
        <5> QED
          BY <4>2, <5>1, <5>2
      <4> QED
        BY <4>1, <4>2
    <3>5. Counted(n)'
      BY <1>1, <3>1, <3>4 DEF Counted
    <3> QED
      BY <3>3, <3>5
  <2>2. ASSUME NEW i \in DOMAIN signals' PROVE Pending(signals[i])'
    <3>1. signals' = signals /\ i \in DOMAIN signals
      BY <2>2
    <3>2. PICK m : m = signals[i]
      OBVIOUS
    <3>3. Pending(m)
      BY <1>3, <3>1, <3>2 DEF RetryInv
    <3>4. Pending(m)'
      BY <1>1, <3>3 DEF Pending
    <3> QED
      BY <3>1, <3>2, <3>4
  <2>3. ctl' \in Going /\ signals' # <<>> => ctl' = "lanes"
    BY <1>3 DEF RetryInv
  <2>4. ASSUME NEW l \in DOMAIN lanes' PROVE HasRead(l)'
    <3>1. l \in DOMAIN lanes /\ lanes' = lanes
      BY <2>4, NoLanesType
    <3>2. HasRead(l)
      BY <1>3, <3>1 DEF RetryInv
    <3>3. /\ Running(l)' = Running(l) /\ Top(l)' = Top(l) /\ Count(l)' = Count(l)
          /\ OwnOn(steps', l) => OwnOn(steps, l)
      BY <1>1, <3>1 DEF Running, Top
    <3>4. Running(l) /\ Top(l).at \in {"agent", "quality"} => Top(l).exec \in DOMAIN steps
      BY <3>1, TopKnown DEF TopFacts
    <3> QED
      BY <3>2, <3>3, <3>4 DEF HasRead, Numbered
  <2> QED
    BY <2>1, <2>2, <2>3, <2>4
<1> QED
  BY <1>2, <1>3 DEF RetryInv, Fresh, PlanSteps

(* A new group starts with no signals, and none of its calls has read a     *)
(* count yet.                                                               *)
LEMMA LaunchRetry ==
  ASSUME StructInv, RetryInv, NEW G \in SUBSET PlanSteps, NEW d \in BOOLEAN, Launch(G, d),
         ctl = "loop"
  PROVE  RetryInv'
<1>1. /\ UNCHANGED <<plan, steps, disk, reworkCounts, resumes>>
      /\ signals' = <<>> /\ ctl' = "lanes" /\ DOMAIN lanes' = G
      /\ \A l \in G : lanes'[l].frames = <<StartFrame(l, l, d)>>
  BY DEF Launch
<1>2. ASSUME NEW l \in G
      PROVE  lanes'[l].frames \in Seq(Tame(l)') /\ Head(lanes'[l].frames).at = "start"
  <2>1. PICK g : g = StartFrame(l, l, d)
    OBVIOUS
  <2>2. g \in FrameOf(l) /\ g.of = l /\ g.at = "start"
    <3>1. g.of = l /\ g.at = "start"
      BY <2>1 DEF StartFrame
    <3>2. l \in Nat
      BY PlanNumbers DEF StructInv, TypeOK, PlanSteps
    <3>3. StartFrame(l, l, d) \in FrameOf(l)
      BY <3>2, StartFrameType
    <3> QED
      BY <2>1, <3>1, <3>3
  <2>3. g \in Tame(l)'
    BY <1>1, <2>2 DEF Tame
  <2>4. <<g>> \in Seq(Tame(l)') /\ Head(<<g>>) = g
    BY <2>3
  <2> QED
    BY <1>1, <2>1, <2>2, <2>4
<1>3. ASSUME Fresh, NEW n \in PlanSteps PROVE Limited(n)' /\ Counted(n)'
  <2>1. Limited(n) /\ Counted(n) /\ signals = <<>>
    BY <1>3 DEF RetryInv, Going
  <2>2. OwnOn(steps, n) => Cardinality(SentFor(steps, n)) <= Count(n)
    BY <2>1 DEF Counted, Signalled, Going
  <2>3. Count(n)' = Count(n)
    BY <1>1 DEF Count
  <2> QED
    BY <1>1, <2>1, <2>2, <2>3 DEF Limited, Counted
<1>4. ASSUME NEW l \in G PROVE HasRead(l)'
  BY <1>2 DEF HasRead, Top
<1> QED
  BY <1>1, <1>2, <1>3, <1>4 DEF RetryInv, Fresh, PlanSteps

(* The calls that run the merged rework plan of a group are tame, and the   *)
(* innermost one has not read a count yet.                                  *)
LEMMA GroupTame ==
  ASSUME plan \in Plans, NEW n \in PlanSteps, NEW q \in ReworkPlans(n), NEW fr,
         fr = Proceed(<<[StartFrame(n, n, FALSE) EXCEPT !.at = "replan", !.todo = q]>>)
  PROVE  fr \in Seq({f \in FrameOf(n) : ~f.defer}) /\ (fr # <<>> => Head(fr).at = "start")
<1>0. PICK T : T = {f \in FrameOf(n) : ~f.defer}
  OBVIOUS
<1>1. PICK g : g = StartFrame(n, n, FALSE)
  OBVIOUS
<1>2. PICK f : f = [g EXCEPT !.at = "replan", !.todo = q]
  OBVIOUS
<1>3. n \in Nat \ {0}
  BY PlanNumbers DEF PlanSteps
<1>4. q \in Seq(Nat)
  BY <1>3, ReworkPlansType
<1>5. g \in FrameOf(n)
  BY <1>1, <1>3, StartFrameType
<1>6. ~g.defer
  BY <1>1 DEF StartFrame
<1>7. f \in FrameOf(n) /\ f.defer = g.defer
  BY <1>2, <1>4, <1>5 DEF FrameOf
<1>8. PICK c \in Seq(FrameOf(n)) : c = <<f>>
  BY <1>7, ShortSequences
<1>9. c # <<>> /\ Head(c) = f /\ Tail(c) = <<>> /\ fr = Proceed(c)
  BY <1>1, <1>2, <1>8
<1>10. PICK e \in Seq(T) : e = <<>>
  BY EmptySeq
<1>13. e \in Seq(T)
  OBVIOUS
<1>14. ASSUME NEW a \in T, NEW d \in Seq(T) PROVE <<a>> \o d \in Seq(T)
  BY PutOnTop, Zenon
<1>12. Proceeded(n, fr, f, e)
  BY <1>8, <1>9, <1>10, ProceedShape
<1>11. fr \in Seq(T)
  <2>1. CASE fr = <<>>
    BY <1>10, <2>1
  <2>2. CASE \E a \in FrameOf(n) : ~a.defer /\ fr = <<a>> \o e
    <3>1. PICK a \in T : fr = <<a>> \o e
      BY <1>0, <2>2
    <3> QED
      BY <1>13, <1>14, <3>1
  <2>3. CASE \E a, h \in FrameOf(n) : /\ ~a.defer /\ h.defer = f.defer
                                      /\ fr = <<a>> \o (<<h>> \o e)
    <3>1. PICK a, h \in T : fr = <<a>> \o (<<h>> \o e)
      BY <1>0, <1>6, <1>7, <2>3
    <3>2. <<h>> \o e \in Seq(T)
      BY <1>13, <1>14, <3>1
    <3> QED
      BY <1>14, <3>1, <3>2
  <2> QED
    BY <1>12, <2>1, <2>2, <2>3 DEF Proceeded
<1> QED
  BY <1>0, <1>8, <1>9, <1>11, ProceedRests

(* Planning the merged rework of a group counts what its members signalled. *)
LEMMA GroupReplansRetry ==
  ASSUME StructInv, StructInv', RetryInv, GroupReplans
  PROVE  RetryInv'
<1>1. /\ UNCHANGED <<plan, steps, disk, resumes>> /\ signals' = <<>>
      /\ ctl = "lanes" /\ ctl' \in {"rework", "unwind"} /\ ~ReworkExceeded
      /\ DOMAIN reworkCounts' = DOMAIN reworkCounts \cup {signals[i].num : i \in DOMAIN signals}
  BY DEF GroupReplans, WithCounts
<1>2. signals \in Seq([num : PlanSteps, rework : Nat]) /\ plan \in Plans
  BY DEF StructInv, TypeOK
<1>3. \A i \in DOMAIN signals : signals[i].num \in PlanSteps /\ signals[i].rework \in Nat
  <2>1. \A i \in DOMAIN signals : signals[i] \in [num : PlanSteps, rework : Nat]
    BY <1>2, LenProperties
  <2> QED
    BY <2>1
<1>4. ASSUME NEW n, ~Signalled(n) PROVE Count(n)' = Count(n)
  <2>1. n \in DOMAIN reworkCounts' =>
          n \in DOMAIN reworkCounts /\ reworkCounts'[n] = reworkCounts[n]
    BY <1>4 DEF GroupReplans, WithCounts, Signalled
  <2>2. n \in DOMAIN reworkCounts' <=> n \in DOMAIN reworkCounts
    BY <1>1, <1>4 DEF Signalled
  <2> QED
    BY <2>1, <2>2 DEF Count
<1>5. ASSUME NEW n, Signalled(n)
      PROVE  \E i \in DOMAIN signals : signals[i].num = n /\ Count(n)' = signals[i].rework + 1
  <2>1. PICK i : i = CHOOSE k \in DOMAIN signals : signals[k].num = n
    OBVIOUS
  <2>2. i \in DOMAIN signals /\ signals[i].num = n
    BY <1>5, <2>1 DEF Signalled
  <2>3. n \in DOMAIN reworkCounts' /\ reworkCounts'[n] = signals[i].rework + 1
    BY <2>1, <2>2 DEF GroupReplans, WithCounts
  <2> QED
    BY <2>2, <2>3 DEF Count
<1>6. ASSUME NEW l \in DOMAIN lanes'
      PROVE  lanes'[l].frames \in Seq(Tame(l)') /\ HasRead(l)'
  <2>0. lanes' # NoLanes
    BY <1>6, NoLanesType
  <2>9. PICK q \in ReworkPlans(signals[1].num) :
          LET F == Proceed(<<[StartFrame(signals[1].num, signals[1].num, FALSE) EXCEPT !.at = "replan",
                                                                     !.todo = q]>>)
          IN  lanes' = [k \in {signals[1].num} |->
                [frames |-> F, result |-> IF F = <<>> THEN "completed" ELSE "running"]]
    BY <2>0 DEF GroupReplans
  <2>8. PICK n : n = signals[1].num
    OBVIOUS
  <2>10. PICK fr : fr = Proceed(<<[StartFrame(n, n, FALSE) EXCEPT !.at = "replan", !.todo = q]>>)
    OBVIOUS
  <2>1. /\ q \in ReworkPlans(n)
        /\ fr = Proceed(<<[StartFrame(n, n, FALSE) EXCEPT !.at = "replan", !.todo = q]>>)
        /\ lanes' = [k \in {n} |->
             [frames |-> fr, result |-> IF fr = <<>> THEN "completed" ELSE "running"]]
    BY <2>8, <2>9, <2>10
  <2>2. /\ l = n /\ lanes'[l].frames = fr
        /\ lanes'[l].result = IF fr = <<>> THEN "completed" ELSE "running"
    BY <1>6, <2>1
  <2>3. n \in PlanSteps
    BY <1>1, <1>6, <2>2 DEF StructInv, TypeOK, PlanSteps
  <2>4. fr \in Seq({f \in FrameOf(n) : ~f.defer}) /\ (fr # <<>> => Head(fr).at = "start")
    BY <1>2, <2>1, <2>3, GroupTame
  <2>5. {f \in FrameOf(n) : ~f.defer} \subseteq Tame(n)'
    BY DEF Tame
  <2>6. fr \in Seq(Tame(n)')
    BY <2>4, <2>5, SeqMonotonic
  <2>7. HasRead(l)'
    BY <2>2, <2>4 DEF HasRead, Running, Top
  <2> QED
    BY <2>2, <2>6, <2>7
<1>7. ASSUME Fresh, NEW n \in PlanSteps PROVE Limited(n)' /\ Counted(n)'
  <2>1. Limited(n) /\ Counted(n)
    BY <1>7 DEF RetryInv
  <2>0. CASE ~OwnOn(steps, n)
    BY <1>1, <2>0, <2>1 DEF Limited, Counted
  <2> SUFFICES ASSUME OwnOn(steps, n) PROVE Limited(n)' /\ Counted(n)'
    BY <2>0
  <2>2. /\ IsFiniteSet(SentFor(steps, n)) /\ Cardinality(SentFor(steps, n)) \in Nat
        /\ Count(n) \in Nat /\ MaxRework \in Nat
    BY SentFinite, CountType, BoundsAssumption DEF StructInv, TypeOK
  <2>3. CASE Signalled(n)
    <3>1. PICK i \in DOMAIN signals : signals[i].num = n /\ Count(n)' = signals[i].rework + 1
      BY <1>5, <2>3
    <3>2. /\ signals[i].rework = Count(n)
          /\ Cardinality(SentFor(steps, n)) <= Count(n) + 1
      BY <1>7, <3>1 DEF RetryInv, Pending
    <3>3. ~(signals[i].rework >= MaxRework)
      BY <1>1 DEF ReworkExceeded
    <3>4. Count(n)' = Count(n) + 1 /\ Count(n)' <= MaxRework
      BY <2>2, <3>1, <3>2, <3>3
    <3> QED
      BY <1>1, <2>1, <3>2, <3>4 DEF Limited, Counted
  <2>4. CASE ~Signalled(n)
    <3>1. Cardinality(SentFor(steps, n)) <= Count(n)
      BY <1>1, <2>1, <2>4 DEF Counted, Going
    <3> QED
      BY <1>1, <1>4, <2>1, <2>4, <3>1 DEF Limited, Counted
  <2> QED
    BY <2>3, <2>4
<1> QED
  BY <1>1, <1>6, <1>7 DEF RetryInv, Fresh, PlanSteps

(* executePlan keeps it: it begins a group, counts its reworks, or ends it. *)
LEMMA EngineRetry ==
  ASSUME StructInv, StructInv', SettledInv, RetryInv, Engine
  PROVE  RetryInv'
<1> USE DEF Going
<1>1. CASE LaunchParallel \/ LaunchSequential
  <2>1. PICK G \in SUBSET Ready, d \in BOOLEAN : Launch(G, d) /\ ctl = "loop"
    BY <1>1 DEF LaunchParallel, LaunchSequential
  <2>2. G \in SUBSET PlanSteps
    BY DEF Ready
  <2> QED
    BY <2>1, <2>2, LaunchRetry
<1>2. CASE GroupReplans
  BY <1>2, GroupReplansRetry
<1>3. Within({}, steps, steps) /\ Numbered(steps, steps)
  BY DEF Within, Numbered
<1>4. CASE ReviewApproved
  <2>1. \A i \in DOMAIN steps : steps[i] \in Execution
    BY LenProperties DEF StructInv, TypeOK
  <2>2. /\ DOMAIN steps' = DOMAIN steps
        /\ \A i \in DOMAIN steps : /\ steps'[i].num = steps[i].num /\ steps'[i].of = steps[i].of
                                   /\ steps'[i].status = steps[i].status
    BY <1>4, <2>1 DEF ReviewApproved, Execution
  <2>3. Within({}, steps, steps') /\ Numbered(steps, steps')
    BY <2>2 DEF Within, Numbered
  <2>4. /\ UNCHANGED <<plan, disk, reworkCounts, resumes, lanes, signals>>
        /\ ctl = "gate_review" /\ ctl' = "gates"
    BY <1>4 DEF ReviewApproved
  <2> QED
    BY <2>3, <2>4, KeepsRetry
<1>5. ASSUME UNCHANGED <<plan, steps, disk, reworkCounts, resumes>>,
             lanes' \in {lanes, NoLanes}, signals' \in {signals, <<>>},
             \/ UNCHANGED <<ctl, signals>>
             \/ /\ ctl' # "rework"
                /\ ctl' \in Going => ctl \in Going /\ (ctl = "lanes" => signals = <<>>)
      PROVE  RetryInv'
  BY <1>3, <1>5, KeepsRetry
<1>6. CASE PlanDeadlock \/ GroupFails \/ ReworkDone \/ GroupCompletes \/ LaneThrew
  BY <1>5, <1>6 DEF PlanDeadlock, GroupFails, ReworkDone, GroupCompletes, LaneThrew, FailRun
<1>7. CASE SkipConfirmation \/ AskConfirmation \/ ConfirmationGiven \/ ConfirmationRefused
  BY <1>5, <1>7
  DEF SkipConfirmation, AskConfirmation, ConfirmationGiven, ConfirmationRefused, FailRun
<1>8. CASE SkipGate \/ RequestReview \/ ReviewRejected \/ GatesDone
  BY <1>5, <1>8 DEF SkipGate, RequestReview, ReviewRejected, GatesDone, FailRun
<1>9. CASE PlanCompleted \/ EngineThrows \/ Teardown \/ Finalize
  BY <1>5, <1>9 DEF PlanCompleted, EngineThrows, Teardown, Finalize
<1> QED
  BY <1>1, <1>2, <1>4, <1>6, <1>7, <1>8, <1>9 DEF Engine

(* The environment keeps it: a dead process has counted nothing, and a      *)
(* resumed run makes no claim for what came before.                         *)
LEMMA EnvironmentRetry ==
  ASSUME StructInv, StructInv', GateInv, SettledInv, RetryInv, Environment
  PROVE  RetryInv'
<1>0. Within({}, steps, steps) /\ Numbered(steps, steps)
  BY DEF Within, Numbered
<1>1. CASE FlushRunState \/ CancelSession
  <2>1. /\ UNCHANGED <<plan, steps, reworkCounts, resumes, lanes, ctl, signals>>
        /\ disk'.steps \in {disk.steps, steps}
    BY <1>1 DEF FlushRunState, CancelSession, RunRecord
  <2> QED
    BY <1>0, <2>1, KeepsRetry
<1>2. CASE ProcessDies
  <2>1. /\ UNCHANGED <<plan, disk, resumes>> /\ ctl' = "down" /\ steps' = disk.steps
        /\ signals' = <<>> /\ DOMAIN lanes' = {} /\ reworkCounts' = NoCounts
    BY <1>2, NoLanesType DEF ProcessDies
  <2>2. ASSUME Fresh, NEW n \in PlanSteps PROVE Limited(n)' /\ Counted(n)'
    <3>1. OwnOn(disk.steps, n) => Cardinality(SentOn(disk.steps, n)) <= MaxRework
      BY <2>2 DEF RetryInv, Limited
    <3>2. Count(n)' = 0 /\ MaxRework \in Nat
      BY <2>1, NoLanesType, BoundsAssumption DEF Count
    <3> QED
      BY <2>1, <3>1, <3>2 DEF Limited, Counted, Running, Going
  <2> QED
    BY <2>1, <2>2 DEF RetryInv, Fresh, PlanSteps
<1>3. CASE ResumeTask
  <2>1. resumes \in Nat /\ resumes' = resumes + 1 /\ UNCHANGED lanes
    BY <1>3, BoundsAssumption DEF ResumeTask, StructInv, TypeOK
  <2>2. DOMAIN lanes' = {}
    BY <1>3, <2>1, NoLanesType DEF ResumeTask, GateInv
  <2> QED
    BY <2>1, <2>2 DEF RetryInv, Fresh
<1> QED
  BY <1>1, <1>2, <1>3 DEF Environment

(* For every plan, every planner and every interleaving of lanes: no plan   *)
(* step whose number no rework step of the run was given is sent back and   *)
(* executed again more than max_rework_cycles times, in a run that was      *)
(* never resumed (orchestration-service.ts:1031-1110, 1410-1490,            *)
(* 1520-1580).                                                              *)
THEOREM RetriesBounded == Spec => []RetriesWithinLimit
<1>1. /\ StructInv /\ StructInv' /\ GateInv /\ SettledInv /\ DeliveryInv /\ RetryInv /\ [Next]_vars
      => RetryInv'
  <2> SUFFICES ASSUME StructInv, StructInv', GateInv, SettledInv, DeliveryInv, RetryInv,
                      [Next]_vars
               PROVE  RetryInv'
    OBVIOUS
  <2>1. CASE Lanes
    BY <2>1, LaneStepRetry DEF Lanes
  <2>2. CASE UNCHANGED vars
    <3>1. Within({}, steps, steps) /\ Numbered(steps, steps)
      BY DEF Within, Numbered
    <3> QED
      BY <2>2, <3>1, KeepsRetry DEF vars
  <2> QED
    BY <2>1, <2>2, EngineRetry, EnvironmentRetry DEF Next, Quiet
<1>2. StructInv /\ RetryInv => RetriesWithinLimit
  <2> SUFFICES ASSUME StructInv, RetryInv, Fresh, NEW n \in PlanSteps, OwnNumber(n)
               PROVE  Cardinality(SentBack(n)) <= MaxRework
    BY DEF RetriesWithinLimit
  <2>1. SentBack(n) = SentOn(steps, n)
    <3>1. DOMAIN steps \subseteq Nat
      BY LenProperties DEF StructInv, TypeOK
    <3>2. \A i, j \in DOMAIN steps : ~(j <= i) <=> j > i
      BY <3>1
    <3>3. \A i \in DOMAIN steps : steps[i].of = n =>
            (~IsLatest(i) <=> \E j \in DOMAIN steps : steps[j].of = n /\ j > i)
      BY <3>2 DEF Executions, IsLatest
    <3> QED
      BY <3>3 DEF SentBack, SentOn, SentFor, Executions
  <2>2. OwnOn(steps, n)
    BY DEF OwnNumber, OwnOn
  <2> QED
    BY <2>1, <2>2 DEF RetryInv, Limited
<1> QED
  BY <1>1, <1>2, InitStruct, NextStruct, InitRetry, SpecSettled, SpecDelivery, PTL DEF Spec

-----------------------------------------------------------------------------
(* The executions that are recorded as running *)

(* NoOrphanExecution needs to know which call an execution in progress      *)
(* belongs to: an innermost one whose agent is at work, of one lane only;   *)
(* the calls below it wait with executions that are over.                   *)
Claims(s, fr) ==
  \A k \in DOMAIN fr :
    fr[k].exec # 0 => /\ fr[k].exec \in DOMAIN s
                      /\ s[fr[k].exec].status = "running" <=> k = 1 /\ fr[k].at = "agent"
Owned(i) == \E l \in Working : Top(l).exec = i
Watched == ctl \notin {"down", "ended"} /\ (ctl = "finally" => status = "completed")
OwnerInv ==
  /\ \A l \in DOMAIN lanes : /\ Claims(steps, lanes[l].frames)
                             /\ Running(l) \/ lanes[l].frames = <<>>
  /\ \A l, m \in Working : Top(l).exec = Top(m).exec => l = m
  /\ Watched /\ ~Failing => \A i \in DOMAIN steps : steps[i].status = "running" => Owned(i)

(* The calls F hold no execution but those of f and of the calls c, and no  *)
(* agent is at work in the innermost one.                                   *)
Inherits(F, f, c) ==
  \A k \in DOMAIN F : /\ F[k].exec \in {0, f.exec} \cup {c[j].exec : j \in DOMAIN c}
                      /\ k = 1 => F[k].at # "agent"

(* A new call on top of the old ones inherits from them. *)
LEMMA TopInherits ==
  ASSUME NEW l, NEW g \in FrameOf(l), NEW c \in Seq(FrameOf(l)), NEW f,
         g.at # "agent", g.exec \in {0, f.exec}
  PROVE  Inherits(<<g>> \o c, f, c)
<1>1. /\ DOMAIN (<<g>> \o c) = 1..(Len(c) + 1) /\ DOMAIN c = 1..Len(c) /\ Len(c) \in Nat
      /\ \A i \in 1..(Len(c) + 1) : (<<g>> \o c)[i] = IF i = 1 THEN g ELSE c[i - 1]
  BY OnTop
<1>2. \A i \in 2..(Len(c) + 1) : i - 1 \in DOMAIN c
  BY <1>1
<1> QED
  BY <1>1, <1>2 DEF Inherits

(* So do the calls that go on after it. *)
LEMMA ProceedInherits ==
  ASSUME NEW l, NEW h \in FrameOf(l), NEW d \in Seq(FrameOf(l)), NEW p, p = Proceed(<<h>> \o d)
  PROVE  Inherits(p, h, d)
<1>1. PICK q \in Seq(FrameOf(l)) : q = <<h>> \o d /\ q # <<>> /\ Head(q) = h /\ Tail(q) = d
  BY PutOnTop
<1>2. Proceeded(l, p, h, d)
  BY <1>1, ProceedShape
<1>3. CASE p = <<>>
  BY <1>3 DEF Inherits
<1>4. CASE \E g \in FrameOf(l) : g.at = "start" /\ g.exec = 0 /\ p = <<g>> \o d
  BY <1>4, TopInherits
<1>5. CASE \E g, k \in FrameOf(l) : /\ g.at = "start" /\ g.exec = 0 /\ k.exec = h.exec
                                    /\ p = <<g>> \o (<<k>> \o d)
  <2>1. PICK g, k \in FrameOf(l) : /\ g.at = "start" /\ g.exec = 0 /\ k.exec = h.exec
                                   /\ p = <<g>> \o (<<k>> \o d)
    BY <1>5
  <2>2. PICK e \in Seq(FrameOf(l)) : e = <<k>> \o d
    BY PutOnTop
  <2>3. /\ DOMAIN e = 1..(Len(d) + 1) /\ DOMAIN d = 1..Len(d) /\ Len(d) \in Nat
        /\ \A i \in 1..(Len(d) + 1) : e[i] = IF i = 1 THEN k ELSE d[i - 1]
    BY <2>2, OnTop
  <2>4. \A j \in DOMAIN e : e[j].exec \in {h.exec} \cup {d[i].exec : i \in DOMAIN d}
    <3>1. \A j \in DOMAIN e : j = 1 \/ (j - 1 \in DOMAIN d /\ e[j] = d[j - 1])
      BY <2>3
    <3>2. 1 \in DOMAIN e /\ e[1] = k
      BY <2>3
    <3> QED
      BY <2>1, <3>1, <3>2
  <2>5. Inherits(p, h, e)
    BY <2>1, <2>2, TopInherits
  <2> QED
    BY <2>4, <2>5 DEF Inherits
<1> QED
  BY <1>2, <1>3, <1>4, <1>5 DEF Proceeded

(* A lane that ends has no calls left. *)
LEMMA EndsEmpty ==
  ASSUME StructInv, NEW l \in DOMAIN lanes, LaneStep(l)
  PROVE  Running(l)' \/ lanes'[l].frames = <<>>
<1>1. ASSUME NEW fr, NEW r, SetLane(l, fr, r), r = "running" \/ fr = <<>>
      PROVE  Running(l)' \/ lanes'[l].frames = <<>>
  BY <1>1 DEF SetLane, Running
<1>2. ASSUME LaneFails(l) PROVE lanes'[l].frames = <<>>
  BY <1>2 DEF LaneFails, SetLane
<1>3. ASSUME StepCompletes(l) PROVE Running(l)' \/ lanes'[l].frames = <<>>
  <2>1. CASE Callers(l) # <<>>
    <3>1. PICK p : p = Proceed(Callers(l))
      OBVIOUS
    <3>2. SetLane(l, p, IF p = <<>> THEN "completed" ELSE "running")
      BY <1>3, <2>1, <3>1 DEF StepCompletes
    <3>3. CASE p = <<>>
      BY <1>1, <3>2, <3>3
    <3>4. CASE p # <<>>
      <4>1. SetLane(l, p, "running")
        BY <3>2, <3>4
      <4> QED
        BY <1>1, <4>1
    <3> QED
      BY <3>3, <3>4
  <2>2. CASE Callers(l) = <<>>
    <3>1. \E r : SetLane(l, <<>>, r)
      BY <1>3, <2>2 DEF StepCompletes
    <3> QED
      BY <1>1, <3>1
  <2> QED
    BY <2>1, <2>2
<1>4. CASE StartAgent(l) \/ SubWorktreeFails(l) \/ StartThrows(l) \/ AgentSignalsRework(l)
  <2>1. \E fr, r : SetLane(l, fr, r) /\ (r = "running" \/ fr = <<>>)
    BY <1>4 DEF StartAgent, SubWorktreeFails, StartThrows, AgentSignalsRework
  <2> QED
    BY <1>1, <2>1
<1>5. CASE LimitReached(l) \/ CommitFails(l) \/ AgentFails(l)
  BY <1>2, <1>5 DEF LimitReached, CommitFails, AgentFails
<1>6. CASE AgentCompletes(l) \/ QualityGatePasses(l)
  <2>1. StepCompletes(l) \/ \E fr : SetLane(l, fr, "running")
    BY <1>6 DEF AgentCompletes, QualityGatePasses
  <2> QED
    BY <1>1, <1>3, <2>1
<1>7. CASE AgentNeedsRework(l) \/ QualityGateFails(l)
  <2>1. LaneFails(l) \/ \E fr : SetLane(l, fr, "running")
    BY <1>7 DEF AgentNeedsRework, QualityGateFails
  <2> QED
    BY <1>1, <1>2, <2>1
<1> QED
  BY <1>4, <1>5, <1>6, <1>7 DEF LaneStep

(* What a mark does to the status of an execution *)
LEMMA MarkStatus ==
  ASSUME NEW s \in Seq(Execution), NEW i \in Nat, NEW st \in StepStatus, NEW t, t = Mark(s, i, st)
  PROVE  /\ t \in Seq(Execution) /\ DOMAIN t = DOMAIN s
         /\ \A j \in DOMAIN s : t[j].status = IF j = i THEN st ELSE s[j].status
<1>1. s \in [1..Len(s) -> Execution] /\ DOMAIN s = 1..Len(s)
  BY LenProperties
<1>2. t \in Seq(Execution) /\ DOMAIN t = DOMAIN s
  BY MarkType
<1>3. \A j \in DOMAIN s : t[j].status = IF j = i THEN st ELSE s[j].status
  BY <1>1 DEF Mark, Execution
<1> QED
  BY <1>2, <1>3

(* A new execution is the last one, and running. *)
LEMMA BegunStatus ==
  ASSUME steps \in Seq(Execution), NEW f, f.num \in Nat, f.of \in Nat, NEW b, b = Begun(f)
  PROVE  /\ b \in Seq(Execution) /\ Len(b) = Len(steps) + 1 /\ Len(steps) \in Nat
         /\ DOMAIN steps = 1..Len(steps) /\ DOMAIN b = 1..(Len(steps) + 1)
         /\ \A i \in DOMAIN steps : b[i].status = steps[i].status
         /\ b[Len(b)].status = "running"
<1> DEFINE e == [num |-> f.num, of |-> f.of, status |-> "running", reviewed |-> FALSE]
<1>1. e \in Execution /\ b = Append(steps, e)
  BY DEF Execution, StepStatus, Begun
<1> HIDE DEF e
<1>2. /\ Len(b) = Len(steps) + 1 /\ b \in Seq(Execution) /\ Len(steps) \in Nat
      /\ \A i \in 1..(Len(steps) + 1) : b[i] = IF i = Len(steps) + 1 THEN e ELSE steps[i]
  BY <1>1, AppendProperties, LenProperties
<1>3. DOMAIN b = 1..(Len(steps) + 1) /\ DOMAIN steps = 1..Len(steps) /\ Len(steps) \in Nat
  BY <1>2, LenProperties
<1>4. e.status = "running"
  BY DEF e
<1> QED
  BY <1>2, <1>3, <1>4

(* The claims of a lane, of its innermost call and of the calls below it    *)
LEMMA ClaimsOnTop ==
  ASSUME NEW l, NEW f \in FrameOf(l), NEW c \in Seq(FrameOf(l)), NEW s
  PROVE  Claims(s, <<f>> \o c) <=>
           /\ f.exec # 0 => /\ f.exec \in DOMAIN s
                            /\ s[f.exec].status = "running" <=> f.at = "agent"
           /\ \A j \in DOMAIN c : c[j].exec # 0 => /\ c[j].exec \in DOMAIN s
                                                   /\ s[c[j].exec].status # "running"
<1>1. PICK fr : fr = <<f>> \o c
  OBVIOUS
<1>2. /\ DOMAIN fr = 1..(Len(c) + 1) /\ DOMAIN c = 1..Len(c) /\ Len(c) \in Nat
      /\ \A i \in 1..(Len(c) + 1) : fr[i] = IF i = 1 THEN f ELSE c[i - 1]
  BY <1>1, OnTop
<1>3. 1 \in DOMAIN fr /\ fr[1] = f
  BY <1>2
<1>4. \A j \in DOMAIN c : j + 1 \in DOMAIN fr /\ fr[j + 1] = c[j] /\ j + 1 # 1
  BY <1>2
<1>5. \A i \in DOMAIN fr : i # 1 => i - 1 \in DOMAIN c /\ fr[i] = c[i - 1]
  BY <1>2
<1>6. ASSUME Claims(s, fr)
      PROVE  /\ f.exec # 0 => /\ f.exec \in DOMAIN s
                              /\ s[f.exec].status = "running" <=> f.at = "agent"
             /\ \A j \in DOMAIN c : c[j].exec # 0 => /\ c[j].exec \in DOMAIN s
                                                     /\ s[c[j].exec].status # "running"
  <2>1. f.exec # 0 => /\ f.exec \in DOMAIN s
                      /\ s[f.exec].status = "running" <=> f.at = "agent"
    BY <1>3, <1>6 DEF Claims
  <2>2. ASSUME NEW j \in DOMAIN c, c[j].exec # 0
        PROVE  c[j].exec \in DOMAIN s /\ s[c[j].exec].status # "running"
    <3>1. PICK k \in DOMAIN fr : k = j + 1 /\ fr[k] = c[j] /\ k # 1
      BY <1>4
    <3> QED
      BY <1>6, <2>2, <3>1 DEF Claims
  <2> QED
    BY <2>1, <2>2
<1>7. ASSUME f.exec # 0 => /\ f.exec \in DOMAIN s
                           /\ s[f.exec].status = "running" <=> f.at = "agent",
             \A j \in DOMAIN c : c[j].exec # 0 => /\ c[j].exec \in DOMAIN s
                                                  /\ s[c[j].exec].status # "running"
      PROVE  Claims(s, fr)
  <2>1. ASSUME NEW k \in DOMAIN fr, fr[k].exec # 0
        PROVE  /\ fr[k].exec \in DOMAIN s
               /\ s[fr[k].exec].status = "running" <=> k = 1 /\ fr[k].at = "agent"
    <3>1. CASE k = 1
      <4>1. fr[k] = f
        BY <1>3, <3>1
      <4> QED
        <5>1. f.exec # 0 => /\ f.exec \in DOMAIN s
                            /\ s[f.exec].status = "running" <=> f.at = "agent"
          BY <1>7
        <5>2. f.exec # 0
          BY <2>1, <4>1
        <5> QED
          BY <3>1, <4>1, <5>1, <5>2
    <3>2. CASE k # 1
      <4>1. PICK j \in DOMAIN c : fr[k] = c[j]
        BY <1>5, <3>2
      <4> QED
        BY <1>7, <2>1, <3>2, <4>1
    <3> QED
      BY <3>1, <3>2
  <2> QED
    BY <2>1 DEF Claims
<1> QED
  BY <1>1, <1>6, <1>7

(* What a step of a lane does to the executions in progress: it begins one  *)
(* with an innermost call of its own, or it ends the one it has and goes on *)
(* with calls that have none; the others go on.                             *)
OwnerEffect(l) ==
  /\ \A i \in DOMAIN steps :
       /\ i \in DOMAIN steps'
       /\ ~(l \in Working /\ i = Top(l).exec) =>
            (steps'[i].status = "running" <=> steps[i].status = "running")
  /\ l \in Working => steps'[Top(l).exec].status # "running"
  /\ Running(l)' \/ lanes'[l].frames = <<>>
  /\ \/ /\ l \notin Working /\ Running(l)'
        /\ \E g \in FrameOf(l) : /\ g.at = "agent" /\ g.exec = Len(steps) + 1
                                 /\ lanes'[l].frames = <<g>> \o Callers(l)
        /\ DOMAIN steps' = 1..(Len(steps) + 1) /\ steps'[Len(steps) + 1].status = "running"
     \/ /\ Inherits(lanes'[l].frames, Top(l), Callers(l))
        /\ DOMAIN steps' = DOMAIN steps \/ lanes'[l].result \in {"failed", "thrown"}

(* The executions after a step that marks one with a status of a call over  *)
LEMMA MarkEffect ==
  ASSUME steps \in Seq(Execution), NEW l, NEW e \in Nat, NEW st \in StepStatus, st # "running",
         steps' = Mark(steps, e, st), e \in DOMAIN steps,
         l \in Working => Top(l).exec = e,
         l \notin Working => steps[e].status # "running"
  PROVE  /\ DOMAIN steps' = DOMAIN steps
         /\ \A i \in DOMAIN steps :
              ~(l \in Working /\ i = Top(l).exec) =>
                (steps'[i].status = "running" <=> steps[i].status = "running")
         /\ l \in Working => steps'[Top(l).exec].status # "running"
<1>1. PICK t : t = Mark(steps, e, st)
  OBVIOUS
<1>2. DOMAIN t = DOMAIN steps /\ \A j \in DOMAIN steps : t[j].status = IF j = e THEN st ELSE steps[j].status
  BY <1>1, MarkStatus
<1>3. steps' = t
  BY <1>1
<1> QED
  BY <1>2, <1>3

(* F is a call at work on top of the calls c. *)
Works(l, F, c) == \E g \in FrameOf(l) : g.at = "agent" /\ F = <<g>> \o c

(* A lane whose calls inherit *)
LEMMA ShapeInherits ==
  ASSUME NEW l, NEW f \in FrameOf(l), NEW c \in Seq(FrameOf(l)), NEW F, Reshaped(l, F, f, c)
  PROVE  Inherits(F, f, c) \/ Works(l, F, c)
<1>1. CASE F = <<>>
  BY <1>1 DEF Inherits
<1>2. CASE \E g \in FrameOf(l) : F = <<g>> \o c /\ g.at # "agent" /\ g.exec \in {0, f.exec}
  BY <1>2, TopInherits
<1>3. CASE c # <<>> /\ F = Proceed(c)
  <2>1. PICK h \in FrameOf(l), d \in Seq(FrameOf(l)) : h = Head(c) /\ d = Tail(c) /\ c = <<h>> \o d
    BY <1>3, Decompose
  <2>2. Inherits(F, h, d)
    BY <1>3, <2>1, ProceedInherits
  <2>3. \A e \in {0, h.exec} \cup {d[j].exec : j \in DOMAIN d} :
          e \in {0, f.exec} \cup {c[j].exec : j \in DOMAIN c}
    <3>1. /\ DOMAIN c = 1..(Len(d) + 1) /\ DOMAIN d = 1..Len(d) /\ Len(d) \in Nat
          /\ \A i \in 1..(Len(d) + 1) : c[i] = IF i = 1 THEN h ELSE d[i - 1]
      BY <2>1, OnTop
    <3>2. 1 \in DOMAIN c /\ c[1] = h /\ \A j \in DOMAIN d : j + 1 \in DOMAIN c /\ c[j + 1] = d[j]
      BY <3>1
    <3> QED
      BY <3>2
  <2> QED
    BY <2>2, <2>3 DEF Inherits
<1>4. CASE \E g \in FrameOf(l) : g.exec = f.exec /\ F = Proceed(<<g>> \o c)
  <2>1. PICK g \in FrameOf(l) : g.exec = f.exec /\ F = Proceed(<<g>> \o c)
    BY <1>4
  <2>2. Inherits(F, g, c)
    BY <2>1, ProceedInherits
  <2> QED
    BY <2>1, <2>2 DEF Inherits
<1> QED
  BY <1>1, <1>2, <1>3, <1>4 DEF Reshaped, Works

(* Only StartAgent leaves an agent at work in the innermost call. *)
LEMMA RestsNow ==
  ASSUME StructInv, NEW l \in DOMAIN lanes, LaneStep(l), ~StartAgent(l),
         NEW g \in FrameOf(l), NEW c \in Seq(FrameOf(l)), lanes'[l].frames = <<g>> \o c
  PROVE  g.at # "agent"
<1>1. Head(<<g>> \o c) = g /\ <<g>> \o c # <<>>
  BY PutOnTop
<1>2. Running(l)'
  BY <1>1, EndsEmpty
<1>3. l \notin Working'
  BY LaneStepSpends DEF SpendEffect
<1>4. Top(l)' = g
  BY <1>1 DEF Top
<1> QED
  BY <1>2, <1>3, <1>4 DEF Working, Running

(* Every step of executeStepBody does no more than that to the executions.  *)
LEMMA LaneStepOwns ==
  ASSUME StructInv, SettledInv, OwnerInv, NEW l \in DOMAIN lanes, LaneStep(l)
  PROVE  OwnerEffect(l)
<1>1. Running(l)
  BY LaneStepShape
<1>2. PICK f, c : TopFacts(l, f, c)
  BY <1>1, TopKnown
<1>3. /\ f = Top(l) /\ c = Callers(l) /\ f \in FrameOf(l) /\ c \in Seq(FrameOf(l))
      /\ steps \in Seq(Execution) /\ f.num \in Nat /\ f.of \in Nat /\ f.exec \in Nat
      /\ f.at \in {"agent", "quality"} => f.exec \in DOMAIN steps /\ f.exec # 0
  BY <1>2 DEF TopFacts, FrameOf
<1>4. l \in Working <=> f.at = "agent"
  BY <1>1, <1>3 DEF Working
<1>5. /\ f.exec # 0 => /\ f.exec \in DOMAIN steps
                       /\ steps[f.exec].status = "running" <=> f.at = "agent"
      /\ \A j \in DOMAIN c : c[j].exec # 0 => /\ c[j].exec \in DOMAIN steps
                                              /\ steps[c[j].exec].status # "running"
  <2>1. lanes[l].frames \in Seq(FrameOf(l)) /\ lanes[l].frames # <<>>
    BY <1>1 DEF StructInv, LaneOf
  <2>2. lanes[l].frames = <<f>> \o c
    BY <1>3, <2>1, Decompose DEF Top, Callers
  <2>3. Claims(steps, <<f>> \o c)
    BY <2>2 DEF OwnerInv
  <2> QED
    BY <1>3, <2>3, ClaimsOnTop
<1>6. PICK b : b = Begun(f)
  OBVIOUS
<1>7. /\ b \in Seq(Execution) /\ Len(b) = Len(steps) + 1 /\ Len(steps) \in Nat
      /\ DOMAIN steps = 1..Len(steps) /\ DOMAIN b = 1..(Len(steps) + 1)
      /\ \A i \in DOMAIN steps : b[i].status = steps[i].status
      /\ b[Len(b)].status = "running"
  BY <1>3, <1>6, BegunStatus
<1>8. Running(l)' \/ lanes'[l].frames = <<>>
  BY EndsEmpty
<1>9. ASSUME ~StartAgent(l) PROVE Inherits(lanes'[l].frames, f, c)
  <2>1. PICK F : F = lanes'[l].frames
    OBVIOUS
  <2>2. Reshaped(l, F, f, c)
    BY <1>3, <2>1, LaneStepShape
  <2>3. ~Works(l, F, c)
    BY <1>3, <1>9, <2>1, RestsNow DEF Works
  <2>4. Inherits(F, f, c) \/ Works(l, F, c)
    BY <1>3, <2>2, ShapeInherits
  <2> QED
    BY <2>1, <2>3, <2>4
<1>10. {"completed", "failed", "needs_rework"} \subseteq StepStatus
  BY DEF StepStatus
<1>11. CASE StartAgent(l)
  <2>1. steps' = b /\ l \notin Working
    BY <1>3, <1>4, <1>6, <1>11 DEF StartAgent
  <2>2. PICK g : g = [f EXCEPT !.at = "agent", !.exec = Len(b), !.rework = Count(f.num)]
    OBVIOUS
  <2>3. SetLane(l, <<g>> \o c, "running")
    BY <1>3, <1>6, <1>11, <2>2 DEF StartAgent
  <2>4. g.at = "agent" /\ g.exec = Len(steps) + 1
    BY <1>3, <1>7, <2>2 DEF FrameOf
  <2>5. g \in FrameOf(l)
    <3>1. Count(f.num) \in Nat
      BY CountType DEF StructInv, TypeOK
    <3>2. Len(b) \in Nat \ {0}
      BY <1>7
    <3> QED
      BY <1>3, <2>2, <3>1, <3>2 DEF FrameOf
  <2>6. Running(l)' /\ lanes'[l].frames = <<g>> \o c
    BY <2>3 DEF SetLane, Running
  <2>7. \E h \in FrameOf(l) : /\ h.at = "agent" /\ h.exec = Len(steps) + 1
                               /\ lanes'[l].frames = <<h>> \o Callers(l)
    BY <1>3, <2>4, <2>5, <2>6
  <2>8. /\ DOMAIN steps' = 1..(Len(steps) + 1) /\ steps'[Len(steps) + 1].status = "running"
        /\ \A i \in DOMAIN steps : i \in DOMAIN steps' /\ steps'[i].status = steps[i].status
    BY <1>7, <2>1
  <2> QED
    BY <2>1, <2>6, <2>7, <2>8 DEF OwnerEffect
<1>12. CASE LimitReached(l) \/ StartThrows(l)
  <2>1. /\ lanes'[l].frames = <<>> /\ lanes'[l].result \in {"failed", "thrown"}
        /\ l \notin Working
    BY <1>3, <1>4, <1>12 DEF LimitReached, StartThrows, LaneFails, SetLane
  <2>2. Inherits(lanes'[l].frames, f, c)
    BY <2>1 DEF Inherits
  <2>3. \A i \in DOMAIN steps :
          i \in DOMAIN steps' /\ (steps'[i].status = "running" <=> steps[i].status = "running")
    <3>1. CASE steps' = b
      BY <1>7, <3>1
    <3>2. CASE \E e \in Nat : /\ steps' = Mark(b, e, "failed")
                              /\ e \in DOMAIN steps => steps[e].status # "running"
      <4>1. PICK e \in Nat : /\ steps' = Mark(b, e, "failed")
                             /\ e \in DOMAIN steps => steps[e].status # "running"
        BY <3>2
      <4>2. PICK t : t = Mark(b, e, "failed")
        OBVIOUS
      <4>6. "failed" \in StepStatus
        BY <1>10
      <4>3. /\ DOMAIN t = DOMAIN b
            /\ \A j \in DOMAIN b : t[j].status = IF j = e THEN "failed" ELSE b[j].status
        BY SMTT(30), <1>7, <4>2, <4>6, MarkStatus
      <4>4. steps' = t
        BY <4>1, <4>2
      <4>5. DOMAIN steps \subseteq DOMAIN b
        BY <1>7
      <4> QED
        BY <1>7, <4>1, <4>3, <4>4, <4>5
    <3>3. CASE LimitReached(l)
      <4>1. steps' = Mark(b, Len(b), "failed") /\ Len(b) \in Nat /\ Len(b) \notin DOMAIN steps
        BY <1>3, <1>6, <1>7, <3>3 DEF LimitReached
      <4> QED
        BY <3>2, <4>1
    <3>4. CASE StartThrows(l)
      <4>1. \/ steps' = b
            \/ c # <<>> /\ Head(c).exec # 0 /\ steps' = Mark(b, Head(c).exec, "failed")
        BY <1>3, <1>6, <3>4 DEF StartThrows
      <4>2. ASSUME c # <<>>, Head(c).exec # 0
            PROVE  Head(c).exec \in Nat /\ steps[Head(c).exec].status # "running"
        <5>1. Head(c) \in FrameOf(l) /\ 1 \in DOMAIN c /\ Head(c) = c[1]
          BY <1>3, <4>2, HeadTailProperties, EmptySeq, LenProperties
        <5> QED
          BY <1>5, <4>2, <5>1 DEF FrameOf
      <4> QED
        BY <3>1, <3>2, <4>1, <4>2
    <3> QED
      BY <1>12, <3>3, <3>4
  <2> QED
    BY <1>3, <1>8, <2>1, <2>2, <2>3 DEF OwnerEffect
<1>13. ASSUME ~StartAgent(l), UNCHANGED steps, l \notin Working PROVE OwnerEffect(l)
  BY <1>3, <1>8, <1>9, <1>13 DEF OwnerEffect
<1>14. ASSUME ~StartAgent(l), f.at \in {"agent", "quality"},
              NEW st \in {"completed", "failed", "needs_rework"}, steps' = Mark(steps, f.exec, st)
       PROVE  OwnerEffect(l)
  <2>1. st \in StepStatus /\ st # "running" /\ f.exec \in DOMAIN steps
    BY <1>3, <1>10, <1>14
  <2>2. l \notin Working => steps[f.exec].status # "running"
    BY <1>3, <1>4, <1>5, <1>14
  <2>3. /\ DOMAIN steps' = DOMAIN steps
        /\ \A i \in DOMAIN steps :
             ~(l \in Working /\ i = Top(l).exec) =>
               (steps'[i].status = "running" <=> steps[i].status = "running")
        /\ l \in Working => steps'[Top(l).exec].status # "running"
    BY <1>3, <1>14, <2>1, <2>2, MarkEffect
  <2> QED
    BY <1>3, <1>8, <1>9, <1>14, <2>3 DEF OwnerEffect
<1>15. CASE ~StartAgent(l) /\ (SubWorktreeFails(l) \/ QualityGatePasses(l))
  <2>1. UNCHANGED steps /\ l \notin Working
    BY <1>3, <1>4, <1>15 DEF SubWorktreeFails, QualityGatePasses
  <2> QED
    BY <1>13, <1>15, <2>1
<1>16. CASE ~StartAgent(l) /\ (AgentCompletes(l) \/ CommitFails(l) \/ AgentFails(l)
                                \/ AgentSignalsRework(l))
  <2>1. /\ f.at \in {"agent", "quality"}
        /\ \E st \in {"completed", "failed", "needs_rework"} : steps' = Mark(steps, f.exec, st)
    BY <1>3, <1>16 DEF AgentCompletes, CommitFails, AgentFails, AgentSignalsRework
  <2> QED
    BY <1>14, <1>16, <2>1
<1>17. CASE ~StartAgent(l) /\ (AgentNeedsRework(l) \/ QualityGateFails(l))
  <2>1. /\ f.at \in {"agent", "quality"}
        /\ \E st \in {"completed", "failed", "needs_rework"} : steps' = Mark(steps, f.exec, st)
    BY <1>3, <1>17 DEF AgentNeedsRework, QualityGateFails
  <2> QED
    BY <1>14, <1>17, <2>1
<1> QED
  BY <1>11, <1>12, <1>15, <1>16, <1>17 DEF LaneStep

(* A new run satisfies it. *)
LEMMA InitOwner == Init => OwnerInv
<1> SUFFICES ASSUME Init PROVE OwnerInv
  OBVIOUS
<1>1. DOMAIN lanes = {} /\ DOMAIN steps = {}
  BY NoLanesType DEF Init
<1> QED
  BY <1>1 DEF OwnerInv, Working

(* What the claims of the lanes say of the agents at work *)
LEMMA WorkingOwns ==
  ASSUME StructInv, OwnerInv, NEW m \in Working
  PROVE  /\ m \in DOMAIN lanes /\ Running(m) /\ lanes[m].frames # <<>>
         /\ Top(m) = lanes[m].frames[1] /\ 1 \in DOMAIN lanes[m].frames
         /\ Top(m).exec # 0 /\ Top(m).exec \in DOMAIN steps
         /\ steps[Top(m).exec].status = "running"
<1>1. m \in DOMAIN lanes /\ Running(m) /\ Top(m).at = "agent"
  BY DEF Working
<1>2. lanes[m].frames \in Seq(FrameOf(m)) /\ lanes[m].frames # <<>>
  BY <1>1 DEF StructInv, LaneOf
<1>3. 1 \in DOMAIN lanes[m].frames /\ Top(m) = lanes[m].frames[1] /\ Top(m) \in FrameOf(m)
  BY <1>2, HeadTailProperties, EmptySeq, LenProperties DEF Top
<1>4. Top(m).exec # 0
  BY <1>1, <1>3 DEF FrameOf
<1> QED
  BY <1>1, <1>2, <1>3, <1>4 DEF OwnerInv, Claims

(* A step of a lane leaves the claims of the others alone. *)
LEMMA OtherClaims ==
  ASSUME StructInv, OwnerInv, NEW l \in DOMAIN lanes, OwnerEffect(l), NEW m \in DOMAIN lanes \ {l}
  PROVE  Claims(steps', lanes[m].frames)
<1>1. ASSUME NEW k \in DOMAIN lanes[m].frames, lanes[m].frames[k].exec # 0
      PROVE  /\ lanes[m].frames[k].exec \in DOMAIN steps'
             /\ steps'[lanes[m].frames[k].exec].status = "running"
                  <=> k = 1 /\ lanes[m].frames[k].at = "agent"
  <2>1. PICK e : e = lanes[m].frames[k].exec
    OBVIOUS
  <2>2. /\ e \in DOMAIN steps
        /\ steps[e].status = "running" <=> k = 1 /\ lanes[m].frames[k].at = "agent"
    BY <1>1, <2>1 DEF OwnerInv, Claims
  <2>3. ~(l \in Working /\ e = Top(l).exec)
    <3> SUFFICES ASSUME l \in Working, e = Top(l).exec PROVE FALSE
      OBVIOUS
    <3>1. steps[e].status = "running"
      BY WorkingOwns
    <3>2. k = 1 /\ lanes[m].frames[1].at = "agent"
      BY <2>2, <3>1
    <3>3. Running(m)
      <4>1. lanes[m].frames # <<>>
        BY <1>1
      <4> QED
        BY <4>1 DEF OwnerInv
    <3>4. Top(m) = lanes[m].frames[1]
      <4>1. lanes[m].frames \in Seq(FrameOf(m)) /\ lanes[m].frames # <<>>
        BY <3>3 DEF StructInv, LaneOf
      <4> QED
        BY <4>1, HeadTailProperties DEF Top
    <3>5. m \in Working /\ Top(m).exec = Top(l).exec
      BY <2>1, <3>2, <3>3, <3>4 DEF Working
    <3> QED
      BY <3>5 DEF OwnerInv
  <2> QED
    BY <2>1, <2>2, <2>3 DEF OwnerEffect
<1> QED
  BY <1>1 DEF Claims

(* Its own calls claim what it began, or nothing new. *)
LEMMA OwnClaims ==
  ASSUME StructInv, OwnerInv, NEW l \in DOMAIN lanes, Running(l), OwnerEffect(l)
  PROVE  Claims(steps', lanes'[l].frames)
<1>1. PICK f \in FrameOf(l), c \in Seq(FrameOf(l)) : f = Top(l) /\ c = Callers(l)
  BY TopType
<1>2. lanes[l].frames = <<f>> \o c
  <2>1. lanes[l].frames \in Seq(FrameOf(l)) /\ lanes[l].frames # <<>>
    BY DEF StructInv, LaneOf
  <2> QED
    BY <1>1, <2>1, Decompose DEF Top, Callers
<1>3. Claims(steps, <<f>> \o c)
  BY <1>2 DEF OwnerInv
<1>4. /\ f.exec # 0 => /\ f.exec \in DOMAIN steps
                       /\ steps[f.exec].status = "running" <=> f.at = "agent"
      /\ \A j \in DOMAIN c : c[j].exec # 0 => /\ c[j].exec \in DOMAIN steps
                                              /\ steps[c[j].exec].status # "running"
  BY <1>3, ClaimsOnTop
<1>5. l \in Working <=> f.at = "agent"
  BY <1>1 DEF Working
<1>6. \A j \in DOMAIN c : c[j].exec # 0 => /\ c[j].exec \in DOMAIN steps'
                                           /\ steps'[c[j].exec].status # "running"
  <2>1. ASSUME NEW j \in DOMAIN c, c[j].exec # 0, l \in Working PROVE c[j].exec # Top(l).exec
    BY <1>4, <2>1, WorkingOwns
  <2> QED
    BY <1>4, <2>1 DEF OwnerEffect
<1>7. f.exec # 0 => f.exec \in DOMAIN steps' /\ steps'[f.exec].status # "running"
  BY <1>1, <1>4, <1>5 DEF OwnerEffect
<1>8. PICK F : F = lanes'[l].frames
  OBVIOUS
<1>9. CASE Inherits(F, f, c)
  <2>1. ASSUME NEW k \in DOMAIN F, F[k].exec # 0
        PROVE  /\ F[k].exec \in DOMAIN steps' /\ steps'[F[k].exec].status # "running"
               /\ ~(k = 1 /\ F[k].at = "agent")
    <3>1. F[k].exec = f.exec \/ \E j \in DOMAIN c : F[k].exec = c[j].exec
      BY <1>9, <2>1 DEF Inherits
    <3>2. k = 1 => F[k].at # "agent"
      BY <1>9 DEF Inherits
    <3> QED
      BY <1>6, <1>7, <2>1, <3>1, <3>2
  <2> QED
    BY <1>8, <2>1 DEF Claims
<1>10. CASE /\ Len(steps) + 1 \in DOMAIN steps'
            /\ steps'[Len(steps) + 1].status = "running"
            /\ \E g \in FrameOf(l) : /\ g.at = "agent" /\ g.exec = Len(steps) + 1
                                     /\ F = <<g>> \o c
  <2>1. PICK g \in FrameOf(l) : g.at = "agent" /\ g.exec = Len(steps) + 1 /\ F = <<g>> \o c
    BY <1>10
  <2>2. g.exec \in DOMAIN steps' /\ steps'[g.exec].status = "running"
    BY <1>10, <2>1
  <2>3. Claims(steps', <<g>> \o c)
    BY <1>6, <2>1, <2>2, ClaimsOnTop
  <2> QED
    BY <1>8, <2>1, <2>3
<1>11. DOMAIN steps' = 1..(Len(steps) + 1) => Len(steps) + 1 \in DOMAIN steps'
  <2>1. Len(steps) \in Nat
    BY LenProperties DEF StructInv, TypeOK
  <2> QED
    BY <2>1
<1> QED
  BY <1>1, <1>8, <1>9, <1>10, <1>11 DEF OwnerEffect

(* The lanes keep it. *)
LEMMA LaneStepOwner ==
  ASSUME StructInv, StructInv', SettledInv, DeliveryInv, OwnerInv,
         NEW l \in DOMAIN lanes, LaneStep(l)
  PROVE  OwnerInv'
<1>1. /\ Running(l) /\ UNCHANGED ctl
      /\ DOMAIN lanes' = DOMAIN lanes /\ \A m \in DOMAIN lanes \ {l} : lanes'[m] = lanes[m]
  BY LaneStepEffect, LaneStepShape DEF LaneEffect
<1>2. OwnerEffect(l)
  BY LaneStepOwns
<1>3. ASSUME NEW m \in DOMAIN lanes'
      PROVE  Claims(steps', lanes'[m].frames) /\ (Running(m)' \/ lanes'[m].frames = <<>>)
  <2>1. CASE m = l
    BY <1>1, <1>2, <2>1, OwnClaims DEF OwnerEffect
  <2>2. CASE m # l
    <3>1. Running(m)' = Running(m) /\ lanes'[m].frames = lanes[m].frames
      BY <1>1, <1>3, <2>2 DEF Running
    <3>2. Running(m) \/ lanes[m].frames = <<>>
      BY <1>1, <1>3 DEF OwnerInv
    <3> QED
      BY <1>1, <1>2, <1>3, <2>2, <3>1, <3>2, OtherClaims
  <2> QED
    BY <2>1, <2>2
<1>4. ASSUME NEW m, m # l
      PROVE  (m \in Working' <=> m \in Working) /\ (m \in Working => Top(m)' = Top(m))
  BY <1>1, <1>4 DEF Working, Running, Top
<1>5. steps \in Seq(Execution) /\ DOMAIN steps = 1..Len(steps) /\ Len(steps) \in Nat
  BY LenProperties DEF StructInv, TypeOK
<1>6. l \in Working' =>
        /\ Top(l)'.exec = Len(steps) + 1
        /\ DOMAIN steps' = 1..(Len(steps) + 1) /\ l \notin Working
  <2>1. PICK f \in FrameOf(l), c \in Seq(FrameOf(l)) : f = Top(l) /\ c = Callers(l)
    BY <1>1, TopType
  <2>2. CASE Inherits(lanes'[l].frames, Top(l), Callers(l))
    <3> SUFFICES ASSUME l \in Working' PROVE FALSE
      OBVIOUS
    <3>1. Running(l)' /\ l \in DOMAIN lanes' /\ Top(l)'.at = "agent"
      BY DEF Working
    <3>2. lanes'[l].frames \in Seq(FrameOf(l)) /\ lanes'[l].frames # <<>>
      BY <3>1 DEF StructInv, LaneOf, FrameOf
    <3>3. 1 \in DOMAIN lanes'[l].frames /\ Top(l)' = lanes'[l].frames[1]
      BY <3>2, HeadTailProperties, EmptySeq, LenProperties DEF Top
    <3> QED
      BY <2>2, <3>1, <3>3 DEF Inherits
  <2>3. CASE /\ l \notin Working /\ DOMAIN steps' = 1..(Len(steps) + 1)
             /\ \E g \in FrameOf(l) : /\ g.at = "agent" /\ g.exec = Len(steps) + 1
                                      /\ lanes'[l].frames = <<g>> \o Callers(l)
    <3>1. PICK g \in FrameOf(l) : /\ g.exec = Len(steps) + 1 /\ lanes'[l].frames = <<g>> \o c
      BY <2>1, <2>3
    <3>2. Head(<<g>> \o c) = g
      BY PutOnTop
    <3>3. Top(l)' = g
      BY <3>1, <3>2 DEF Top
    <3> QED
      BY <2>3, <3>1, <3>3
  <2> QED
    BY <1>2, <2>2, <2>3 DEF OwnerEffect
<1>7. ASSUME NEW m \in Working', NEW n \in Working', (Top(m).exec)' = (Top(n).exec)' PROVE m = n
  <2>1. ASSUME NEW k \in Working', k # l
        PROVE  k \in Working /\ Top(k)' = Top(k) /\ Top(k).exec # Len(steps) + 1
    <3>1. k \in Working /\ Top(k)' = Top(k)
      BY <1>4, <2>1
    <3>2. Top(k).exec \in DOMAIN steps
      BY <3>1, WorkingOwns
    <3> QED
      BY <1>5, <3>1, <3>2
  <2>2. CASE m # l /\ n # l
    BY <1>7, <2>1, <2>2 DEF OwnerInv
  <2>3. CASE m = l \/ n = l
    BY <1>6, <1>7, <2>1, <2>3
  <2> QED
    BY <2>2, <2>3
<1>8. ASSUME Watched', ~Failing', NEW i \in DOMAIN steps', steps'[i].status = "running"
      PROVE  Owned(i)'
  <2>1. ~Failing /\ ~(lanes'[l].result \in {"failed", "thrown"})
    BY <1>1, <1>8 DEF Failing, Running
  <2>2. Watched
    <3>1. ctl # "finally"
      BY NoLanesType DEF DeliveryInv
    <3> QED
      BY <1>1, <1>8, <3>1 DEF Watched
  <2>3. CASE i \in DOMAIN steps
    <3>1. steps[i].status = "running" /\ ~(l \in Working /\ i = Top(l).exec)
      BY <1>2, <1>8, <2>3 DEF OwnerEffect
    <3>2. PICK m \in Working : Top(m).exec = i
      BY <2>1, <2>2, <2>3, <3>1 DEF OwnerInv, Owned
    <3>3. m # l
      BY <3>1, <3>2
    <3> QED
      BY <1>4, <3>2, <3>3 DEF Owned
  <2>4. CASE i \notin DOMAIN steps
    <3>1. PICK g \in FrameOf(l) :
            /\ g.at = "agent" /\ g.exec = Len(steps) + 1 /\ Running(l)'
            /\ lanes'[l].frames = <<g>> \o Callers(l)
            /\ DOMAIN steps' = 1..(Len(steps) + 1)
      BY <1>2, <1>8, <2>1, <2>4 DEF OwnerEffect
    <3>2. i = Len(steps) + 1
      BY <1>5, <1>8, <2>4, <3>1
    <3>3. Top(l)' = g
      <4>1. PICK c \in Seq(FrameOf(l)) : c = Callers(l)
        BY <1>1, TopType
      <4>2. Head(<<g>> \o c) = g
        BY <4>1, PutOnTop
      <4> QED
        BY <3>1, <4>1, <4>2 DEF Top
    <3>4. l \in Working'
      BY <1>1, <3>1, <3>3 DEF Working
    <3> QED
      BY <3>1, <3>2, <3>3, <3>4 DEF Owned
  <2> QED
    BY <2>3, <2>4
<1> QED
  BY <1>3, <1>7, <1>8 DEF OwnerInv

(* A step that leaves the executions and the lanes as they are, or gives up *)
(* lanes that are over, keeps it.                                           *)
LEMMA KeepsOwner ==
  ASSUME OwnerInv, Within({}, steps, steps'),
         \/ lanes' = lanes /\ (Watched' => Watched)
         \/ lanes' = NoLanes /\ (Watched' => Watched /\ ~Failing /\ Working = {})
  PROVE  OwnerInv'
<1>1. /\ DOMAIN steps' = DOMAIN steps
      /\ \A i \in DOMAIN steps : steps'[i].status = steps[i].status
  BY DEF Within
<1>2. CASE lanes' = lanes /\ (Watched' => Watched)
  <2>1. Working' = Working /\ Failing' = Failing /\ \A m : Top(m)' = Top(m)
    BY <1>2 DEF Working, Running, Top, Failing
  <2>2. ASSUME NEW m \in DOMAIN lanes
        PROVE  Claims(steps', lanes[m].frames) /\ (Running(m)' \/ lanes[m].frames = <<>>)
    <3>1. Claims(steps, lanes[m].frames) /\ (Running(m) \/ lanes[m].frames = <<>>)
      BY DEF OwnerInv
    <3>2. Running(m)' = Running(m)
      BY <1>2 DEF Running
    <3> QED
      BY <1>1, <3>1, <3>2 DEF Claims
  <2>3. \A m, n \in Working' : (Top(m).exec)' = (Top(n).exec)' => m = n
    BY <2>1 DEF OwnerInv
  <2>4. ASSUME Watched', ~Failing', NEW i \in DOMAIN steps', steps'[i].status = "running"
        PROVE  Owned(i)'
    <3>1. Owned(i)
      BY <1>1, <1>2, <2>1, <2>4 DEF OwnerInv
    <3> QED
      BY <2>1, <3>1 DEF Owned
  <2> QED
    BY <1>2, <2>2, <2>3, <2>4 DEF OwnerInv
<1>3. CASE lanes' = NoLanes /\ (Watched' => Watched /\ ~Failing /\ Working = {})
  <2>1. DOMAIN lanes' = {} /\ Working' = {}
    BY <1>3, NoLanesType DEF Working
  <2>2. ASSUME Watched' PROVE \A i \in DOMAIN steps' : steps'[i].status # "running"
    BY <1>1, <1>3, <2>2 DEF OwnerInv, Owned
  <2> QED
    BY <2>1, <2>2 DEF OwnerInv
<1> QED
  BY <1>2, <1>3

(* The calls that executePlan begins hold no execution yet. *)
LEMMA BeginsOwner ==
  ASSUME OwnerInv, UNCHANGED steps, Watched, ~Failing, Working = {},
         \A l \in DOMAIN lanes' :
           /\ Running(l)' \/ lanes'[l].frames = <<>>
           /\ \A k \in DOMAIN lanes'[l].frames : lanes'[l].frames[k].exec = 0
           /\ Running(l)' => Top(l)'.at # "agent"
  PROVE  OwnerInv'
<1>1. Working' = {}
  BY DEF Working, Running
<1>2. \A i \in DOMAIN steps : steps[i].status # "running"
  BY DEF OwnerInv, Owned
<1>3. \A l \in DOMAIN lanes' : Claims(steps', lanes'[l].frames)
  BY DEF Claims
<1> QED
  BY <1>1, <1>2, <1>3 DEF OwnerInv

(* The calls of a new group *)
LEMMA LaunchOwner ==
  ASSUME OwnerInv, NEW G, NEW d, Launch(G, d), ctl = "loop", lanes = NoLanes
  PROVE  OwnerInv'
<1>1. /\ DOMAIN lanes' = G /\ UNCHANGED steps
      /\ \A l \in G : lanes'[l] = [frames |-> <<StartFrame(l, l, d)>>, result |-> "running"]
  BY DEF Launch
<1>2. ASSUME NEW l \in G
      PROVE  /\ Running(l)' /\ Top(l)'.at = "start"
             /\ \A k \in DOMAIN lanes'[l].frames : lanes'[l].frames[k].exec = 0
  <2>1. PICK g : g = StartFrame(l, l, d)
    OBVIOUS
  <2>2. lanes'[l].frames = <<g>> /\ lanes'[l].result = "running"
    BY <1>1, <2>1
  <2>3. g.exec = 0 /\ g.at = "start"
    BY <2>1 DEF StartFrame
  <2> QED
    BY <1>1, <2>2, <2>3 DEF Running, Top
<1>3. Watched /\ ~Failing /\ Working = {}
  BY NoLanesType DEF Watched, Failing, Working
<1> QED
  BY <1>1, <1>2, <1>3, BeginsOwner

(* Those that run the merged rework plan of a group do not either. *)
LEMMA ReplanHolds ==
  ASSUME plan \in Plans, NEW n \in PlanSteps, NEW q \in ReworkPlans(n), NEW fr,
         fr = Proceed(<<[StartFrame(n, n, FALSE) EXCEPT !.at = "replan", !.todo = q]>>)
  PROVE  /\ \A k \in DOMAIN fr : fr[k].exec = 0 /\ (k = 1 => fr[k].at # "agent")
         /\ fr # <<>> => Head(fr).at # "agent"
<1>1. PICK g : g = StartFrame(n, n, FALSE)
  OBVIOUS
<1>2. PICK f : f = [g EXCEPT !.at = "replan", !.todo = q]
  OBVIOUS
<1>3. n \in Nat \ {0}
  BY PlanNumbers DEF PlanSteps
<1>4. q \in Seq(Nat)
  BY <1>3, ReworkPlansType
<1>5. f \in FrameOf(n) /\ f.exec = 0
  <2>1. g \in FrameOf(n)
    BY <1>1, <1>3, StartFrameType
  <2>2. g.exec = 0
    BY <1>1 DEF StartFrame
  <2> QED
    BY <1>2, <1>4, <2>1, <2>2 DEF FrameOf
<1>6. PICK d \in Seq(FrameOf(n)) : d = <<>>
  BY EmptySeq
<1>7. <<f>> \o d = <<f>> /\ fr = Proceed(<<f>>)
  BY <1>1, <1>2, <1>6
<1>8. Inherits(fr, f, d)
  BY <1>5, <1>6, <1>7, ProceedInherits
<1>9. \A k \in DOMAIN fr : fr[k].exec = 0 /\ (k = 1 => fr[k].at # "agent")
  <2>1. DOMAIN d = {}
    BY <1>6
  <2> QED
    BY <1>5, <1>8, <2>1 DEF Inherits
<1>10. fr # <<>> => Head(fr).at # "agent"
  <2>1. fr \in Seq(FrameOf(n))
    <3>1. <<f>> \in Seq(FrameOf(n)) /\ <<f>> # <<>>
      BY <1>5, ShortSequences
    <3> QED
      BY <1>7, <3>1, ProceedType
  <2>2. fr # <<>> => 1 \in DOMAIN fr /\ Head(fr) = fr[1]
    BY <2>1, HeadTailProperties, EmptySeq, LenProperties
  <2> QED
    BY <1>9, <2>2
<1> QED
  BY <1>9, <1>10

(* The calls that run the merged rework plan of a group *)
LEMMA GroupReplansOwner ==
  ASSUME StructInv, StructInv', OwnerInv, GroupReplans
  PROVE  OwnerInv'
<1>1. /\ UNCHANGED <<plan, steps>> /\ ctl = "lanes"
      /\ Settled /\ ~SomeFailed
  BY DEF GroupReplans
<1>2. Watched /\ ~Failing /\ Working = {}
  BY <1>1 DEF Watched, Failing, Working, Running, Settled, SomeFailed
<1>3. CASE lanes' = NoLanes
  <2>1. Within({}, steps, steps')
    BY <1>1 DEF Within
  <2> QED
    BY <1>2, <1>3, <2>1, KeepsOwner
<1>4. CASE lanes' # NoLanes
  <2>1. PICK q \in ReworkPlans(signals[1].num) :
          LET F == Proceed(<<[StartFrame(signals[1].num, signals[1].num, FALSE) EXCEPT !.at = "replan",
                                                                     !.todo = q]>>)
          IN  lanes' = [k \in {signals[1].num} |->
                [frames |-> F, result |-> IF F = <<>> THEN "completed" ELSE "running"]]
    BY <1>4 DEF GroupReplans
  <2>2. PICK n : n = signals[1].num
    OBVIOUS
  <2>5. PICK fr : fr = Proceed(<<[StartFrame(n, n, FALSE) EXCEPT !.at = "replan", !.todo = q]>>)
    OBVIOUS
  <2>6. /\ q \in ReworkPlans(n)
        /\ lanes' = [k \in {n} |->
             [frames |-> fr, result |-> IF fr = <<>> THEN "completed" ELSE "running"]]
    BY <2>1, <2>2, <2>5
  <2>7. /\ DOMAIN lanes' = {n} /\ lanes'[n].frames = fr
        /\ lanes'[n].result = IF fr = <<>> THEN "completed" ELSE "running"
    BY <2>6
  <2>8. n \in PlanSteps /\ plan \in Plans
    BY <1>1, <2>7 DEF StructInv, TypeOK, PlanSteps
  <2>14. /\ \A k \in DOMAIN fr : fr[k].exec = 0
         /\ fr # <<>> => Head(fr).at # "agent"
    BY <2>5, <2>6, <2>8, ReplanHolds
  <2>16. Running(n)' => fr # <<>>
    BY <2>7 DEF Running
  <2>17. Running(n)' \/ fr = <<>>
    BY <2>7 DEF Running
  <2>18. Top(n)' = Head(fr)
    BY <2>7 DEF Top
  <2> QED
    BY <1>1, <1>2, <2>7, <2>14, <2>16, <2>17, <2>18, BeginsOwner
<1> QED
  BY <1>3, <1>4

(* executePlan keeps it: it gives up lanes only when they are over, or with *)
(* a run that has failed.                                                   *)
LEMMA EngineOwner ==
  ASSUME StructInv, StructInv', DeliveryInv, OwnerInv, Engine
  PROVE  OwnerInv'
<1> USE DEF Watched
<1>1. CASE LaunchParallel \/ LaunchSequential
  <2>1. PICK G, d : Launch(G, d) /\ ctl = "loop"
    BY <1>1 DEF LaunchParallel, LaunchSequential
  <2>2. lanes = NoLanes
    BY <2>1 DEF DeliveryInv
  <2> QED
    BY <2>1, <2>2, LaunchOwner
<1>2. CASE GroupReplans
  BY <1>2, GroupReplansOwner
<1>3. CASE ReviewApproved
  <2>1. \A i \in DOMAIN steps : steps[i] \in Execution
    BY LenProperties DEF StructInv, TypeOK
  <2>2. /\ DOMAIN steps' = DOMAIN steps
        /\ \A i \in DOMAIN steps : /\ steps'[i].of = steps[i].of
                                   /\ steps'[i].status = steps[i].status
    BY <1>3, <2>1 DEF ReviewApproved, Execution
  <2>3. Within({}, steps, steps')
    BY <2>2 DEF Within
  <2>4. lanes' = lanes /\ ctl = "gate_review" /\ ctl' = "gates"
    BY <1>3 DEF ReviewApproved
  <2> QED
    BY <2>3, <2>4, KeepsOwner
<1>4. ASSUME UNCHANGED steps,
             \/ lanes' = lanes /\ (Watched' => Watched)
             \/ lanes' = NoLanes /\ (Watched' => Watched /\ ~Failing /\ Working = {})
      PROVE  OwnerInv'
  <2>1. Within({}, steps, steps')
    BY <1>4 DEF Within
  <2> QED
    BY <1>4, <2>1, KeepsOwner
<1>5. CASE ReworkDone \/ GroupCompletes
  <2>1. /\ ctl \in {"lanes", "rework"} /\ Settled /\ ~SomeFailed
        /\ UNCHANGED steps /\ lanes' = NoLanes
    BY <1>5 DEF ReworkDone, GroupCompletes
  <2>2. ~Failing /\ Working = {}
    BY <2>1 DEF Failing, Working, Running, Settled, SomeFailed
  <2> QED
    BY <1>4, <2>1, <2>2
<1>6. CASE PlanDeadlock \/ GroupFails \/ LaneThrew
  BY <1>4, <1>6 DEF PlanDeadlock, GroupFails, LaneThrew, FailRun
<1>7. CASE SkipConfirmation \/ AskConfirmation \/ ConfirmationGiven \/ ConfirmationRefused
  BY <1>4, <1>7
  DEF SkipConfirmation, AskConfirmation, ConfirmationGiven, ConfirmationRefused, FailRun
<1>8. CASE SkipGate \/ RequestReview \/ ReviewRejected \/ GatesDone
  BY <1>4, <1>8 DEF SkipGate, RequestReview, ReviewRejected, GatesDone, FailRun
<1>9. CASE PlanCompleted \/ EngineThrows \/ Teardown \/ Finalize
  BY <1>4, <1>9 DEF PlanCompleted, EngineThrows, Teardown, Finalize
<1> QED
  BY <1>1, <1>2, <1>3, <1>5, <1>6, <1>7, <1>8, <1>9 DEF Engine

(* The environment keeps it: resumeTask marks what was running as failed.   *)
LEMMA EnvironmentOwner ==
  ASSUME StructInv, GateInv, OwnerInv, Environment
  PROVE  OwnerInv'
<1>1. CASE FlushRunState \/ CancelSession
  <2>1. Within({}, steps, steps') /\ lanes' = lanes /\ (Watched' => Watched)
    BY <1>1 DEF FlushRunState, CancelSession, Within, Watched
  <2> QED
    BY <2>1, KeepsOwner
<1>2. CASE ProcessDies
  <2>1. DOMAIN lanes' = {} /\ ~Watched'
    BY <1>2, NoLanesType DEF ProcessDies, Watched
  <2> QED
    BY <2>1 DEF OwnerInv, Working
<1>3. CASE ResumeTask
  <2>1. DOMAIN lanes' = {}
    BY <1>3, NoLanesType DEF ResumeTask, GateInv
  <2>2. \A i \in DOMAIN steps' : steps'[i].status # "running"
    <3>1. \A i \in DOMAIN steps : steps[i] \in Execution
      BY LenProperties DEF StructInv, TypeOK
    <3> QED
      BY <1>3, <3>1 DEF ResumeTask, Interrupted, Execution
  <2> QED
    BY <2>1, <2>2 DEF OwnerInv, Working
<1> QED
  BY <1>1, <1>2, <1>3 DEF Environment

(* Every reachable state satisfies it. *)
LEMMA SpecOwner == Spec => []OwnerInv
<1>1. /\ StructInv /\ StructInv' /\ GateInv /\ SettledInv /\ DeliveryInv /\ OwnerInv
      /\ [Next]_vars
      => OwnerInv'
  <2> SUFFICES ASSUME StructInv, StructInv', GateInv, SettledInv, DeliveryInv, OwnerInv,
                      [Next]_vars
               PROVE  OwnerInv'
    OBVIOUS
  <2>1. CASE Lanes
    BY <2>1, LaneStepOwner DEF Lanes
  <2>2. CASE UNCHANGED vars
    <3>1. Within({}, steps, steps') /\ lanes' = lanes /\ (Watched' => Watched)
      BY <2>2 DEF vars, Within, Watched
    <3> QED
      BY <3>1, KeepsOwner
  <2> QED
    BY <2>1, <2>2, EngineOwner, EnvironmentOwner DEF Next, Quiet
<1> QED
  BY <1>1, InitStruct, NextStruct, InitOwner, SpecSettled, SpecDelivery, PTL DEF Spec

(* For every plan and every interleaving of lanes, and across crashes and   *)
(* resumes: as long as no step has failed, an execution recorded as running *)
(* belongs to exactly one call (orchestration-service.ts:1241-1580,         *)
(* 2296-2330).                                                              *)
THEOREM NoneOrphaned == Spec => []NoOrphanExecution
<1>1. StructInv /\ OwnerInv => NoOrphanExecution
  <2> SUFFICES ASSUME StructInv, OwnerInv, ctl \notin {"down", "finally", "ended"}, ~Failing,
                      NEW i \in DOMAIN steps, steps[i].status = "running"
               PROVE  Cardinality(Owners(i)) = 1
    BY DEF NoOrphanExecution
  <2>1. PICK l \in Working : Top(l).exec = i
    BY DEF OwnerInv, Owned, Watched
  <2>2. 1..Len(steps) = DOMAIN steps /\ 1 \in 1..Len(steps) /\ i # 0
    <3>1. Len(steps) \in Nat /\ DOMAIN steps = 1..Len(steps)
      BY LenProperties DEF StructInv, TypeOK
    <3> QED
      BY <3>1
  <2>3. <<l, 1>> \in Owners(i)
    <3>1. /\ l \in DOMAIN lanes /\ 1 \in DOMAIN lanes[l].frames
          /\ lanes[l].frames[1].exec = i
      BY <2>1, WorkingOwns
    <3> QED
      BY <2>2, <3>1 DEF Owners, Calls
  <2>4. ASSUME NEW a \in Owners(i) PROVE a = <<l, 1>>
    <3>1. PICK m \in DOMAIN lanes, k \in 1..Len(steps) :
            a = <<m, k>> /\ k \in DOMAIN lanes[m].frames /\ lanes[m].frames[k].exec = i
      BY DEF Owners, Calls
    <3>2. k = 1 /\ lanes[m].frames[1].at = "agent" /\ Running(m)
      <4>1. lanes[m].frames # <<>>
        BY <3>1
      <4> QED
        BY <2>2, <3>1, <4>1 DEF OwnerInv, Claims
    <3>3. Top(m) = lanes[m].frames[1]
      <4>1. lanes[m].frames \in Seq(FrameOf(m)) /\ lanes[m].frames # <<>>
        BY <3>2 DEF StructInv, LaneOf
      <4> QED
        BY <4>1, HeadTailProperties DEF Top
    <3>4. m \in Working /\ Top(m).exec = i
      BY <3>1, <3>2, <3>3 DEF Working
    <3> QED
      BY <2>1, <3>1, <3>2, <3>4 DEF OwnerInv
  <2>5. Owners(i) = {<<l, 1>>}
    BY <2>3, <2>4
  <2> QED
    BY <2>5, FS_Singleton
<1> QED
  BY <1>1, InitStruct, NextStruct, SpecOwner, PTL DEF Spec

-----------------------------------------------------------------------------
(* The pull request of a run that was resumed *)

(* The entries of run.steps that calls in progress may still mark *)
Held ==
  {i \in Nat : \E l \in DOMAIN lanes : \E k \in DOMAIN lanes[l].frames :
                 lanes[l].frames[k].exec = i}

(* The executions of s are still there in t, the reviewed ones reviewed and *)
(* the completed ones completed, but for those in H; the new ones are named *)
(* by the step they are of.                                                 *)
Keeps(s, H, t) ==
  /\ \A i \in DOMAIN s : /\ i \in DOMAIN t /\ t[i].num = s[i].num /\ t[i].of = s[i].of
                         /\ s[i].reviewed => t[i].reviewed
                         /\ s[i].status = "completed" /\ i \notin H => t[i].status = "completed"
  /\ \A i \in DOMAIN t \ DOMAIN s : t[i].of # 0 => t[i].num = t[i].of
ReviewsNone(s, t) == \A i \in DOMAIN t : t[i].reviewed => i \in DOMAIN s /\ s[i].reviewed

Named(s) == \A i \in DOMAIN s : s[i].of # 0 => s[i].num = s[i].of
HasDone(s, H, n) ==
  \E i \in DOMAIN s \ H : s[i].num = n /\ s[i].status = "completed"
HasReview(s, n) == \E i \in DOMAIN s : s[i].num = n /\ s[i].reviewed
(* A reviewed execution stays completed: no call in progress holds it. *)
StillDone(s, H) == \A i \in DOMAIN s : s[i].reviewed => s[i].status = "completed" /\ i \notin H
Accounts(s, H) ==
  \A n \in PlanSteps :
    \E i \in DOMAIN s \ H : /\ s[i].num = n /\ s[i].status = "completed"
                            /\ n \in plan.gates => s[i].reviewed
Sound(s, H) == Named(s) /\ StillDone(s, H)

AccountInv ==
  /\ Sound(steps, Held) /\ Sound(disk.steps, {})
  /\ pr => Accounts(steps, Held)
  /\ disk.pr => Accounts(disk.steps, {})
  /\ ctl = "finalize" \/ (ctl = "finally" /\ status = "completed") => Accounts(steps, Held)
  /\ ctl \in Going =>
       /\ completed \cap DOMAIN lanes = {}
       /\ \A n \in completed : HasDone(steps, Held, n)
       /\ ctl \in {"lanes", "rework"} => completed # PlanSteps
       /\ ctl = "lanes" => \A i \in DOMAIN signals : signals[i].num \in DOMAIN lanes
       /\ ctl \in {"gates", "gate_review"} =>
            /\ gateTodo \subseteq completed
            /\ \A n \in completed \cap plan.gates : n \in gateTodo \/ HasReview(steps, n)
       /\ ctl = "loop" /\ completed = PlanSteps =>
            \A n \in PlanSteps \cap plan.gates : HasReview(steps, n)

(* What a run accounts for it goes on to account for, as long as the calls  *)
(* in progress take hold of no older execution.                             *)
LEMMA AccountsKept ==
  ASSUME NEW s, NEW H, NEW t, NEW K, Keeps(s, H, t), K \cap DOMAIN s \subseteq H
  PROVE  /\ Accounts(s, H) => Accounts(t, K)
         /\ \A n : HasDone(s, H, n) => HasDone(t, K, n)
         /\ \A n : HasReview(s, n) => HasReview(t, n)
<1>1. ASSUME NEW i \in DOMAIN s
      PROVE  /\ i \in DOMAIN t /\ t[i].num = s[i].num /\ (s[i].reviewed => t[i].reviewed)
             /\ s[i].status = "completed" /\ i \notin H => t[i].status = "completed" /\ i \notin K
  BY <1>1 DEF Keeps
<1>2. ASSUME Accounts(s, H), NEW n \in PlanSteps
      PROVE  \E i \in DOMAIN t \ K : /\ t[i].num = n /\ t[i].status = "completed"
                                     /\ n \in plan.gates => t[i].reviewed
  <2>1. PICK i \in DOMAIN s \ H : /\ s[i].num = n /\ s[i].status = "completed"
                                  /\ n \in plan.gates => s[i].reviewed
    BY <1>2 DEF Accounts
  <2> QED
    BY <1>1, <2>1
<1>3. ASSUME NEW n, HasDone(s, H, n) PROVE HasDone(t, K, n)
  BY <1>1, <1>3 DEF HasDone
<1>4. ASSUME NEW n, HasReview(s, n) PROVE HasReview(t, n)
  BY <1>1, <1>4 DEF HasReview
<1> QED
  BY <1>2, <1>3, <1>4 DEF Accounts

(* Nor does a step that reviews nothing spoil what is reviewed. *)
LEMMA SoundKept ==
  ASSUME NEW s, NEW H, NEW t, NEW K, Keeps(s, H, t), K \cap DOMAIN s \subseteq H,
         ReviewsNone(s, t), Sound(s, H)
  PROVE  Sound(t, K)
<1>1. Named(t)
  <2> SUFFICES ASSUME NEW i \in DOMAIN t, t[i].of # 0 PROVE t[i].num = t[i].of
    BY DEF Named
  <2>1. CASE i \in DOMAIN s
    BY <2>1 DEF Keeps, Sound, Named
  <2>2. CASE i \notin DOMAIN s
    BY <2>2 DEF Keeps
  <2> QED
    BY <2>1, <2>2
<1>2. StillDone(t, K)
  BY DEF Keeps, ReviewsNone, Sound, StillDone
<1> QED
  BY <1>1, <1>2 DEF Sound

(* Nothing changes. *)
LEMMA KeepsItself ==
  ASSUME NEW s, NEW H
  PROVE  Keeps(s, H, s) /\ ReviewsNone(s, s)
  BY DEF Keeps, ReviewsNone

(* A new execution forgets none. *)
LEMMA BegunKeeps ==
  ASSUME steps \in Seq(Execution), NEW f, f.num \in Nat, f.of \in Nat, f.of # 0 => f.num = f.of,
         NEW b, b = Begun(f), NEW H
  PROVE  Keeps(steps, H, b) /\ ReviewsNone(steps, b)
<1>1. PICK e : e = [num |-> f.num, of |-> f.of, status |-> "running", reviewed |-> FALSE]
  OBVIOUS
<1>2. e \in Execution /\ b = Append(steps, e)
  BY <1>1 DEF Execution, StepStatus, Begun
<1>3. e.num = f.num /\ e.of = f.of /\ ~e.reviewed
  BY <1>1
<1>4. /\ DOMAIN b = 1..(Len(steps) + 1) /\ DOMAIN steps = 1..Len(steps) /\ Len(steps) \in Nat
      /\ \A i \in 1..(Len(steps) + 1) : b[i] = IF i = Len(steps) + 1 THEN e ELSE steps[i]
  BY <1>2, AppendProperties, LenProperties
<1>5. /\ \A i \in DOMAIN steps : i \in DOMAIN b /\ b[i] = steps[i]
      /\ \A i \in DOMAIN b \ DOMAIN steps : b[i] = e
  BY <1>4
<1> QED
  BY <1>3, <1>5 DEF Keeps, ReviewsNone

(* Marking one that is held, or a new one, neither. *)
LEMMA MarkKeeps ==
  ASSUME NEW s \in Seq(Execution), NEW i \in Nat, NEW st \in StepStatus, NEW t, t = Mark(s, i, st),
         NEW r, NEW H, Keeps(r, H, s), ReviewsNone(r, s), i \in H \/ i \notin DOMAIN r
  PROVE  Keeps(r, H, t) /\ ReviewsNone(r, t)
<1>1. /\ DOMAIN t = DOMAIN s
      /\ \A j \in DOMAIN s : /\ t[j].num = s[j].num /\ t[j].of = s[j].of
                             /\ t[j].reviewed = s[j].reviewed
  BY MarkType
<1>2. \A j \in DOMAIN s : j # i => t[j].status = s[j].status
  BY MarkStatus
<1> QED
  BY <1>1, <1>2 DEF Keeps, ReviewsNone

(* The calls of a running lane hold the executions they began. *)
LEMMA TopHolds ==
  ASSUME StructInv, NEW l \in DOMAIN lanes, Running(l)
  PROVE  /\ Top(l).exec \in Held
         /\ \A j \in DOMAIN Callers(l) : Callers(l)[j].exec \in Held
<1>1. lanes[l].frames \in Seq(FrameOf(l)) /\ lanes[l].frames # <<>>
  BY DEF StructInv, LaneOf
<1>2. PICK f \in FrameOf(l), c \in Seq(FrameOf(l)) :
        f = Top(l) /\ c = Callers(l) /\ lanes[l].frames = <<f>> \o c
  BY <1>1, Decompose DEF Top, Callers
<1>3. /\ DOMAIN (<<f>> \o c) = 1..(Len(c) + 1) /\ DOMAIN c = 1..Len(c) /\ Len(c) \in Nat
      /\ \A i \in 1..(Len(c) + 1) : (<<f>> \o c)[i] = IF i = 1 THEN f ELSE c[i - 1]
  BY OnTop
<1>4. /\ 1 \in DOMAIN lanes[l].frames /\ lanes[l].frames[1] = f
      /\ \A j \in DOMAIN c : j + 1 \in DOMAIN lanes[l].frames /\ lanes[l].frames[j + 1] = c[j]
  BY <1>2, <1>3
<1>5. f.exec \in Nat /\ \A j \in DOMAIN c : c[j].exec \in Nat
  BY <1>2 DEF FrameOf
<1>6. f.exec \in Held
  BY <1>4, <1>5 DEF Held
<1>7. ASSUME NEW j \in DOMAIN c PROVE c[j].exec \in Held
  BY <1>4, <1>5 DEF Held
<1> QED
  BY <1>2, <1>6, <1>7

(* A step of a lane takes hold of a new execution at most. *)
LEMMA LaneStepHolds ==
  ASSUME StructInv, SettledInv, OwnerInv, NEW l \in DOMAIN lanes, LaneStep(l)
  PROVE  Held' \cap DOMAIN steps \subseteq Held
<1>1. OwnerEffect(l) /\ Running(l)
  BY LaneStepOwns, LaneStepShape
<1>2. DOMAIN lanes' = DOMAIN lanes /\ \A m \in DOMAIN lanes \ {l} : lanes'[m] = lanes[m]
  BY LaneStepEffect DEF LaneEffect, LaneChange, SetLane
<1>3. DOMAIN steps = 1..Len(steps) /\ Len(steps) \in Nat
  BY LenProperties DEF StructInv, TypeOK
<1>4. PICK f, c : /\ f = Top(l) /\ c = Callers(l) /\ c \in Seq(FrameOf(l))
                  /\ f.exec \in Held /\ \A j \in DOMAIN c : c[j].exec \in Held
  BY <1>1, TopHolds, TopType
<1>5. ASSUME NEW i \in DOMAIN steps, NEW k \in DOMAIN lanes'[l].frames,
             lanes'[l].frames[k].exec = i
      PROVE  i \in Held
  <2>1. CASE Inherits(lanes'[l].frames, f, c)
    <3>1. i \in {0, f.exec} \cup {c[j].exec : j \in DOMAIN c}
      BY <1>5, <2>1 DEF Inherits
    <3>2. i # 0
      BY <1>3
    <3> QED
      BY <1>4, <3>1, <3>2
  <2>2. CASE \E g \in FrameOf(l) : g.exec = Len(steps) + 1 /\ lanes'[l].frames = <<g>> \o c
    <3>1. PICK g \in FrameOf(l) : g.exec = Len(steps) + 1 /\ lanes'[l].frames = <<g>> \o c
      BY <2>2
    <3>2. /\ DOMAIN (<<g>> \o c) = 1..(Len(c) + 1) /\ DOMAIN c = 1..Len(c) /\ Len(c) \in Nat
          /\ \A j \in 1..(Len(c) + 1) : (<<g>> \o c)[j] = IF j = 1 THEN g ELSE c[j - 1]
      BY <1>4, OnTop
    <3>3. CASE k = 1
      BY <1>3, <1>5, <3>1, <3>2, <3>3
    <3>4. CASE k # 1
      <4>1. k - 1 \in DOMAIN c /\ lanes'[l].frames[k] = c[k - 1]
        BY <1>5, <3>1, <3>2, <3>4
      <4> QED
        BY <1>4, <1>5, <4>1
    <3> QED
      BY <3>3, <3>4
  <2> QED
    BY <1>1, <1>4, <2>1, <2>2 DEF OwnerEffect
<1>6. ASSUME NEW i \in Held', i \in DOMAIN steps PROVE i \in Held
  <2>1. PICK m \in DOMAIN lanes' :
          \E k \in DOMAIN lanes'[m].frames : lanes'[m].frames[k].exec = i
    BY <1>6 DEF Held
  <2>2. CASE m = l
    BY <1>5, <1>6, <2>1, <2>2
  <2>3. CASE m # l
    BY <1>2, <1>6, <2>1, <2>3 DEF Held
  <2> QED
    BY <2>2, <2>3
<1> QED
  BY <1>6

(* The lanes forget nothing, on disk neither. *)
LEMMA LaneStepKeeps ==
  ASSUME StructInv, NEW l \in DOMAIN lanes, LaneStep(l)
  PROVE  /\ Keeps(steps, Held, steps') /\ ReviewsNone(steps, steps')
         /\ \/ disk' = disk
            \/ /\ disk'.pr = pr
               /\ Keeps(steps, Held, disk'.steps) /\ ReviewsNone(steps, disk'.steps)
<1>1. Running(l)
  BY LaneStepShape
<1>2. PICK f, c : f = Top(l) /\ c = Callers(l)
  OBVIOUS
<1>3. /\ steps \in Seq(Execution) /\ f \in FrameOf(l) /\ c \in Seq(FrameOf(l))
      /\ f.num \in Nat /\ f.of \in Nat /\ f.exec \in Nat
      /\ f.of # 0 => f.num = f.of
      /\ f.exec \in Held /\ \A j \in DOMAIN c : c[j].exec \in Held
  BY <1>1, <1>2, TopType, TopHolds DEF StructInv, TypeOK, FrameOf
<1>4. {"completed", "failed", "needs_rework"} \subseteq StepStatus
  BY DEF StepStatus
<1>5. PICK b : b = Begun(f)
  OBVIOUS
<1>6. /\ Keeps(steps, Held, b) /\ ReviewsNone(steps, b)
      /\ Keeps(steps, Held, steps) /\ ReviewsNone(steps, steps)
  <2>1. Keeps(steps, Held, b) /\ ReviewsNone(steps, b)
    BY <1>3, <1>5, BegunKeeps
  <2>2. Keeps(steps, Held, steps) /\ ReviewsNone(steps, steps)
    BY KeepsItself
  <2> QED
    BY <2>1, <2>2
<1>7. b \in Seq(Execution) /\ Len(b) \in Nat /\ Len(b) \notin DOMAIN steps
  <2>1. /\ b \in Seq(Execution) /\ Len(b) = Len(steps) + 1 /\ Len(steps) \in Nat
        /\ DOMAIN steps = 1..Len(steps)
    BY <1>3, <1>5, BegunStatus
  <2> QED
    BY <2>1
<1>8. ASSUME NEW i \in Held, NEW st \in {"completed", "failed", "needs_rework"}
      PROVE  /\ Keeps(steps, Held, Mark(steps, i, st)) /\ ReviewsNone(steps, Mark(steps, i, st))
             /\ Keeps(steps, Held, Mark(b, i, st)) /\ ReviewsNone(steps, Mark(b, i, st))
  <2>1. i \in Nat /\ st \in StepStatus
    BY <1>4 DEF Held
  <2>2. PICK t, u : t = Mark(steps, i, st) /\ u = Mark(b, i, st)
    OBVIOUS
  <2>3. Keeps(steps, Held, t) /\ ReviewsNone(steps, t)
    BY <1>3, <1>6, <2>1, <2>2, MarkKeeps
  <2>4. Keeps(steps, Held, u) /\ ReviewsNone(steps, u)
    BY <1>6, <1>7, <2>1, <2>2, MarkKeeps
  <2> QED
    BY <2>2, <2>3, <2>4
<1>9. Keeps(steps, Held, Mark(b, Len(b), "failed")) /\ ReviewsNone(steps, Mark(b, Len(b), "failed"))
  <2>1. PICK t, i : t = Mark(b, i, "failed") /\ i = Len(b)
    OBVIOUS
  <2>2. "failed" \in StepStatus
    BY <1>4
  <2>3. Keeps(steps, Held, t) /\ ReviewsNone(steps, t)
    BY <1>6, <1>7, <2>1, <2>2, MarkKeeps
  <2> QED
    BY <2>1, <2>3
<1>10. CASE SubWorktreeFails(l) \/ QualityGatePasses(l)
  BY <1>6, <1>10 DEF SubWorktreeFails, QualityGatePasses
<1>11. CASE StartAgent(l)
  BY <1>2, <1>5, <1>6, <1>11 DEF StartAgent, RunRecord
<1>12. CASE LimitReached(l)
  BY <1>2, <1>5, <1>6, <1>9, <1>12 DEF LimitReached, RunRecord
<1>13. CASE StartThrows(l)
  <2>1. disk' = disk \/ (disk'.pr = pr /\ disk'.steps = b)
    BY <1>2, <1>5, <1>13 DEF StartThrows, RunRecord
  <2>2. CASE steps' = b
    BY <1>6, <2>1, <2>2
  <2>3. CASE c # <<>> /\ steps' = Mark(b, Head(c).exec, "failed")
    <3>1. 1 \in DOMAIN c /\ Head(c) = c[1]
      BY <1>3, <2>3, HeadTailProperties, EmptySeq, LenProperties
    <3> QED
      BY <1>3, <1>6, <1>8, <2>1, <2>3, <3>1
  <2> QED
    BY <1>2, <1>5, <1>13, <2>2, <2>3 DEF StartThrows
<1>14. ASSUME disk' = disk,
              \E st \in {"completed", "failed", "needs_rework"} : steps' = Mark(steps, f.exec, st)
       PROVE  Keeps(steps, Held, steps') /\ ReviewsNone(steps, steps')
  BY <1>3, <1>8, <1>14
<1>15. CASE AgentCompletes(l) \/ CommitFails(l) \/ AgentFails(l) \/ AgentSignalsRework(l)
  <2>1. /\ disk' = disk
        /\ \E st \in {"completed", "failed", "needs_rework"} : steps' = Mark(steps, f.exec, st)
    BY <1>2, <1>15 DEF AgentCompletes, CommitFails, AgentFails, AgentSignalsRework
  <2> QED
    BY <1>14, <2>1
<1>16. CASE AgentNeedsRework(l) \/ QualityGateFails(l)
  <2>1. /\ disk' = disk
        /\ \E st \in {"completed", "failed", "needs_rework"} : steps' = Mark(steps, f.exec, st)
    BY <1>2, <1>16 DEF AgentNeedsRework, QualityGateFails
  <2> QED
    BY <1>14, <2>1
<1> QED
  BY <1>10, <1>11, <1>12, <1>13, <1>15, <1>16 DEF LaneStep

(* A new run satisfies it. *)
LEMMA InitAccount == Init => AccountInv
<1> SUFFICES ASSUME Init PROVE AccountInv
  OBVIOUS
<1>1. completed = PlanSteps => PlanSteps = {}
  BY DEF Init
<1>2. Sound(steps, Held) /\ Sound(disk.steps, {})
  BY DEF Init, RunRecord, Sound, Named, StillDone
<1> QED
  BY <1>1, <1>2 DEF Init, AccountInv, RunRecord

(* The lanes keep it. *)
LEMMA LaneStepAccount ==
  ASSUME StructInv, SettledInv, DeliveryInv, OwnerInv, AccountInv,
         NEW l \in DOMAIN lanes, LaneStep(l)
  PROVE  AccountInv'
<1>1. /\ UNCHANGED <<plan, pr, ctl, completed, gateTodo>>
      /\ DOMAIN lanes' = DOMAIN lanes
      /\ \A i \in DOMAIN signals' :
           signals'[i].num = l \/ \E j \in DOMAIN signals : signals[j].num = signals'[i].num
  BY LaneStepEffect DEF LaneEffect, LaneChange, SetLane
<1>2. Keeps(steps, Held, steps') /\ ReviewsNone(steps, steps')
  BY LaneStepKeeps
<1>3. \/ disk' = disk
      \/ disk'.pr = pr /\ Keeps(steps, Held, disk'.steps) /\ ReviewsNone(steps, disk'.steps)
  BY LaneStepKeeps
<1>4. Held' \cap DOMAIN steps \subseteq Held
  BY LaneStepHolds
<1>5. ctl \notin {"loop", "budget", "budget_review", "gates", "gate_review", "finally",
                  "finalize", "down"}
  BY NoLanesType DEF DeliveryInv
<1>6. Sound(steps, Held) /\ Sound(disk.steps, {})
  BY DEF AccountInv
<1>7. Sound(steps', Held')
  BY <1>2, <1>4, <1>6, SoundKept
<1>8. Sound(disk'.steps, {})
  BY <1>2, <1>3, <1>6, SoundKept
<1>9. /\ Accounts(steps, Held) => Accounts(steps', Held')
      /\ \A n : HasDone(steps, Held, n) => HasDone(steps', Held', n)
  BY <1>2, <1>4, AccountsKept
<1>10. disk'.pr => Accounts(disk'.steps, {})
  BY <1>3, AccountsKept DEF AccountInv
<1>11. Accounts(steps', Held') <=> Accounts(steps, Held)'
  BY <1>1 DEF Accounts, PlanSteps
<1>12. Accounts(disk'.steps, {}) <=> Accounts(disk.steps, {})'
  BY <1>1 DEF Accounts, PlanSteps
<1>13. ctl \in Going => \A n \in completed : HasDone(steps', Held', n)
  BY <1>9 DEF AccountInv
<1> QED
  BY <1>1, <1>5, <1>7, <1>8, <1>9, <1>10, <1>11, <1>12, <1>13 DEF AccountInv, PlanSteps

(* The first completed execution of the approved step is reviewed. *)
LEMMA ApprovalReviews ==
  ASSUME StructInv, ReviewApproved, Held = {}, HasDone(steps, Held, review), Sound(steps, Held)
  PROVE  /\ Keeps(steps, Held, steps') /\ HasReview(steps', review)
         /\ Sound(steps', {})
<1>1. steps \in [1..Len(steps) -> Execution] /\ Len(steps) \in Nat /\ DOMAIN steps = 1..Len(steps)
  BY LenProperties DEF StructInv, TypeOK
<1>2. /\ DOMAIN steps' = DOMAIN steps
      /\ \A i \in DOMAIN steps : steps'[i] = IF FirstCompleted(i, review)
                                             THEN [steps[i] EXCEPT !.reviewed = TRUE]
                                             ELSE steps[i]
  BY DEF ReviewApproved
<1>3. \A i \in DOMAIN steps :
        /\ steps'[i].num = steps[i].num /\ steps'[i].of = steps[i].of
        /\ steps'[i].status = steps[i].status
        /\ steps'[i].reviewed <=> steps[i].reviewed \/ FirstCompleted(i, review)
  <2> SUFFICES ASSUME NEW i \in DOMAIN steps
               PROVE  /\ steps'[i].num = steps[i].num /\ steps'[i].of = steps[i].of
                      /\ steps'[i].status = steps[i].status
                      /\ steps'[i].reviewed <=> steps[i].reviewed \/ FirstCompleted(i, review)
    OBVIOUS
  <2>1. steps[i] \in Execution
    BY <1>1
  <2> QED
    BY <1>2, <2>1 DEF Execution
<1>4. PICK T : T = {i \in DOMAIN steps : steps[i].num = review /\ steps[i].status = "completed"}
  OBVIOUS
<1>5. T \in SUBSET Nat /\ T # {}
  BY <1>1, <1>4 DEF HasDone
<1>6. PICK n \in T : \A m \in T : n <= m
  BY <1>5, Smallest
<1>7. FirstCompleted(n, review)
  <2>1. \A j \in 1..(n - 1) : j \notin T
    BY <1>5, <1>6
  <2>2. \A j \in 1..(n - 1) : j \in DOMAIN steps
    BY <1>1, <1>4
  <2> QED
    BY <1>4, <2>1, <2>2 DEF FirstCompleted
<1>8. HasReview(steps', review)
  BY <1>2, <1>3, <1>4, <1>7 DEF HasReview
<1>9. Keeps(steps, Held, steps')
  BY <1>2, <1>3 DEF Keeps
<1>10. Sound(steps', {})
  <2>1. Named(steps')
    BY <1>2, <1>3 DEF Sound, Named
  <2>2. \A i \in DOMAIN steps : steps'[i].reviewed => steps[i].status = "completed"
    BY <1>3 DEF Sound, StillDone, FirstCompleted
  <2> QED
    BY <1>2, <1>3, <2>1, <2>2 DEF Sound, StillDone
<1> QED
  BY <1>8, <1>9, <1>10

(* executePlan begins calls that hold nothing, or leaves the calls alone. *)
LEMMA EngineHolds ==
  ASSUME StructInv, StructInv', DeliveryInv, Engine
  PROVE  /\ Held' \cap DOMAIN steps \subseteq Held
         /\ lanes = NoLanes => Held = {}
<1>0. DOMAIN NoLanes = {} /\ 0 \notin DOMAIN steps
  <2>1. DOMAIN steps = 1..Len(steps)
    BY LenProperties DEF StructInv, TypeOK
  <2> QED
    BY <2>1, NoLanesType
<1>1. CASE lanes' = lanes \/ lanes' = NoLanes
  BY <1>0, <1>1 DEF Held
<1>2. CASE \A l \in DOMAIN lanes' : \A k \in DOMAIN lanes'[l].frames : lanes'[l].frames[k].exec = 0
  BY <1>0, <1>2 DEF Held
<1>3. CASE LaunchParallel \/ LaunchSequential
  <2>1. PICK G, d : Launch(G, d)
    BY <1>3 DEF LaunchParallel, LaunchSequential
  <2>2. ASSUME NEW l \in DOMAIN lanes', NEW k \in DOMAIN lanes'[l].frames
        PROVE  lanes'[l].frames[k].exec = 0
    <3>1. PICK g : g = StartFrame(l, l, d)
      OBVIOUS
    <3>2. lanes'[l].frames = <<g>>
      BY <2>1, <3>1 DEF Launch
    <3>3. g.exec = 0
      BY <3>1 DEF StartFrame
    <3> QED
      BY <3>2, <3>3
  <2> QED
    BY <1>2, <2>2
<1>4. CASE GroupReplans /\ lanes' # NoLanes
  <2>0. PICK q \in ReworkPlans(signals[1].num) :
          LET F == Proceed(<<[StartFrame(signals[1].num, signals[1].num, FALSE) EXCEPT !.at = "replan",
                                                                     !.todo = q]>>)
          IN  lanes' = [k \in {signals[1].num} |->
                [frames |-> F, result |-> IF F = <<>> THEN "completed" ELSE "running"]]
    BY <1>4 DEF GroupReplans
  <2>1. PICK n, fr :
          /\ q \in ReworkPlans(n)
          /\ fr = Proceed(<<[StartFrame(n, n, FALSE) EXCEPT !.at = "replan", !.todo = q]>>)
          /\ lanes' = [k \in {n} |->
               [frames |-> fr, result |-> IF fr = <<>> THEN "completed" ELSE "running"]]
    BY <2>0
  <2>2. n \in PlanSteps /\ plan \in Plans
    BY <1>4, <2>1 DEF StructInv, TypeOK, PlanSteps, GroupReplans
  <2>3. \A k \in DOMAIN fr : fr[k].exec = 0
    BY <2>1, <2>2, ReplanHolds
  <2>4. \A l \in DOMAIN lanes' : lanes'[l].frames = fr
    BY <2>1
  <2> QED
    BY <1>2, <2>3, <2>4
<1>5. CASE ~(LaunchParallel \/ LaunchSequential \/ GroupReplans)
  BY <1>1, <1>5
  DEF Engine, PlanDeadlock, GroupFails, ReworkDone, GroupCompletes, LaneThrew, SkipConfirmation,
      AskConfirmation, ConfirmationGiven, ConfirmationRefused, SkipGate, RequestReview,
      ReviewApproved, ReviewRejected, GatesDone, PlanCompleted, EngineThrows, Teardown, Finalize
<1>6. lanes = NoLanes => Held = {}
  BY <1>0 DEF Held
<1> QED
  BY <1>1, <1>3, <1>4, <1>5, <1>6

(* executePlan keeps it: the gate loop visits every completed gated step,   *)
(* those completed before a resume included, and a resumed run has at least *)
(* one group left to run.                                                   *)
LEMMA EngineAccount ==
  ASSUME StructInv, StructInv', SettledInv, DeliveryInv, AccountInv, Engine
  PROVE  AccountInv'
<1> USE DEF AccountInv, PlanSteps, Going
<1>h. Held' \cap DOMAIN steps \subseteq Held /\ (lanes = NoLanes => Held = {})
  BY EngineHolds
<1>0. completed \subseteq PlanSteps /\ plan.gates \subseteq PlanSteps /\ DOMAIN NoLanes = {}
  BY PlansAssumption, NoLanesType DEF StructInv, TypeOK, PlanType
<1>e. ASSUME UNCHANGED <<plan, steps>>
      PROVE  /\ Accounts(steps, Held) => Accounts(steps, Held)'
             /\ \A n : HasDone(steps, Held, n) => HasDone(steps, Held, n)'
             /\ \A n : HasReview(steps, n)' <=> HasReview(steps, n)
             /\ Sound(steps, Held)'
  BY <1>h, <1>e DEF Accounts, HasDone, HasReview, Sound, Named, StillDone
<1>d. ASSUME UNCHANGED <<plan, disk>>
      PROVE  /\ Accounts(disk.steps, {})' <=> Accounts(disk.steps, {})
             /\ Sound(disk.steps, {})'
  BY <1>d DEF Accounts, Sound, Named, StillDone
<1>1. CASE LaunchParallel \/ LaunchSequential
  <2>1. PICK G \in SUBSET Ready, d \in BOOLEAN : Launch(G, d) /\ ctl = "loop" /\ completed # PlanSteps
    BY <1>1 DEF LaunchParallel, LaunchSequential
  <2>2. /\ DOMAIN lanes' = G /\ ctl' = "lanes" /\ DOMAIN signals' = {}
        /\ UNCHANGED <<plan, steps, pr, disk, completed, status>>
    BY <2>1 DEF Launch
  <2>3. G \cap completed = {}
    BY DEF Ready
  <2> QED
    BY <1>e, <1>d, <2>1, <2>2, <2>3
<1>2. CASE PlanDeadlock \/ GroupFails \/ ConfirmationRefused \/ ReviewRejected
  <2>1. /\ UNCHANGED <<plan, steps, pr, disk>> /\ ctl' = "finally" /\ status' = "failed"
    BY <1>2 DEF PlanDeadlock, GroupFails, ConfirmationRefused, ReviewRejected, FailRun
  <2> QED
    BY <1>e, <1>d, <2>1
<1>3. CASE GroupReplans
  <2>1. /\ UNCHANGED <<plan, steps, pr, disk, completed>> /\ ctl = "lanes"
        /\ ctl' \in {"rework", "unwind"} /\ signals # <<>>
        /\ DOMAIN lanes' \subseteq {signals[1].num}
    BY <1>0, <1>3 DEF GroupReplans
  <2>2. signals[1].num \notin completed
    <3>1. signals \in Seq([num : PlanSteps, rework : Nat])
      BY DEF StructInv, TypeOK
    <3>2. Len(signals) \in Nat \ {0} /\ DOMAIN signals = 1..Len(signals)
      BY <2>1, <3>1, EmptySeq, LenProperties
    <3>3. signals[1].num \in DOMAIN lanes
      BY <2>1, <3>2
    <3> QED
      BY <2>1, <3>3
  <2> QED
    BY <1>e, <1>d, <2>1, <2>2
<1>4. CASE ReworkDone \/ LaneThrew
  <2>1. /\ UNCHANGED <<plan, steps, pr, disk, completed>>
        /\ \/ ctl = "rework" /\ ctl' = "loop" /\ lanes' = NoLanes
           \/ ctl' = "unwind"
    BY <1>4 DEF ReworkDone, LaneThrew
  <2> QED
    BY <1>0, <1>e, <1>d, <2>1
<1>5. CASE GroupCompletes
  <2>1. /\ UNCHANGED <<plan, steps, pr, disk>> /\ ctl = "lanes" /\ ctl' = "budget"
        /\ completed' = completed \cup DOMAIN lanes /\ lanes' = NoLanes
        /\ Settled /\ ~SomeFailed /\ signals = <<>>
    BY <1>5 DEF GroupCompletes
  <2>2. ASSUME NEW l \in DOMAIN lanes PROVE HasDone(steps, Held, l)'
    <3>1. Done(l) /\ l # 0
      BY <2>1, PlanNumbers DEF Settled, SomeFailed, SettledInv, LaneInv, StructInv, TypeOK
    <3>2. PICK i \in DOMAIN steps : steps[i].of = l /\ steps[i].status = "completed"
      BY <3>1 DEF Done, LatestCompleted, Executions
    <3>3. steps[i].num = l
      BY <3>1, <3>2 DEF Sound, Named
    <3>4. Held' = {}
      BY <1>0, <2>1 DEF Held
    <3> QED
      BY <2>1, <3>2, <3>3, <3>4 DEF HasDone
  <2>3. \A n \in completed' : HasDone(steps, Held, n)'
    BY <1>e, <2>1, <2>2
  <2> QED
    BY <1>0, <1>e, <1>d, <2>1, <2>3
<1>6. CASE SkipConfirmation \/ AskConfirmation \/ ConfirmationGiven
  <2>1. /\ UNCHANGED <<plan, steps, pr, disk, completed, lanes>>
        /\ ctl \in {"budget", "budget_review"}
        /\ \/ ctl' = "gates" /\ gateTodo' = completed \cap plan.gates
           \/ ctl' = "budget_review"
    BY <1>6 DEF SkipConfirmation, AskConfirmation, ConfirmationGiven, OpenGates
  <2> QED
    BY <1>e, <1>d, <2>1
<1>7. CASE SkipGate
  <2>1. PICK s \in gateTodo : AlreadyReviewed(s) /\ gateTodo' = gateTodo \ {s}
    BY <1>7 DEF SkipGate
  <2>2. HasReview(steps, s)
    BY <2>1 DEF AlreadyReviewed, HasReview
  <2>3. /\ UNCHANGED <<plan, steps, pr, disk, completed, lanes, ctl>> /\ ctl = "gates"
    BY <1>7 DEF SkipGate
  <2> QED
    BY <1>e, <1>d, <2>1, <2>2, <2>3
<1>8. CASE RequestReview
  <2>1. /\ UNCHANGED <<plan, steps, pr, disk, completed, lanes, gateTodo>>
        /\ ctl = "gates" /\ ctl' = "gate_review"
    BY <1>8 DEF RequestReview
  <2> QED
    BY <1>e, <1>d, <2>1
<1>9. CASE ReviewApproved
  <2>1. /\ UNCHANGED <<plan, pr, disk, completed, lanes>>
        /\ ctl = "gate_review" /\ ctl' = "gates" /\ gateTodo' = gateTodo \ {review}
    BY <1>9 DEF ReviewApproved
  <2>2. HasDone(steps, Held, review) /\ Held = {} /\ Held' = {}
    BY <1>h, <2>1 DEF StructInv, ReviewOpen, DeliveryInv, Held
  <2>3. Keeps(steps, Held, steps') /\ HasReview(steps', review) /\ Sound(steps', {})
    BY <1>9, <2>2, ApprovalReviews
  <2>4. /\ Accounts(steps, Held) => Accounts(steps', Held')
        /\ \A n : HasReview(steps, n) => HasReview(steps', n)
        /\ \A n : HasDone(steps, Held, n) => HasDone(steps', Held', n)
    BY <2>2, <2>3, AccountsKept
  <2>5. /\ Accounts(steps', Held') <=> Accounts(steps, Held)'
        /\ Sound(steps', Held')
    BY <2>1, <2>2, <2>3 DEF Accounts
  <2> QED
    BY <1>d, <2>1, <2>3, <2>4, <2>5
<1>10. CASE GatesDone
  <2>1. /\ UNCHANGED <<plan, steps, pr, disk, completed, lanes>>
        /\ ctl = "gates" /\ gateTodo = {} /\ ctl' = "loop"
    BY <1>10 DEF GatesDone
  <2> QED
    BY <1>e, <1>d, <2>1
<1>11. CASE PlanCompleted
  <2>1. /\ UNCHANGED <<plan, steps, pr, disk>>
        /\ ctl = "loop" /\ completed = PlanSteps /\ ctl' = "finally"
    BY <1>11 DEF PlanCompleted
  <2>2. Accounts(steps, Held)
    BY <2>1 DEF Accounts, HasDone, HasReview, Sound, StillDone
  <2> QED
    BY <1>e, <1>d, <2>1, <2>2
<1>12. CASE EngineThrows
  <2>1. UNCHANGED <<plan, steps, pr, disk>> /\ ctl' = "unwind"
    BY <1>12 DEF EngineThrows
  <2> QED
    BY <1>e, <1>d, <2>1
<1>13. CASE Teardown
  <2>1. /\ UNCHANGED <<plan, steps, pr, disk>> /\ ctl' \in {"finalize", "ended"}
        /\ ctl' = "finalize" => ctl = "finally" /\ status = "completed"
    BY <1>13 DEF Teardown
  <2> QED
    BY <1>e, <1>d, <2>1
<1>14. CASE Finalize
  <2>1. /\ UNCHANGED <<plan, steps, disk>> /\ ctl = "finalize" /\ ctl' = "ended"
    BY <1>14 DEF Finalize
  <2> QED
    BY <1>e, <1>d, <2>1
<1> QED
  BY <1>1, <1>2, <1>3, <1>4, <1>5, <1>6, <1>7, <1>8, <1>9, <1>10, <1>11, <1>12, <1>13, <1>14
  DEF Engine

(* The environment keeps it: what a crash leaves on disk is accounted for,  *)
(* and a resumed run starts below a step it has not completed.              *)
LEMMA EnvironmentAccount ==
  ASSUME StructInv, GateInv, AccountInv, Environment
  PROVE  AccountInv'
<1> USE DEF AccountInv, PlanSteps, Going
<1>0. DOMAIN NoLanes = {}
  BY NoLanesType
<1>1. CASE FlushRunState
  <2>1. /\ UNCHANGED <<plan, steps, pr, ctl, completed, lanes, gateTodo, status, signals>>
        /\ disk'.pr = pr /\ disk'.steps = steps
    BY <1>1 DEF FlushRunState, RunRecord
  <2>2. Held' = Held
    BY <2>1 DEF Held
  <2>3. /\ Accounts(steps, Held)' <=> Accounts(steps, Held)
        /\ Accounts(steps, Held) => Accounts(disk.steps, {})'
    BY <2>1, <2>2 DEF Accounts
  <2>4. /\ \A n : HasDone(steps, Held, n)' <=> HasDone(steps, Held, n)
        /\ \A n : HasReview(steps, n)' <=> HasReview(steps, n)
    BY <2>1, <2>2 DEF HasDone, HasReview
  <2>5. Sound(steps, Held)' /\ Sound(disk.steps, {})'
    BY <2>1, <2>2 DEF Sound, Named, StillDone
  <2> QED
    BY <2>1, <2>3, <2>4, <2>5
<1>2. CASE ProcessDies
  <2>1. /\ UNCHANGED <<plan, disk>> /\ ctl' = "down" /\ steps' = disk.steps /\ pr' = disk.pr
        /\ lanes' = NoLanes
    BY <1>2 DEF ProcessDies
  <2>2. Held' = {}
    BY <1>0, <2>1 DEF Held
  <2>3. Accounts(disk.steps, {}) => Accounts(steps, Held)' /\ Accounts(disk.steps, {})'
    BY <2>1, <2>2 DEF Accounts
  <2>4. Sound(steps, Held)' /\ Sound(disk.steps, {})'
    BY <2>1, <2>2 DEF Sound, Named, StillDone
  <2> QED
    BY <2>1, <2>3, <2>4
<1>3. CASE CancelSession
  <2>1. UNCHANGED <<plan, disk, ctl, steps, pr, lanes>> /\ ctl = "down"
    BY <1>3 DEF CancelSession
  <2> QED
    BY <2>1 DEF Accounts, Held, Sound, Named, StillDone
<1>4. CASE ResumeTask
  <2>1. /\ UNCHANGED <<plan, disk, pr, lanes>> /\ ctl = "down" /\ ctl' = "loop"
        /\ steps' = Interrupted(steps)
    BY <1>4 DEF ResumeTask
  <2>2. PICK from \in PlanSteps : completed' = InitialCompleted(steps', from)
    BY <1>4 DEF ResumeTask
  <2>3. from \in Nat
    BY PlanNumbers DEF StructInv, TypeOK
  <2>4. DOMAIN lanes = {} /\ DOMAIN lanes' = {}
    BY <1>0, <2>1 DEF GateInv
  <2>5. Held = {} /\ Held' = {}
    BY <2>4 DEF Held
  <2>6. completed' # PlanSteps /\ \A n \in completed' : HasDone(steps', Held', n)
    BY <2>2, <2>3, <2>5 DEF InitialCompleted, HasDone
  <2>7. Keeps(steps, Held, steps') /\ ReviewsNone(steps, steps')
    <3>1. steps \in [1..Len(steps) -> Execution] /\ DOMAIN steps = 1..Len(steps)
      BY LenProperties DEF StructInv, TypeOK
    <3>2. /\ DOMAIN steps' = DOMAIN steps
          /\ \A i \in DOMAIN steps :
               /\ steps'[i].num = steps[i].num /\ steps'[i].of = steps[i].of
               /\ steps'[i].reviewed = steps[i].reviewed
               /\ steps[i].status = "completed" => steps'[i].status = "completed"
      BY <2>1, <3>1 DEF Interrupted, Execution
    <3> QED
      BY <3>2 DEF Keeps, ReviewsNone
  <2>8. Accounts(steps, Held) => Accounts(steps', Held')
    BY <2>5, <2>7, AccountsKept
  <2>9. Sound(steps', Held')
    BY <2>5, <2>7, SoundKept
  <2>10. /\ Accounts(steps', Held') <=> Accounts(steps, Held)'
         /\ Accounts(disk.steps, {}) <=> Accounts(disk.steps, {})'
         /\ Sound(disk.steps, {})'
    BY <2>1 DEF Accounts, Sound, Named, StillDone
  <2> QED
    BY <2>1, <2>4, <2>6, <2>8, <2>9, <2>10
<1> QED
  BY <1>1, <1>2, <1>3, <1>4 DEF Environment

(* For every set of plans, every limit, whatever rework steps are numbered, *)
(* and however often the run crashes and is resumed: its pull request       *)
(* stands on a completed execution under the number of every plan step, a   *)
(* reviewed one where there is a gate (orchestration-service.ts:897-1178,   *)
(* 512-604).                                                                *)
THEOREM PrIsAccountedFor == Spec => []PrAccountsForEveryStep
<1>1. /\ StructInv /\ StructInv' /\ GateInv /\ SettledInv /\ DeliveryInv /\ OwnerInv
      /\ AccountInv /\ [Next]_vars
      => AccountInv'
  <2> SUFFICES ASSUME StructInv, StructInv', GateInv, SettledInv, DeliveryInv, OwnerInv,
                      AccountInv, [Next]_vars
               PROVE  AccountInv'
    OBVIOUS
  <2>1. CASE Lanes
    BY <2>1, LaneStepAccount DEF Lanes
  <2>2. CASE UNCHANGED vars
    <3>1. /\ UNCHANGED <<plan, disk, steps, pr, lanes, ctl, status, completed, signals, gateTodo>>
      BY <2>2 DEF vars, runVars, planVars, gateVars, storeVars
    <3>2. Held' = Held
      BY <3>1 DEF Held
    <3> QED
      BY <3>1, <3>2
      DEF AccountInv, Accounts, HasDone, HasReview, PlanSteps, Going, Sound, Named, StillDone
  <2> QED
    BY <2>1, <2>2, EngineAccount, EnvironmentAccount DEF Next, Quiet
<1>2. AccountInv => PrAccountsForEveryStep
  BY DEF AccountInv, Accounts, PrAccountsForEveryStep
<1> QED
  BY <1>1, <1>2, InitStruct, NextStruct, SpecSettled, SpecDelivery, SpecOwner, InitAccount, PTL
  DEF Spec

=============================================================================
