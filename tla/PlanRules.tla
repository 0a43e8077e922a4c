------------------------------ MODULE PlanRules ------------------------------
\* PlanValidator.validate: the planner's plan with what the rules ask for injected,
\* unknown agents remapped or dropped, and rejected if it is not coherent.  A step
\* is [number, agent, deps], a gate [after, required]; the rules are those whose
\* condition holds for the ticket and the plan.
EXTENDS Naturals, Sequences, FiniteSets, SequencesExt, FiniteSetsExt

CONSTANTS Agents,    \* the agents of platform.yaml, in their order: [type, role]
          Catalog,   \* the agents the project prefers
          Remapped(_) \* the known agent an unknown name resolves to, or ""

\* An agent of agents/ is not added where platform.yaml has one of that name.
ASSUME AgentsAssumption ==
  /\ Agents \in Seq([type : STRING, role : STRING])
  /\ \A i, j \in DOMAIN Agents : Agents[i].type = Agents[j].type => i = j

StepType == [number : Nat, agent : STRING, deps : SUBSET Nat]
Names == STRING \ {""}
RuleType == [type : {"agent", "role", "gate"}, target : Names]

Known(agent) == \E i \in DOMAIN Agents : Agents[i].type = agent
\* getRoleForAgent
RoleOf(agent) ==
  IF Known(agent) THEN Agents[Min({i \in DOMAIN Agents : Agents[i].type = agent})].role ELSE ""

\* ROLE_ORDER, of the roles the instances use.
RoleOrder == <<"architect", "developer", "qa", "security">>
RoleIndex(role) == IF \E i \in DOMAIN RoleOrder : RoleOrder[i] = role
                     THEN CHOOSE i \in DOMAIN RoleOrder : RoleOrder[i] = role ELSE 0

Numbers(steps) == {s.number : s \in ToSet(steps)}
\* The last of those steps; 0 when there is none
LastOf(steps, those) == IF those = {} THEN 0 ELSE steps[Max(those)].number

\* getInsertionPoint: the last step of the nearest earlier role, else the last step;
\* 0 when there is none.
InsertionPoint(plan, agent) ==
  LET prior == {i \in 1 .. RoleIndex(RoleOf(agent)) - 1 :
                  \E s \in ToSet(plan.steps) : RoleOf(s.agent) = RoleOrder[i]}
  IN  LastOf(plan.steps, {i \in DOMAIN plan.steps :
                            prior # {} => RoleOf(plan.steps[i].agent) = RoleOrder[Max(prior)]})

\* getNextStepNumber
NextNumber(plan, injected) == Max({0} \cup Numbers(plan.steps) \cup Numbers(injected)) + 1

Injected(s, agent) ==
  LET after == InsertionPoint(s.plan, agent)
  IN  [s EXCEPT !.steps = Append(@, [number |-> NextNumber(s.plan, s.steps), agent |-> agent,
                                     deps |-> {after} \ {0}])]

\* enforceRequiredAgent, enforceRequiredRole with findAgentByRole
RequireAgent(s, agent) ==
  IF \E x \in ToSet(s.plan.steps) : x.agent = agent THEN s ELSE Injected(s, agent)
RequireRole(s, role) ==
  LET able == {i \in DOMAIN Agents : Agents[i].role = role}
      ours == {i \in able : Agents[i].type \in Catalog}
  IN  IF able = {} \/ \E x \in ToSet(s.plan.steps) \cup ToSet(s.steps) : RoleOf(x.agent) = role
        THEN s ELSE Injected(s, Agents[Min(IF ours # {} THEN ours ELSE able)].type)

\* enforceHumanGate: after the last step of the agent, else of its role
GateSteps(plan, agent) ==
  LET own == {i \in DOMAIN plan.steps : plan.steps[i].agent = agent}
  IN  IF own # {} \/ RoleOf(agent) = "" THEN own
      ELSE {i \in DOMAIN plan.steps : RoleOf(plan.steps[i].agent) = RoleOf(agent)}
RequireGate(s, agent) ==
  LET those == GateSteps(s.plan, agent)
  IN  IF those = {} THEN s
      ELSE [s EXCEPT !.gates = Append(@, [after |-> LastOf(s.plan.steps, those), required |-> TRUE])]

Enforce(s, rule) ==
  CASE rule.type = "agent" -> RequireAgent(s, rule.target)
    [] rule.type = "role"  -> RequireRole(s, rule.target)
    [] rule.type = "gate"  -> RequireGate(s, rule.target)

\* A gate of a rule is added unless the plan has one after the same step, whatever
\* that one requires.
AddGate(gates, gate) ==
  IF \E g \in gates : g.after = gate.after THEN gates ELSE gates \cup {gate}

\* The steps that are kept, in order: of each it is known which come before it.
Arranged(steps, before) ==
  [k \in 1 .. Cardinality(DOMAIN before) |->
     steps[CHOOSE i \in DOMAIN before : Cardinality(before[i]) = k - 1]]

\* insertSteps: sorted by their numbers, and where those are the same as they were
InsertSteps(steps, new) ==
  LET all == steps \o new
  IN  Arranged(all, [i \in DOMAIN all |->
                       {j \in DOMAIN all : \/ all[j].number < all[i].number
                                           \/ (all[j].number = all[i].number /\ j < i)}])

\* remapUnknownAgents: steps that resolve to no agent go, and then the others are
\* numbered again, but not their dependencies and the gates.
Resolves(agent) == Known(agent) \/ Remapped(agent) # ""
Renamed(x) == IF Known(x.agent) THEN x ELSE [x EXCEPT !.agent = Remapped(@)]
Remap(steps) ==
  LET stay == {i \in DOMAIN steps : Resolves(steps[i].agent)}
      kept == Arranged(steps, [i \in stay |-> {j \in stay : j < i}])
  IN  IF stay = DOMAIN steps THEN [i \in DOMAIN steps |-> Renamed(steps[i])]
      ELSE [i \in DOMAIN kept |-> [Renamed(kept[i]) EXCEPT !.number = i]]

\* validateDependencies, validateNoDuplicateSteps
MutCoherent(steps) == \A s \in ToSet(steps) : s.deps \subseteq Numbers(steps)
Coherent(steps) == /\ \A s \in ToSet(steps) : s.deps \subseteq Numbers(steps)
                   /\ Cardinality(Numbers(steps)) = Len(steps)

Enforced(plan, rules) == FoldLeft(Enforce, [plan |-> plan, steps |-> <<>>, gates |-> <<>>], rules)
WithGates(gates, new) == FoldLeft(AddGate, gates, new)
Validate(plan, rules) ==
  LET s     == Enforced(plan, rules)
      steps == Remap(IF s.steps = <<>> THEN plan.steps ELSE InsertSteps(plan.steps, s.steps))
  IN  [accepted |-> Coherent(steps), steps |-> steps, gates |-> WithGates(plan.gates, s.gates)]

-----------------------------------------------------------------------------
\* An agent the planner named, or a rule, is nobody.
Drops(plan, rules) == \/ \E s \in ToSet(plan.steps) : ~Resolves(s.agent)
                      \/ \E r \in ToSet(rules) : r.type = "agent" /\ ~Resolves(r.target)
AllKnown(plan) == \A s \in ToSet(plan.steps) : Known(s.agent)

\* What the executor needs of an accepted plan: a number stands for one step, what a
\* step waits for exists, and, unless steps were dropped, an order exists if the
\* planner's plan had one and every step waits for what the planner said.
Ordered(steps) == \A s \in ToSet(steps) : \A d \in s.deps : d < s.number
AcceptedPlanSound(plan, rules, verdict) ==
  verdict.accepted =>
    /\ Cardinality(Numbers(verdict.steps)) = Len(verdict.steps)
    /\ \A s \in ToSet(verdict.steps) : s.deps \subseteq Numbers(verdict.steps)
    /\ ~Drops(plan, rules) =>
         /\ Ordered(plan.steps) => Ordered(verdict.steps)
         /\ \A s \in ToSet(plan.steps) : \E x \in ToSet(verdict.steps) :
              x.number = s.number /\ x.deps = s.deps

\* A coherent plan is never refused because of what the rules inject.
SoundPlanAccepted(plan, rules, verdict) ==
  Coherent(plan.steps) /\ ~Drops(plan, rules) => verdict.accepted

\* When the planner names known agents, an accepted plan has the agents and roles the
\* rules ask for, if there are such, and a gate after the last step of an agent it had itself.
RulesHold(plan, rules, verdict) ==
  verdict.accepted /\ AllKnown(plan) =>
    \A r \in ToSet(rules) :
      CASE r.type = "agent" -> Known(r.target) => \E s \in ToSet(verdict.steps) : s.agent = r.target
        [] r.type = "role"  -> (\E a \in ToSet(Agents) : a.role = r.target)
                                 => \E s \in ToSet(verdict.steps) : RoleOf(s.agent) = r.target
        [] r.type = "gate"  ->
             LET own == {s \in ToSet(plan.steps) : s.agent = r.target}
             IN  own # {} /\ (\A i \in DOMAIN plan.steps : plan.steps[i].number = i)
                   => \E g \in verdict.gates : g.after = Max({s.number : s \in own})
=============================================================================
