----------------------------- MODULE PlanContract -----------------------------
(***************************************************************************)
(* What executing a validated plan promises, whatever the number of agents *)
(* at work, of rework cycles and of retries: steps are accepted in rounds, *)
(* a round starts when everything its steps depend on is accepted and, if  *)
(* gated, approved, and the run is done when every step is accepted and    *)
(* every gate approved.                                                    *)
(***************************************************************************)
EXTENDS Naturals, Sequences

CONSTANT Plans

VARIABLES
  plan,
  done,      (* the accepted steps                   *)
  active,    (* the steps of the round in progress   *)
  approved,  (* the gated steps a human has approved *)
  outcome

vars == <<plan, done, active, approved, outcome>>

Steps == {plan.order[i] : i \in DOMAIN plan.order}
Gates == plan.gates

Init ==
  /\ plan \in Plans
  /\ done = {} /\ active = {} /\ approved = {}
  /\ outcome = "open"

MayStart(s) ==
  /\ s \in Steps \ done
  /\ plan.deps[s] \subseteq done
  /\ plan.deps[s] \cap Gates \subseteq approved

Begin(G) ==
  /\ outcome = "open" /\ active = {} /\ G # {}
  /\ \A s \in G : MayStart(s)
  /\ active' = G
  /\ UNCHANGED <<plan, done, approved, outcome>>

Accept ==
  /\ outcome = "open" /\ active # {}
  /\ done' = done \cup active
  /\ active' = {}
  /\ UNCHANGED <<plan, approved, outcome>>

(* Some step of the round asked for rework: none of them is accepted. *)
Rework ==
  /\ outcome = "open" /\ active # {}
  /\ active' = {}
  /\ UNCHANGED <<plan, done, approved, outcome>>

Approve(s) ==
  /\ outcome = "open" /\ active = {}
  /\ s \in (done \cap Gates) \ approved
  /\ approved' = approved \cup {s}
  /\ UNCHANGED <<plan, done, active, outcome>>

Fail ==
  /\ outcome = "open"
  /\ outcome' = "failed"
  /\ active' = {}
  /\ UNCHANGED <<plan, done, approved>>

Deliver ==
  /\ outcome = "open" /\ active = {}
  /\ done = Steps /\ Gates \subseteq approved
  /\ outcome' = "done"
  /\ UNCHANGED <<plan, done, active, approved>>

(* The pull request or the ticket update of the delivered run failed. *)
Withdraw ==
  /\ outcome = "done"
  /\ outcome' = "failed"
  /\ UNCHANGED <<plan, done, active, approved>>

Next ==
  \/ \E G \in SUBSET Steps : Begin(G)
  \/ Accept \/ Rework
  \/ \E s \in Gates : Approve(s)
  \/ Fail \/ Deliver \/ Withdraw

Spec == Init /\ [][Next]_vars

=============================================================================
