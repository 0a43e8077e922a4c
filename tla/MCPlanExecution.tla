--------------------------- MODULE MCPlanExecution ---------------------------
(***************************************************************************)
(* The instances of PlanExecution that TLC checks.                         *)
(***************************************************************************)
EXTENDS PlanProperties, TLC

(* developer -> qa, each reviewed *)
Chain == [order |-> <<1, 2>>, deps |-> (1 :> {} @@ 2 :> {1}), groups |-> <<>>,
          gates |-> {1, 2}, devs |-> {1}]

(* two steps side by side, one of them gated, and a step that needs both *)
Fork == [order |-> <<1, 2, 3>>, deps |-> (1 :> {} @@ 2 :> {} @@ 3 :> {1, 2}),
         groups |-> <<{1, 2}>>, gates |-> {2}, devs |-> {1}]

(* the validator does not look for cycles *)
Cycle == [order |-> <<1, 2, 3>>, deps |-> (1 :> {} @@ 2 :> {3} @@ 3 :> {2}),
          groups |-> <<{1, 2}, {2, 3}>>, gates |-> {1}, devs |-> {}]

AllPlans == {Chain, Fork, Cycle}
(* a rework plan of two steps, of which one keeps to the numbers that the    *)
(* prompt asks for and one has the number of a plan step                     *)
Reworks == {<<902, 2>>}
UsesOneOrThree == {1, 3}

=============================================================================
