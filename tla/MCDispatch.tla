----------------------------- MODULE MCDispatch -----------------------------
(* Small instances of Dispatch for TLC.                                      *)
EXTENDS DispatchProperties, TLC

CONSTANTS c1, c2, r1, r2, r3, d1

\* Two projects with one slot each: two runs asked for by API for project 1, which
\* brPop serves first, and one for project 2.
TwoProjects == {1, 2}
OneProject == {1}
OneSlotEach == [p \in TwoProjects |-> 1]
OneSlot == [p \in OneProject |-> 1]

MixedProject == r1 :> 1 @@ r2 :> 1 @@ r3 :> 2
MixedDelivery == r1 :> NoDelivery @@ r2 :> NoDelivery @@ r3 :> NoDelivery

\* One project: a redelivered webhook and a run asked for by API.
TrioProject == r1 :> 1 @@ r2 :> 1 @@ r3 :> 1
TrioDelivery == r1 :> d1 @@ r2 :> d1 @@ r3 :> NoDelivery

Interchangeable == Permutations({c1, c2})

BothModes == {TRUE, FALSE}

=============================================================================
