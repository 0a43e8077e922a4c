----------------------------- MODULE EventLedger -----------------------------
(* What the event log of a run promises to those who read it or the sink:    *)
(* an event is logged at most once, reaches the sink's table only after it   *)
(* was logged, and is announced to subscribers at most once, after that.     *)

EXTENDS Sequences, Naturals

CONSTANT Events

VARIABLES
    logged,    \* the log of the run, in order
    received,  \* what the events table has
    announced  \* what subscribers were told, in order

ledgerVars == <<logged, received, announced>>

In(seq) == {seq[i] : i \in DOMAIN seq}

Init == logged = <<>> /\ received = {} /\ announced = <<>>

Log(e) ==
    /\ e \notin In(logged)
    /\ logged' = Append(logged, e)
    /\ UNCHANGED <<received, announced>>

Receive(e) ==
    /\ e \in In(logged) \ received
    /\ received' = received \cup {e}
    /\ UNCHANGED <<logged, announced>>

Announce(e) ==
    /\ e \in received \ In(announced)
    /\ announced' = Append(announced, e)
    /\ UNCHANGED <<logged, received>>

Next == \E e \in Events : Log(e) \/ Receive(e) \/ Announce(e)

Spec == Init /\ [][Next]_ledgerVars

=============================================================================
