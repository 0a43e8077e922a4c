-------------------------- MODULE DispatchProperties --------------------------
(* What the dispatch controller promises: quota, deduplication, no task lost *)
(* or doubled, and no task left waiting.                                     *)
EXTENDS Dispatch

Places == {"idle", "popped", "purged", "counted", "full", "acquired", "running",
           "releasing"}

\* Every variable has its type; a dispatcher has a task unless it is idle.
TypeOK ==
    /\ k8sMode \in Modes
    /\ handler \in [Requests -> {"unsent", "received", "fresh", "refused", "queued"}]
    /\ seen \subseteq Deliveries
    /\ queue \in [Projects -> Seq(Requests)]
    /\ slots \in [Projects -> SUBSET Requests]
    /\ lapsed \subseteq Requests
    /\ pc \in [Dispatchers -> Places]
    /\ task \in [Dispatchers -> Requests \cup {NoTask}]
    /\ \A c \in Dispatchers : pc[c] = "idle" <=> task[c] = NoTask
    /\ runs \in [Requests -> {"none", "live", "over"}]
    /\ dropped \subseteq Requests
    /\ windows \in [Deliveries -> Nat]

\* The active set of a project exceeds max_concurrent_runs by at most the number
\* of the other dispatchers, although they count it and add to it in separate
\* Redis calls (1743-1755).  With one dispatcher the quota is exact.
QuotaOvershoot ==
    \A p \in Projects : Cardinality(slots[p]) + 1 <=
                            MaxConcurrent[p] + Cardinality(Dispatchers)

\* The active set counts what is there to count: a run that was started, is going
\* on and whose lease has not lapsed is in it, so that it cannot be given away.
\* Left out are runs whose start was reported as failed (1838-1844).
LiveRunsHoldSlots ==
    \A r \in Requests :
        runs[r] = "live" /\ r \notin lapsed \cup dropped => r \in slots[ProjectOf[r]]

\* The quota of a project is kept: its active set is bounded, and holds the runs that
\* are to be bounded, whatever is counted, started, given back or lapses in between.
QuotaHonoured == QuotaOvershoot /\ LiveRunsHoldSlots

\* The task has been started or given up.
Settled(r) == runs[r] # "none" \/ r \in dropped

\* In how many places r is: in the queue, with a dispatcher that has not started
\* it, and either started or given up.
Placed(r) ==
    Cardinality({i \in DOMAIN queue[ProjectOf[r]] : queue[ProjectOf[r]][i] = r})
    + Cardinality({c \in Dispatchers : task[c] = r /\ ~Settled(r)})
    + (IF Settled(r) THEN 1 ELSE 0)

\* Deliveries are not replayed: the requests of one delivery that got past the
\* dedupe check are at most as many as the times its key was set (1644-1652).
Entered(d) == {r \in Requests : DeliveryOf[r] = d
                                /\ (handler[r] \in {"fresh", "queued"} \/ Placed(r) > 0)}
OneRunPerDelivery ==
    \A d \in Deliveries : Cardinality(Entered(d)) <= windows[d]

\* No task is lost or doubled by the pop, the push back and the failures in
\* between: an accepted one is in exactly one place - queued once, held by one
\* dispatcher, started or given up - and no task is ever in two.
TaskInOnePlace ==
    \A r \in Requests :
        /\ Placed(r) <= 1
        /\ handler[r] = "queued" => Placed(r) = 1

\* From some time on, requests come only for projects that brPop looks at after r's.
NoneInFront(r) ==
    <>[][\A q \in Requests : Receive(q) => ProjectOf[q] > ProjectOf[r]]_vars

\* The slot a task waits for is given back or lapses, and a task that found none is
\* pushed back: every queued task is started or given up in the end, however many
\* requests keep coming for the projects behind its own.  A stream of requests for a
\* project in front of it, whose list brPop always takes first (1812), or for its own
\* project, behind whose tasks it is pushed back (1831), can keep it waiting for ever.
EveryTaskServed ==
    \A r \in Requests : NoneInFront(r) => (handler[r] = "queued" ~> Settled(r))

=============================================================================
