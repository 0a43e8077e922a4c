------------------------------ MODULE Dispatch ------------------------------
(***************************************************************************)
(* The dispatch controller (src/src/service/dispatch-controller.ts):       *)
(* webhooks and API calls put tasks on a queue per project in Redis, and   *)
(* the consumer loop of each dispatcher process pops a task, takes a slot  *)
(* of the task's project and starts the run, as a child process (local)    *)
(* or as a sandbox claim (Kubernetes).  Every Redis call is a step.        *)
(***************************************************************************)
EXTENDS Naturals, Sequences, FiniteSets

CONSTANTS
    Dispatchers,    \* the dispatcher processes (replicas) sharing one Redis
    Projects,       \* project ids, numbered in the order of their file names
    MaxConcurrent,  \* max_concurrent_runs of each project
    Requests,       \* the requests that arrive; each would get its own run id
    Recurring,      \* those of them that never stop coming
    ProjectOf,      \* the project each request is matched with
    Deliveries,     \* webhook delivery ids
    DeliveryOf,     \* the delivery id of a request; redeliveries share one
    NoDelivery,     \* DeliveryOf for POST /api/dispatch/run
    NoTask,         \* a dispatcher's task when it has none
    Modes,          \* the values of SPRINTFOUNDRY_K8S_MODE to consider
    MayFail         \* may Redis, Kubernetes, a configuration or a process fail

ASSUME DispatchersAssumption ==
    IsFiniteSet(Dispatchers) /\ Dispatchers # {}

ASSUME ProjectsAssumption ==
    /\ Projects \subseteq Nat
    /\ MaxConcurrent \in [Projects -> Nat \ {0}]

ASSUME RequestsAssumption ==
    /\ ProjectOf \in [Requests -> Projects]
    /\ DeliveryOf \in [Requests -> Deliveries \cup {NoDelivery}]
    /\ NoDelivery \notin Deliveries
    /\ NoTask \notin Requests

ASSUME RecurringAssumption == Recurring \subseteq Requests

ASSUME ModesAssumption == Modes \subseteq BOOLEAN /\ MayFail \in BOOLEAN

VARIABLES
    k8sMode,   \* the mode of this deployment
    handler,   \* per request, where its HTTP handler stands
    seen,      \* deliveries whose dedupe key exists in Redis
    queue,     \* per project, the queued tasks, the next one to pop first
    slots,     \* per project, the run ids in its set of active runs
    lapsed,    \* runs whose score in that set is in the past
    pc,        \* per dispatcher, where processQueueOnce stands
    task,      \* per dispatcher, the task it popped
    runs,      \* per request, its run in the world: none, live or over
    dropped,   \* tasks the dispatchers gave up (history)
    windows    \* per delivery, how often its dedupe key was set (history)

web == <<handler, seen, windows>>
consumer == <<pc, task>>
vars == <<k8sMode, handler, seen, queue, slots, lapsed, pc, task, runs,
          dropped, windows>>

Init ==
    /\ k8sMode \in Modes
    /\ handler = [r \in Requests |-> "unsent"]
    /\ seen = {}
    /\ queue = [p \in Projects |-> <<>>]
    /\ slots = [p \in Projects |-> {}]
    /\ lapsed = {}
    /\ pc = [c \in Dispatchers |-> "idle"]
    /\ task = [c \in Dispatchers |-> NoTask]
    /\ runs = [r \in Requests |-> "none"]
    /\ dropped = {}
    /\ windows = [d \in Deliveries |-> 0]

-----------------------------------------------------------------------------
(* State formulae.                                                         *)

\* lPush and brPop work on opposite ends: a pushed task is popped last.
Pushed(r) == [queue EXCEPT ![ProjectOf[r]] = Append(@, r)]

\* The delivery's key was created: it opens a dedupe window.
Opened(d) == [windows EXCEPT ![d] = @ + 1]

\* The active set of the project whose task dispatcher c works on.
SlotsFor(c) == slots[ProjectOf[task[c]]]

\* That set replaced by S.
WithSlots(c, S) == [slots EXCEPT ![ProjectOf[task[c]]] = S]

\* brPop is given the keys of all projects and takes the first non-empty one.
FirstNonEmpty(p) ==
    queue[p] # <<>> /\ \A q \in Projects : queue[q] # <<>> => p <= q

\* Dispatcher c goes to a later point of processQueueOnce, or leaves it.
Goes(c, to) == pc' = [pc EXCEPT ![c] = to] /\ UNCHANGED task
Leaves(c) ==
    pc' = [pc EXCEPT ![c] = "idle"] /\ task' = [task EXCEPT ![c] = NoTask]

-----------------------------------------------------------------------------
(* The HTTP handlers.  Requests refused before the dedupe check (signature,*)
(* project, trigger) change nothing and are not modelled.                  *)

\* A request arrives; POST /api/dispatch/run has no delivery to check.
Receive(r) ==
    /\ handler[r] = "unsent"
    /\ handler' = [handler EXCEPT ![r] =
                      IF DeliveryOf[r] = NoDelivery THEN "fresh" ELSE "received"]
    /\ UNCHANGED <<k8sMode, seen, queue, slots, lapsed, consumer, runs, dropped,
                   windows>>

\* Seeded fault: the key is set without NX, so that every request is the first.
MutFirstDelivery(r) ==
    /\ handler[r] = "received"
    /\ seen' = seen \cup {DeliveryOf[r]}
    /\ windows' = IF DeliveryOf[r] \in seen THEN windows ELSE Opened(DeliveryOf[r])
    /\ handler' = [handler EXCEPT ![r] = "fresh"]
    /\ UNCHANGED <<k8sMode, queue, slots, lapsed, consumer, runs, dropped>>

\* shouldDedupe: SET key NX EX answers OK.
FirstDelivery(r) ==
    /\ handler[r] = "received"
    /\ DeliveryOf[r] \notin seen
    /\ seen' = seen \cup {DeliveryOf[r]}
    /\ windows' = Opened(DeliveryOf[r])
    /\ handler' = [handler EXCEPT ![r] = "fresh"]
    /\ UNCHANGED <<k8sMode, queue, slots, lapsed, consumer, runs, dropped>>

\* shouldDedupe: the key exists, the request is answered duplicate_event.
DuplicateEvent(r) ==
    /\ handler[r] = "received"
    /\ DeliveryOf[r] \in seen
    /\ handler' = [handler EXCEPT ![r] = "refused"]
    /\ UNCHANGED <<k8sMode, seen, queue, slots, lapsed, consumer, runs, dropped,
                   windows>>

\* A Linear event that moves the ticket to no stage is found out after the
\* dedupe check: its key stays.
NotResolved(r) ==
    /\ handler[r] = "fresh"
    /\ DeliveryOf[r] # NoDelivery
    /\ handler' = [handler EXCEPT ![r] = "refused"]
    /\ UNCHANGED <<k8sMode, seen, queue, slots, lapsed, consumer, runs, dropped,
                   windows>>

\* enqueueInternal, then the 202 answer.
Enqueue(r) ==
    /\ handler[r] = "fresh"
    /\ queue' = Pushed(r)
    /\ handler' = [handler EXCEPT ![r] = "queued"]
    /\ UNCHANGED <<k8sMode, seen, slots, lapsed, consumer, runs, dropped, windows>>

\* A Redis call of the handler throws, with or without its effect, or the
\* process dies: the sender sees an error, the dedupe key may stay.
HandlerThrows(r) ==
    /\ MayFail
    /\ \/ /\ handler[r] = "received"
          /\ DeliveryOf[r] \notin seen
          /\ seen' = seen \cup {DeliveryOf[r]}
          /\ windows' = Opened(DeliveryOf[r])
          /\ UNCHANGED queue
       \/ /\ handler[r] = "fresh"
          /\ queue' = Pushed(r)
          /\ UNCHANGED <<seen, windows>>
       \/ /\ handler[r] \in {"received", "fresh"}
          /\ UNCHANGED <<seen, windows, queue>>
    /\ handler' = [handler EXCEPT ![r] = "refused"]
    /\ UNCHANGED <<k8sMode, slots, lapsed, consumer, runs, dropped>>

-----------------------------------------------------------------------------
(* processQueueOnce.                                                       *)

\* brPop: the task leaves Redis and is only in this process from here on.
Pop(c) ==
    /\ pc[c] = "idle"
    /\ \E p \in Projects :
          /\ FirstNonEmpty(p)
          /\ task' = [task EXCEPT ![c] = Head(queue[p])]
          /\ queue' = [queue EXCEPT ![p] = Tail(@)]
    /\ pc' = [pc EXCEPT ![c] = "popped"]
    /\ UNCHANGED <<k8sMode, web, slots, lapsed, runs, dropped>>

\* The project's configuration has become invalid: the task is skipped.
SkipRun(c) ==
    /\ MayFail
    /\ pc[c] = "popped"
    /\ dropped' = dropped \cup {task[c]}
    /\ Leaves(c)
    /\ UNCHANGED <<k8sMode, web, queue, slots, lapsed, runs>>

\* Seeded fault: runs whose lease has lapsed are not removed.
MutPurgeLapsed(c) ==
    /\ pc[c] = "popped"
    /\ Goes(c, "purged")
    /\ UNCHANGED <<k8sMode, web, queue, slots, lapsed, runs, dropped>>

\* tryAcquireProjectSlot, first call: zRemRangeByScore removes what lapsed.
PurgeLapsed(c) ==
    /\ pc[c] = "popped"
    /\ slots' = WithSlots(c, SlotsFor(c) \ lapsed)
    /\ Goes(c, "purged")
    /\ UNCHANGED <<k8sMode, web, queue, lapsed, runs, dropped>>

\* Second call: zCard, compared with max_concurrent_runs.
CountActive(c) ==
    /\ pc[c] = "purged"
    /\ Goes(c, IF Cardinality(SlotsFor(c)) >= MaxConcurrent[ProjectOf[task[c]]]
               THEN "full" ELSE "counted")
    /\ UNCHANGED <<k8sMode, web, queue, slots, lapsed, runs, dropped>>

\* Third call: zAdd.
TakeSlot(c) ==
    /\ pc[c] = "counted"
    /\ slots' = WithSlots(c, SlotsFor(c) \cup {task[c]})
    /\ Goes(c, "acquired")
    /\ UNCHANGED <<k8sMode, web, queue, lapsed, runs, dropped>>

\* Seeded fault: a task that finds no slot is not pushed back.
MutRequeue(c) ==
    /\ pc[c] = "full"
    /\ Leaves(c)
    /\ UNCHANGED <<k8sMode, web, queue, slots, lapsed, runs, dropped>>

\* No slot: the task is pushed back, behind the tasks that came after it.
Requeue(c) ==
    /\ pc[c] = "full"
    /\ queue' = Pushed(task[c])
    /\ Leaves(c)
    /\ UNCHANGED <<k8sMode, web, slots, lapsed, runs, dropped>>

\* A Redis call between the pop and the dispatch throws, with or without its
\* effect: runConsumerLoop logs it and goes on with the next task.
ConsumerThrows(c) ==
    /\ MayFail
    /\ \/ /\ pc[c] = "popped"
          /\ slots' = WithSlots(c, SlotsFor(c) \ lapsed)
          /\ dropped' = dropped \cup {task[c]}
          /\ UNCHANGED queue
       \/ /\ pc[c] = "counted"
          /\ slots' = WithSlots(c, SlotsFor(c) \cup {task[c]})
          /\ dropped' = dropped \cup {task[c]}
          /\ UNCHANGED queue
       \/ /\ pc[c] = "full"
          /\ queue' = Pushed(task[c])
          /\ UNCHANGED <<slots, dropped>>
       \/ /\ pc[c] \in {"popped", "purged", "counted", "full"}
          /\ dropped' = dropped \cup {task[c]}
          /\ UNCHANGED <<queue, slots>>
    /\ Leaves(c)
    /\ UNCHANGED <<k8sMode, web, lapsed, runs>>

\* Seeded fault: the slot is given back as soon as the claim exists.
MutStartRun(c) ==
    /\ pc[c] = "acquired"
    /\ runs' = [runs EXCEPT ![task[c]] = "live"]
    /\ Goes(c, IF k8sMode THEN "releasing" ELSE "running")
    /\ UNCHANGED <<k8sMode, web, queue, slots, lapsed, dropped>>

\* dispatchTask: createSandboxHost returns once the claim exists and nobody
\* waits for the run; executeLocalRun is awaited until the child exits.
StartRun(c) ==
    /\ pc[c] = "acquired"
    /\ runs' = [runs EXCEPT ![task[c]] = "live"]
    /\ IF k8sMode THEN Leaves(c) ELSE Goes(c, "running")
    /\ UNCHANGED <<k8sMode, web, queue, slots, lapsed, dropped>>

\* dispatchTask throws before the run exists or, in Kubernetes, after the
\* claim was created: processQueueOnce gives the slot back either way.
StartThrows(c) ==
    /\ MayFail
    /\ pc[c] = "acquired"
    /\ \/ UNCHANGED runs
       \/ k8sMode /\ runs' = [runs EXCEPT ![task[c]] = "live"]
    /\ dropped' = dropped \cup {task[c]}
    /\ Goes(c, "releasing")
    /\ UNCHANGED <<k8sMode, web, queue, slots, lapsed>>

\* The awaited child process exits, with success or not.
LocalRunReturns(c) ==
    /\ pc[c] = "running"
    /\ runs' = [runs EXCEPT ![task[c]] = "over"]
    /\ Goes(c, "releasing")
    /\ UNCHANGED <<k8sMode, web, queue, slots, lapsed, dropped>>

\* releaseProjectSlot.
ReleaseSlot(c) ==
    /\ pc[c] = "releasing"
    /\ slots' = WithSlots(c, SlotsFor(c) \ {task[c]})
    /\ Leaves(c)
    /\ UNCHANGED <<k8sMode, web, queue, lapsed, runs, dropped>>

\* zRem throws: the slot is kept until it lapses.
ReleaseThrows(c) ==
    /\ MayFail
    /\ pc[c] = "releasing"
    /\ Leaves(c)
    /\ UNCHANGED <<k8sMode, web, queue, slots, lapsed, runs, dropped>>

\* The dispatcher process dies and is restarted.  A task it held and had not
\* started is gone; a child process goes on.
DispatcherDies(c) ==
    /\ MayFail
    /\ pc[c] # "idle"
    /\ dropped' = IF runs[task[c]] = "none" THEN dropped \cup {task[c]} ELSE dropped
    /\ Leaves(c)
    /\ UNCHANGED <<k8sMode, web, queue, slots, lapsed, runs>>

-----------------------------------------------------------------------------
(* The world.                                                              *)

\* A run nobody awaits ends: a pod, or the child of a dispatcher that died.
RunEnds(r) ==
    /\ runs[r] = "live"
    /\ \A c \in Dispatchers : ~(task[c] = r /\ pc[c] = "running")
    /\ runs' = [runs EXCEPT ![r] = "over"]
    /\ UNCHANGED <<k8sMode, web, queue, slots, lapsed, consumer, dropped>>

\* activeRunTtlSeconds have passed since the run took its slot.
LeaseLapses(r) ==
    /\ r \in slots[ProjectOf[r]] \ lapsed
    /\ lapsed' = lapsed \cup {r}
    /\ UNCHANGED <<k8sMode, web, queue, slots, consumer, runs, dropped>>

\* The EX of a dedupe key passes.
DedupeExpires(d) ==
    /\ d \in seen
    /\ seen' = seen \ {d}
    /\ UNCHANGED <<k8sMode, handler, windows, queue, slots, lapsed, consumer, runs,
                   dropped>>

\* Requests never stop coming: when nothing is left of a request and of its run, its
\* place here is free for a later one of the same project, with a run id of its own.
ComesAgain(r) ==
    /\ r \in Recurring
    /\ handler[r] \in {"refused", "queued"}
    /\ runs[r] # "live" /\ r \notin slots[ProjectOf[r]]
    /\ \A i \in DOMAIN queue[ProjectOf[r]] : queue[ProjectOf[r]][i] # r
    /\ \A c \in Dispatchers : task[c] # r
    /\ handler' = [handler EXCEPT ![r] = "unsent"]
    /\ runs' = [runs EXCEPT ![r] = "none"]
    /\ lapsed' = lapsed \ {r}
    /\ dropped' = dropped \ {r}
    /\ UNCHANGED <<k8sMode, seen, windows, queue, slots, consumer>>

-----------------------------------------------------------------------------
Handler(r) ==
    \/ FirstDelivery(r) \/ DuplicateEvent(r)
    \/ NotResolved(r) \/ Enqueue(r) \/ HandlerThrows(r)

Acquire(c) ==
    PurgeLapsed(c) \/ CountActive(c) \/ TakeSlot(c) \/ Requeue(c) \/ ConsumerThrows(c)

DispatchTask(c) ==
    StartRun(c) \/ StartThrows(c) \/ ReleaseSlot(c) \/ ReleaseThrows(c)

ProcessQueueOnce(c) == Pop(c) \/ SkipRun(c) \/ Acquire(c) \/ DispatchTask(c)

Idle ==
    /\ \A p \in Projects : queue[p] = <<>>
    /\ \A c \in Dispatchers : pc[c] = "idle"
    /\ UNCHANGED vars

Next ==
    \/ \E r \in Requests : Receive(r) \/ Handler(r) \/ RunEnds(r) \/ LeaseLapses(r)
    \/ \E r \in Requests : ComesAgain(r)
    \/ \E d \in Deliveries : DedupeExpires(d)
    \/ \E c \in Dispatchers :
          ProcessQueueOnce(c) \/ LocalRunReturns(c) \/ DispatcherDies(c)
    \/ Idle

Spec == Init /\ [][Next]_vars

\* The consumer loop goes on whatever happens, runs end, and time passes.
Fairness ==
    /\ \A c \in Dispatchers : /\ WF_vars(ProcessQueueOnce(c))
                              /\ WF_vars(LocalRunReturns(c))
    /\ \A r \in Requests : WF_vars(LeaseLapses(r))

FairSpec == Spec /\ Fairness

=============================================================================
