------------------------------- MODULE EventLog -------------------------------
(***************************************************************************)
(* The events of a run on their way: EventStore with its buffer and its    *)
(* two serial queues (src/src/service/event-store.ts), the client that     *)
(* posts them with a timeout and one retry (event-sink-client.ts), and the *)
(* ingestion service that inserts and publishes them                       *)
(* (event-ingestion-api.ts).  An event is its number in the order of       *)
(* store(); a run may be continued by a second process.                    *)
(***************************************************************************)
EXTENDS Naturals, Sequences, FiniteSets

CONSTANTS
    MaxEvents,   \* bound: events stored
    Targets,     \* the files written: "run", and "global" when there is an events_dir
    MaxFaults    \* bound: failed appends, posts given up or refused, restarts

Events == 1..MaxEvents

ASSUME EventBounds == MaxEvents \in Nat /\ MaxFaults \in Nat
ASSUME TargetsAssumption == Targets \subseteq {"run", "global"} /\ "run" \in Targets

VARIABLES
    stored,    \* how many events were stored
    phase,     \* of initialize: "new", "opening", "flushing", "ready"
    buffer,    \* pendingBuffer, then the part of it that is still to be flushed
    queue,     \* writeQueue: the events to persist, in order
    appends,   \* appendFile calls in flight, as <<target, event>>
    log,       \* the files
    sinkQueue, \* the events to post, in order
    post,      \* the post that is waited for, and which try it is
    requests,  \* at the service: "sent" or "inserted"
    db,        \* the events table
    published, \* what subscribers of the Redis channel got, in order
    closing,   \* of close: "open", "writes", "posts", "closed"
    awaited,   \* the events close waits for
    process,   \* which process runs the run, counting restarts
    faults

\* History: events an append failed for, a post was given up for, or a process ended with;
\* is there no process; how many events close answers for.
VARIABLES failed, abandoned, lost, dead, owed

store == <<stored, phase, buffer>>
writer == <<queue, appends, log>>
client == <<sinkQueue, post>>
service == <<requests, db, published>>
closer == <<closing, awaited>>
counts == <<process, faults>>
history == <<failed, abandoned, lost, dead, owed>>
vars == <<store, writer, client, service, closer, counts, history>>

Idle == [event |-> 0, try |-> 0]
In(seq) == {seq[i] : i \in DOMAIN seq}

Init ==
    /\ stored = 0 /\ phase = "new" /\ buffer = <<>>
    /\ queue = <<>> /\ appends = {} /\ log = [t \in Targets |-> <<>>]
    /\ sinkQueue = <<>> /\ post = Idle
    /\ requests = {} /\ db = {} /\ published = <<>>
    /\ closing = "open" /\ awaited = {}
    /\ process = 0 /\ faults = 0
    /\ failed = {} /\ abandoned = {} /\ lost = {} /\ dead = FALSE /\ owed = 0

-----------------------------------------------------------------------------
(* EventStore.                                                              *)

\* Engine, heartbeats and lanes that a failed group left behind store at any time,
\* except during initialize, for which the engine waits before it starts anything.
Store ==
    /\ stored < MaxEvents /\ ~dead /\ phase \in {"new", "ready"}
    /\ stored' = stored + 1
    /\ IF phase = "new"
       THEN buffer' = Append(buffer, stored + 1) /\ UNCHANGED queue
       ELSE queue' = Append(queue, stored + 1) /\ UNCHANGED buffer
    /\ UNCHANGED <<phase, appends, log, client, service, closer, counts, history>>

\* The directory of the global log is created first.
Initialize ==
    /\ phase = "new" /\ ~dead /\ closing = "open"
    /\ phase' = "opening"
    /\ UNCHANGED <<stored, buffer, writer, client, service, closer, counts, history>>

Opened ==
    /\ phase = "opening" /\ ~dead
    /\ phase' = IF buffer = <<>> THEN "ready" ELSE "flushing"
    /\ queue' = IF buffer = <<>> THEN queue ELSE Append(queue, Head(buffer))
    /\ UNCHANGED <<stored, buffer, appends, log, client, service, closer, counts, history>>

\* Seeded fault: store does not wait for the writes queued before its own.
MutPersistNext ==
    /\ ~dead
    /\ \E e \in In(queue) :
          /\ \A a \in appends : a[2] # e
          /\ appends' = appends \cup (Targets \X {e})
    /\ UNCHANGED <<store, queue, log, client, service, closer, counts, history>>

\* persistEvent of the first in the queue starts all of its appends.
PersistNext ==
    /\ queue # <<>> /\ ~dead /\ \A a \in appends : a[2] # Head(queue)
    /\ appends' = appends \cup (Targets \X {Head(queue)})
    /\ UNCHANGED <<store, queue, log, client, service, closer, counts, history>>

\* The end of persistEvent for the first in the queue.  initialize goes on with the
\* next buffered event, or rejects and leaves the others.
Settles(ok) ==
    /\ queue' = Tail(queue) \o (IF phase = "flushing" /\ ok /\ Len(buffer) > 1
                                THEN <<buffer[2]>> ELSE <<>>)
    /\ buffer' = IF phase # "flushing" THEN buffer ELSE IF ok THEN Tail(buffer) ELSE <<>>
    /\ lost' = IF phase = "flushing" /\ ~ok THEN lost \cup In(Tail(buffer)) ELSE lost
    /\ phase' = IF phase = "flushing" /\ (~ok \/ Len(buffer) = 1) THEN "ready" ELSE phase

\* Promise.all waits for the last append, but not after a failure.
AppendDone(a) ==
    /\ a \in appends /\ ~dead
    /\ log' = [log EXCEPT ![a[1]] = Append(@, a[2])]
    /\ appends' = appends \ {a}
    /\ IF queue # <<>> /\ a[2] = Head(queue) /\ \A b \in appends \ {a} : b[2] # a[2]
       THEN Settles(TRUE) /\ sinkQueue' = Append(sinkQueue, a[2])
       ELSE UNCHANGED <<queue, buffer, lost, phase, sinkQueue>>
    /\ UNCHANGED <<stored, post, service, closer, counts, failed, abandoned, dead, owed>>

AppendFails(a) ==
    /\ a \in appends /\ ~dead /\ faults < MaxFaults
    /\ faults' = faults + 1
    /\ failed' = failed \cup {a[2]}
    /\ appends' = appends \ {a}
    /\ IF queue # <<>> /\ a[2] = Head(queue)
       THEN Settles(FALSE)
       ELSE UNCHANGED <<queue, buffer, lost, phase>>
    /\ UNCHANGED <<stored, log, client, service, closer, process, abandoned, dead,
                   owed>>

-----------------------------------------------------------------------------
(* EventSinkClient: postWithRetry of the first in the sink queue.           *)

Sends(try, others) ==
    /\ post' = [event |-> Head(sinkQueue), try |-> try]
    /\ requests' = others \cup {[event |-> Head(sinkQueue), try |-> try, at |-> "sent",
                                 by |-> process]}

PostNext ==
    /\ sinkQueue # <<>> /\ post = Idle /\ ~dead
    /\ Sends(1, requests)
    /\ UNCHANGED <<store, writer, sinkQueue, db, published, closer, counts, history>>

Answers(r) == ~dead /\ r.event = post.event /\ r.try = post.try /\ r.by = process

\* What follows a failed try, others being the requests still at the service: the retry,
\* or the next event.  A post that failed twice is dropped.
TryFailed(others) ==
    IF post.try = 1
    THEN Sends(2, others) /\ UNCHANGED sinkQueue
    ELSE post' = Idle /\ sinkQueue' = Tail(sinkQueue) /\ requests' = others

\* The client aborts; the service may still be at work on the request.
TimesOut ==
    /\ post # Idle /\ ~dead /\ faults < MaxFaults
    /\ faults' = faults + 1
    /\ abandoned' = abandoned \cup {post.event}
    /\ TryFailed(requests)
    /\ UNCHANGED <<store, writer, db, published, closer, process, failed, lost, dead,
                   owed>>

-----------------------------------------------------------------------------
(* The ingestion service: POST /events.                                     *)

Answered(r) ==
    /\ requests' = requests \ {r}
    /\ IF Answers(r) THEN post' = Idle /\ sinkQueue' = Tail(sinkQueue) ELSE UNCHANGED client

\* Seeded fault: a duplicate is published again.
MutInsert(r) ==
    /\ r \in requests /\ r.at = "sent"
    /\ db' = db \cup {r.event}
    /\ requests' = (requests \ {r}) \cup {[r EXCEPT !.at = "inserted"]}
    /\ UNCHANGED client
    /\ UNCHANGED <<store, writer, published, closer, counts, history>>

\* INSERT ... ON CONFLICT DO NOTHING; only the request that inserted publishes.
Insert(r) ==
    /\ r \in requests /\ r.at = "sent"
    /\ IF r.event \in db
       THEN Answered(r) /\ UNCHANGED db
       ELSE /\ db' = db \cup {r.event}
            /\ requests' = (requests \ {r}) \cup {[r EXCEPT !.at = "inserted"]}
            /\ UNCHANGED client
    /\ UNCHANGED <<store, writer, published, closer, counts, history>>

\* A failure to publish is only logged.
Publish(r) ==
    /\ r \in requests /\ r.at = "inserted"
    /\ published' \in {published, Append(published, r.event)}
    /\ Answered(r)
    /\ UNCHANGED <<store, writer, db, closer, counts, history>>

\* A request is refused (rate limit, 503) or lost on its way.
Refused(r) ==
    /\ r \in requests /\ r.at = "sent" /\ faults < MaxFaults
    /\ faults' = faults + 1
    /\ IF Answers(r) THEN TryFailed(requests \ {r})
       ELSE requests' = requests \ {r} /\ UNCHANGED client
    /\ UNCHANGED <<store, writer, db, published, closer, process, history>>

-----------------------------------------------------------------------------
(* The end of a process.                                                    *)

Close ==
    /\ closing = "open" /\ phase \in {"new", "ready"} /\ ~dead
    /\ closing' = "writes"
    /\ awaited' = In(queue)
    /\ owed' = IF phase = "new" THEN 0 ELSE stored
    /\ UNCHANGED <<store, writer, client, service, counts, failed, abandoned, lost, dead>>

WritesAwaited ==
    /\ closing = "writes" /\ ~dead /\ awaited \cap In(queue) = {}
    /\ closing' = "posts"
    /\ awaited' = In(sinkQueue)
    /\ UNCHANGED <<store, writer, client, service, counts, history>>

Closed ==
    /\ closing = "posts" /\ ~dead /\ awaited \cap In(sinkQueue) = {}
    /\ closing' = "closed"
    /\ awaited' = {}
    /\ UNCHANGED <<store, writer, client, service, counts, history>>

\* Kill or exit: what is queued is gone; requests on their way are not.
Dies ==
    /\ ~dead
    /\ dead' = TRUE /\ phase' = "new"
    /\ lost' = lost \cup In(buffer) \cup In(queue)
    /\ abandoned' = abandoned \cup In(sinkQueue)
    /\ buffer' = <<>> /\ queue' = <<>> /\ appends' = {} /\ sinkQueue' = <<>> /\ post' = Idle
    /\ UNCHANGED <<stored, log, service, closer, counts, failed, owed>>

\* A resumed run has a new store on the same files.
Restart ==
    /\ dead /\ faults < MaxFaults
    /\ process' = process + 1 /\ faults' = faults + 1
    /\ dead' = FALSE /\ closing' = "open" /\ awaited' = {}
    /\ UNCHANGED <<store, writer, client, service, failed, abandoned,
                   lost, owed>>

-----------------------------------------------------------------------------
StoreStep == Opened \/ PersistNext \/ \E a \in appends : AppendDone(a) \/ AppendFails(a)
ServiceStep == \E r \in requests : Insert(r) \/ Publish(r) \/ Refused(r)
CloseStep == WritesAwaited \/ Closed

Next ==
    \/ Store \/ Initialize \/ Close \/ Dies \/ Restart
    \/ StoreStep \/ PostNext \/ TimesOut \/ ServiceStep \/ CloseStep

\* The event loop runs what is pending, appends return, and a post is answered or
\* given up after EVENT_SINK_TIMEOUT_MS.
Fairness ==
    /\ WF_vars(StoreStep) /\ WF_vars(PostNext) /\ WF_vars(CloseStep)
    /\ WF_vars(TimesOut \/ ServiceStep)

Spec == Init /\ [][Next]_vars /\ Fairness

=============================================================================
