--------------------------- MODULE EventProperties ---------------------------
(* What a reader of the log, of the events table or of the channel relies on. *)
EXTENDS EventLog

RequestType == [event : Events, try : 1..2, at : {"sent", "inserted"}, by : 0..MaxFaults]

\* Every variable has its type; what is flushed is at the head of the buffer.
TypeOK ==
    /\ stored \in 0..MaxEvents
    /\ phase \in {"new", "opening", "flushing", "ready"}
    /\ buffer \in Seq(Events)
    /\ queue \in Seq(Events)
    /\ appends \subseteq Targets \X Events
    /\ log \in [Targets -> Seq(Events)]
    /\ sinkQueue \in Seq(Events)
    /\ post \in [event : Events \cup {0}, try : 0..2]
    /\ requests \subseteq RequestType
    /\ db \subseteq Events
    /\ published \in Seq(Events)
    /\ closing \in {"open", "writes", "posts", "closed"}
    /\ awaited \subseteq Events
    /\ failed \subseteq Events /\ abandoned \subseteq Events /\ lost \subseteq Events
    /\ dead \in BOOLEAN /\ owed \in 0..MaxEvents
    /\ process \in 0..faults /\ faults \in 0..MaxFaults
    /\ phase = "flushing" => buffer # <<>>

\* The files are in the order of store(), across the flush of the buffer and a restart
\* of the run, and so is what subscribers see.  Promise.all abandons the other append
\* when one fails, so an event one of whose appends failed, and no other, may turn up
\* late in the other file (94-96); an event whose post the client gave up while the
\* service went on with it may be announced late (91-97 of event-sink-client.ts).
LogInOrder ==
  /\ \A t \in Targets : \A i, j \in DOMAIN log[t] :
       i < j /\ log[t][i] >= log[t][j] => log[t][j] \in failed /\ log[t][i] # log[t][j]
  /\ \A i, j \in DOMAIN published :
       i < j /\ published[i] > published[j] => published[j] \in abandoned

\* After close, nothing that was stored before it and not given up is still on its way,
\* although the posts are queued only when the writes are done (144-147).
CloseFlushes ==
    closing = "closed" /\ ~dead =>
        \A e \in 1..owed : e \notin failed \cup lost =>
            /\ \A t \in Targets : e \in In(log[t])
            /\ e \notin In(sinkQueue)

\* The log can be read back: it is in order, and complete once it is closed.
LogKept == LogInOrder /\ CloseFlushes

\* An event is logged once, received only after it was logged, announced once.
Ledger == INSTANCE EventLedger WITH logged <- log["run"], received <- db, announced <- published
KeepsLedger == Ledger!Spec

=============================================================================
