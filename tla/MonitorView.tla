------------------------------ MODULE MonitorView ------------------------------
\* What the monitor shows of a run: computed anew for every request, from the events,
\* the session and the files of the workspace, or from the rows of the database.
\* An event is [kind, step, at, data]; step 0 is no step; data is "" or what is told.
EXTENDS Integers, Sequences, FiniteSets, TLC, SequencesExt, FiniteSetsExt, Functions

None == "none"

\* inferStatus: the last event that tells anything
Telling(kind) ==
  CASE kind = "task.completed" -> "completed"
    [] kind = "task.cancelled" -> "cancelled"
    [] kind \in {"task.failed", "step.failed"} -> "failed"
    [] kind = "human_gate.requested" -> "waiting_human_review"
    [] kind \in {"human_gate.approved", "human_gate.rejected", "step.started"} -> "executing"
    [] kind = "task.plan_generated" -> "planning"
    [] kind = "task.created" -> "pending"
    [] OTHER -> ""
InferStatus(events) ==
  LET told == SelectSeq(events, LAMBDA e : Telling(e.kind) # "")
  IN  IF told = <<>> THEN "unknown" ELSE Telling(Last(told).kind)

\* extractRunResumeMetadata: the steps of resumptions, each where it came first
ResumeSteps(events) ==
  LET starts == SelectSeq(events, LAMBDA e : e.kind = "task.started" /\ e.data = "resumed" /\ e.step > 0)
  IN  FoldLeft(LAMBDA seen, e : IF Contains(seen, e.step) THEN seen ELSE Append(seen, e.step), <<>>, starts)

\* buildStepStatus: the steps of the plan and of the events, by what was told of each last
MutStepEvent(st, e) ==
  CASE st.status = "failed" -> st
    [] e.kind = "step.started" -> [st EXCEPT !.status = "running"]
    [] OTHER -> [st EXCEPT !.status = IF e.kind = "step.completed" THEN "completed" ELSE "failed"]
StepEvent(st, e) ==
  LET prompted == IF e.data = "prompt" THEN [st EXCEPT !.resumed = TRUE, !.prompted = TRUE] ELSE st
  IN  CASE e.kind = "step.started"   -> [prompted EXCEPT !.status = "running"]
        [] e.kind = "step.completed" -> [prompted EXCEPT !.status = "completed"]
        [] e.kind = "step.failed"    -> [prompted EXCEPT !.status = "failed"]
        [] OTHER -> prompted
StepStatus(plan, events, resumed) ==
  LET about == SelectSeq(events, LAMBDA e : e.kind # "task.started" /\ e.step > 0)
      New(n) == [status |-> "pending", resumed |-> n \in resumed, prompted |-> FALSE, rework |-> n >= 900]
  IN  [n \in plan \cup {e.step : e \in ToSet(about)} |->
         FoldLeft(StepEvent, New(n), SelectSeq(about, LAMBDA e : e.step = n))]

\* extractHostingMode; a record of the database has no execution backend.
Modes == {"local", "docker", "k8s-job-whole-run", "k8s-agent-sandbox"}
FromBackend(backend, session) ==
  CASE backend = "agent-sandbox" -> "k8s-agent-sandbox"
    [] backend = "docker" -> "docker"
    [] OTHER -> IF session.cluster THEN "k8s-job-whole-run" ELSE "local"
HostingMode(events, session, recorded) ==
  LET told == SelectSeq(events, LAMBDA e : e.data \in Modes \/ e.kind \in {"sandbox.created", "sandbox.resumed"})
      stored == SelectSeq(<<session.mode, recorded>>, LAMBDA m : m \in Modes)
  IN  CASE stored # <<>> -> Head(stored)
        [] stored = <<>> /\ told = <<>> -> FromBackend("", session)
        [] OTHER -> IF Last(told).data \in Modes THEN Last(told).data ELSE FromBackend(Last(told).data, session)

\* extractSnapshotState: a finished cleanup in the session, else the last event about it
Snapshot(kind) ==
  CASE kind = "workspace.cleanup.completed" -> "cleanup_completed"
    [] kind \in {"workspace.cleanup.failed", "workspace.snapshot.failed"} -> "snapshot_failed"
    [] kind = "workspace.snapshot.completed" -> "snapshot_completed"
    [] kind = "workspace.snapshot.started" -> "snapshot_uploading"
    [] OTHER -> None
SnapshotState(events, session) ==
  LET told == SelectSeq(events, LAMBDA e : Snapshot(e.kind) # None)
  IN  IF session.snapshot = "cleanup_completed" \/ told = <<>> THEN session.snapshot ELSE Snapshot(Last(told).kind)

\* buildOperationalAlerts
Alerts(status, mode, snapshot, sandbox, handoff) ==
  (CASE snapshot \in {"snapshot_failed", "snapshot_uploading"} -> {snapshot}
     [] OTHER -> IF mode = "k8s-agent-sandbox" /\ status \in {"completed", "failed"} /\ snapshot = None
                   THEN {"snapshot_missing"} ELSE {})
    \cup (IF sandbox \in {"not_found", "failed", "not_ready"} THEN {"sandbox_" \o sandbox} ELSE {})
    \cup (IF handoff /\ snapshot # "cleanup_completed" THEN {"handoff_available"} ELSE {})

\* extractRunSourceMetadata: the ticket of the first task.created that has one
Ticket(events, session) ==
  LET told == SelectSeq(events, LAMBDA e : e.kind = "task.created" /\ e.data = "ticket")
  IN  IF told # <<>> THEN "ticket" ELSE session.ticket

-----------------------------------------------------------------------------
\* The files of the workspace a page reads: what attempts left behind.  A file is
\* [step, attempt, readable].
NewestOf(files, n) ==
  LET mine == {f \in files : f.step = n}
  IN  {f \in mine : \A g \in mine : g.attempt <= f.attempt}
\* readStepResult: the snapshot of the last attempt, else the context that sorts last,
\* else the result in the workspace root, if no later step has ended.
StepResult(files, n, lastDone) ==
  LET Readable(fs) == {f \in fs : f.readable}
      snapshot == Readable(NewestOf(files.snapshots, n))
      context  == Readable(NewestOf(files.contexts, n))
      latest   == Readable(files.latest)
  IN  CASE snapshot # {} -> snapshot
        [] snapshot = {} /\ context # {} -> context
        [] OTHER -> IF n = lastDone THEN latest ELSE {}
\* readStepLogText, of either runtime
StepLog(files, n) == NewestOf(files.logs, n)
\* loadStepModels: unreadable debug files do not count
StepModel(files, n) == NewestOf({f \in files.debugs : f.readable}, n)
\* readStepResultFromDb
StoredResult(rows, n) == NewestOf(rows.results, n)
\* readLogTextFromDb: the chunks of the last attempt that has any, in their sequence
StoredLog(rows, n) ==
  LET mine == SelectSeq(rows.chunks, LAMBDA c : c.step = n /\ c.attempt > 0)
      last == Max({0} \cup {c.attempt : c \in ToSet(mine)})
  IN  SortSeq(SelectSeq(mine, LAMBDA c : c.attempt = last), LAMBDA a, b : a.seq < b.seq)

-----------------------------------------------------------------------------
\* loadRunSummary
RunSummary(events, session, plan, sandbox, handoff) ==
  LET planned == \E i \in DOMAIN events : events[i].kind = "task.plan_generated"
      status  == IF events # <<>> THEN InferStatus(events) ELSE session.status
      mode    == HostingMode(events, session, "")
      snap    == SnapshotState(events, session)
      host    == IF mode = "k8s-agent-sandbox" THEN sandbox ELSE ""
  IN  [status |-> status, mode |-> mode, snapshot |-> snap, ticket |-> Ticket(events, session),
       steps |-> StepStatus(IF planned THEN plan ELSE {}, events, ToSet(ResumeSteps(events))),
       alerts |-> Alerts(status, mode, snap, host, handoff)]

\* readEventsFromDb: rows are [event, received]; the two orders agree on equal times.
StoredEvents(rows) ==
  LET Earlier(a, b) == \/ a.event.at < b.event.at
                       \/ a.event.at = b.event.at /\ a.received < b.received
      sorted == SortSeq(rows, Earlier)
  IN  [i \in DOMAIN sorted |-> sorted[i].event]
\* loadRunSummaryFromDbRecord: the record of the run serves as its session.
StoredSession(record) == [status |-> record.status, mode |-> record.mode, snapshot |-> None,
                          ticket |-> record.ticket, cluster |-> FALSE]
StoredSummary(rows, record, plan, sandbox, handoff) ==
  LET events  == StoredEvents(rows)
      session == StoredSession(record)
      planned == \E i \in DOMAIN events : events[i].kind = "task.plan_generated"
      status  == IF events # <<>> THEN InferStatus(events) ELSE session.status
      mode    == HostingMode(events, session, record.mode)
      snap    == SnapshotState(events, session)
      host    == IF mode = "k8s-agent-sandbox" THEN sandbox ELSE ""
  IN  [status |-> status, mode |-> mode, snapshot |-> snap, ticket |-> Ticket(events, session),
       steps |-> StepStatus(IF planned THEN plan ELSE {}, events, {}),
       alerts |-> Alerts(status, mode, snap, host, handoff)]

-----------------------------------------------------------------------------
\* A run identifier is [runs, base]: how often it is prefixed with "run-", and the rest.
Canonical(id) == IF id.runs > 1 THEN [id EXCEPT !.runs = 1] ELSE id
Candidates(id) ==
  <<id, Canonical(id)>> \o (IF id.runs > 0 THEN <<[id EXCEPT !.runs = 2]>> ELSE <<>>)
                        \o (IF id.runs > 1 THEN <<[id EXCEPT !.runs = @ - 1]>> ELSE <<>>)

\* listRuns: directories are [name, of, at] in the order they are read (`of' is the run
\* their events name, if any), sessions [id, at, exists]; a row is [id, at, from].
RowOf(dir) == [id |-> Canonical(IF dir.of # {} THEN CHOOSE id \in dir.of : TRUE ELSE dir.name),
               at |-> dir.at, from |-> {dir.name}]
KeepNewer(rows, row) ==
  LET same == {r \in rows : r.id = row.id}
  IN  IF \E r \in same : r.at > row.at THEN rows ELSE (rows \ same) \cup {row}
KeepUnlisted(rows, session) ==
  LET row == [id |-> Canonical(session.id), at |-> session.at, from |-> {}]
  IN  IF \E r \in rows : r.id = row.id THEN rows ELSE rows \cup {row}
ListRuns(dirs, sessions) ==
  LET kept == SelectSeq(dirs, LAMBDA d : d.name.runs > 0)
  IN  FoldLeft(KeepUnlisted, FoldLeft(LAMBDA rows, d : KeepNewer(rows, RowOf(d)), {}, kept), sessions)

\* findSessionMetadata
SessionsOf(sessions, id) ==
  SelectSeq(sessions, LAMBDA s : Canonical(s.id) = Canonical(id) \/ Contains(Candidates(id), s.id))
\* resolveRunPath: the directory of the first candidate, else the workspace of the
\* first session of the run, if it still exists.
ResolveRunPath(dirs, sessions, id) ==
  LET named   == {d.name : d \in ToSet(dirs)}
      found   == SelectSeq(Candidates(id), LAMBDA c : c \in named)
      session == SessionsOf(sessions, id)
  IN  CASE found # <<>> -> {Head(found)}
        [] OTHER -> IF session # <<>> /\ Head(session).exists THEN {Head(session).id} ELSE {}

-----------------------------------------------------------------------------
\* deriveWholeRunNamespaces: the project's, and for `<name>-worktree' also <name>'s.
Namespaces(project) ==
  CASE project = "e2e" -> <<"e2e">>
    [] project = "app-worktree" -> <<"app-worktree", "app">>
    [] OTHER -> <<project>>
\* hasRunWorkspacePvc: "" in the cache is no answer that is still fresh.
HasPvc(cluster, cache, ns) == IF cache.pvc[ns] # "" THEN cache.pvc[ns] = "yes" ELSE ns \in cluster.pvcs
\* buildHandoffMetadata
Handoff(project, cluster, cache) ==
  LET found == SelectSeq(Namespaces(project), LAMBDA ns : HasPvc(cluster, cache, ns))
  IN  IF found = <<>> THEN None ELSE Head(found)

\* sandboxLifecycleStateFromResources; the pods are listed for whoever may.
Lifecycle(claim, pods) ==
  CASE pods.deleting -> "terminating"
    [] ~pods.deleting /\ "Running" \in pods.phases -> "running"
    [] ~pods.deleting /\ "Running" \notin pods.phases /\ "Pending" \in pods.phases -> "pending"
    [] OTHER -> CASE "Succeeded" \in pods.phases -> "succeeded"
                  [] "Failed" \in pods.phases /\ "Succeeded" \notin pods.phases -> "failed"
                  [] OTHER -> IF claim \in {"ready", "not_ready", "provisioning"} THEN claim ELSE "not_found"
\* lookupSandboxHost: the first namespace that is answered for, from the cache even when
\* the answer kept there is that nothing was found.
SandboxHost(project, cluster, cache) ==
  LET Answering(ns) == cache.host[ns] # "" \/ cluster.claims[ns] # "404" \/ cluster.pods[ns].listed
      answered == SelectSeq(Namespaces(project), Answering)
      ns == Head(answered)
  IN  CASE answered = <<>> -> ""
        [] OTHER -> CASE cache.host[ns] = None -> ""
                      [] cache.host[ns] \notin {"", None} -> cache.host[ns]
                      [] OTHER -> Lifecycle(cluster.claims[ns], cluster.pods[ns])
\* What the lookups of a page leave in the caches.
NoCache(project) == LET all == ToSet(Namespaces(project)) IN [pvc |-> [ns \in all |-> ""], host |-> [ns \in all |-> ""]]
Cached(project, cluster) ==
  LET nss == Namespaces(project)
      Asked(i, answers) == \A j \in 1 .. (i - 1) : ~answers[j]
      pvcs  == [i \in DOMAIN nss |-> nss[i] \in cluster.pvcs]
      hosts == [i \in DOMAIN nss |-> cluster.claims[nss[i]] # "404" \/ cluster.pods[nss[i]].listed]
      At(ns) == CHOOSE i \in DOMAIN nss : nss[i] = ns
  IN  [pvc  |-> [ns \in ToSet(nss) |-> IF ~Asked(At(ns), pvcs) THEN "" ELSE IF pvcs[At(ns)] THEN "yes" ELSE "no"],
       host |-> [ns \in ToSet(nss) |-> IF ~Asked(At(ns), hosts) THEN ""
                                       ELSE IF hosts[At(ns)] THEN Lifecycle(cluster.claims[ns], cluster.pods[ns])
                                       ELSE None]]

-----------------------------------------------------------------------------
\* A page of a run told by a history of the engine: what it says of the run and what it
\* says of the steps agree, and the database, with the same events, shows the same.  A rework that a crash cut off is
\* shown as running for ever when a resumption completes the run without it.
PageTrue(events, page) ==
  LET Running == {n \in DOMAIN page.steps : page.steps[n].status = "running"}
      Gates(kinds) == Cardinality({i \in DOMAIN events : events[i].kind \in kinds})
      open == Gates({"human_gate.requested"}) - Gates({"human_gate.approved", "human_gate.rejected"})
  IN  /\ page.status = "completed" =>
           /\ \A n \in DOMAIN page.steps : n < 900 => page.steps[n].status = "completed"
           /\ ResumeSteps(events) = <<>> => Running = {}
      /\ page.status \in {"pending", "planning"} => \A n \in DOMAIN page.steps : page.steps[n].status = "pending"
      /\ page.status = "waiting_human_review" => open > 0
      /\ events # <<>> /\ page.status = "executing" =>
           \/ Running # {}
           \/ \E n \in DOMAIN page.steps : page.steps[n].status = "completed"
      /\ page.snapshot = "cleanup_completed" =>
           page.alerts \cap {"snapshot_failed", "snapshot_uploading", "snapshot_missing", "handoff_available"} = {}
      /\ Cardinality(page.alerts \cap {"snapshot_failed", "snapshot_uploading", "snapshot_missing"}) <= 1
SamePage(page, stored) ==
  /\ page.status = stored.status /\ page.snapshot = stored.snapshot /\ page.alerts = stored.alerts
  /\ \A n \in DOMAIN page.steps : page.steps[n].status = stored.steps[n].status
  /\ DOMAIN page.steps = DOMAIN stored.steps

\* The cluster is told of truthfully, and a second look within the life of the caches
\* says the same; a sandbox in the second namespace of a project is then lost.
HostTrue(project, cluster) ==
  LET none == NoCache(project)
      kept == Cached(project, cluster)
  IN  /\ (Handoff(project, cluster, none) # None) = (ToSet(Namespaces(project)) \cap cluster.pvcs # {})
      /\ Handoff(project, cluster, kept) = Handoff(project, cluster, none)
      /\ SandboxHost(project, cluster, none) = "running" =>
           \E ns \in ToSet(Namespaces(project)) : "Running" \in cluster.pods[ns].phases /\ ~cluster.pods[ns].deleting
      /\ Len(Namespaces(project)) = 1 => SandboxHost(project, cluster, kept) = SandboxHost(project, cluster, none)

\* What is shown of a step is of one attempt, the last one, and the same in both
\* backends, when that attempt left everything readable and nothing was lost.
FilesTrue(files, rows, n, lastDone) ==
  LET kinds == {files.snapshots, files.logs, files.debugs}
      last  == Max({0} \cup {f.attempt : f \in {f \in UNION kinds : f.step = n}})
      whole == last > 0 /\ \A fs \in kinds : [step |-> n, attempt |-> last, readable |-> TRUE] \in fs
  IN  /\ \A f \in StepResult(files, n, lastDone) : f.step # n => n = lastDone
      /\ whole => \A fs \in {StepResult(files, n, lastDone), StepModel(files, n), StepLog(files, n)} :
                    fs # {} /\ \A f \in fs : f.step = n /\ f.attempt = last
      /\ \A f \in StoredResult(rows, n) : \A r \in rows.results : r.step = n => r.attempt <= f.attempt
      /\ \A i, j \in DOMAIN StoredLog(rows, n) :
           LET log == StoredLog(rows, n)
           IN  i < j => log[i].seq < log[j].seq /\ log[i].attempt = log[j].attempt

\* A list shows every run there is once, as its newest directory tells it.
ListTrue(dirs, sessions, rows) ==
  LET ids == {RowOf(d).id : d \in {d \in ToSet(dirs) : d.name.runs > 0}}
  IN  /\ \A r, q \in rows : r.id = q.id => r = q
      /\ {r.id : r \in rows} = ids \cup {Canonical(s.id) : s \in ToSet(sessions)}
      /\ \A r \in rows : \A d \in ToSet(dirs) :
           d.name.runs > 0 /\ RowOf(d).id = r.id => r.from # {} /\ d.at <= r.at
      /\ \A r \in rows : r.from # {} /\ (\A d \in ToSet(dirs) : Canonical(d.name) = RowOf(d).id) =>
           \E name \in ResolveRunPath(dirs, sessions, r.id) : Canonical(name) = r.id
=============================================================================
