-------------------------- MODULE SnapshotController --------------------------
(***************************************************************************)
(* The end of a run hosted in Kubernetes.  The snapshot controller         *)
(* (src/src/service/k8s-run-snapshot-controller.ts) polls the cluster, has *)
(* an exporter job (run-snapshot-export-service.ts, run-snapshot-store.ts) *)
(* upload the workspace of each run that has no live pod, and then takes   *)
(* the run's host, pods and volume down.  Every call to Kubernetes or S3   *)
(* is a step; jobs and claims are listed once per poll.                    *)
(***************************************************************************)
EXTENDS Naturals, FiniteSets

CONSTANTS
    Runs,         \* run ids
    NoRun,        \* the candidate of a poll that has visited none
    MaxWork,      \* bound: how often the workspace of a run changes
    MaxLost,      \* bound: how often the pod of a run is lost and replaced
    MaxFaults,    \* bound: how many calls fail
    PollsInTime   \* are polls closer together than a finished job's time to live

ASSUME BoundsAssumption == MaxWork \in Nat /\ MaxLost \in Nat /\ MaxFaults \in Nat
ASSUME PollsAssumption == PollsInTime \in BOOLEAN /\ NoRun \notin Runs

VARIABLES
    host,    \* per run: its claim, its pod, its volume, how often it lost a pod
    run,     \* per run: changes to the workspace, has a step failed, has it
             \* finished, and the status in the session file on the volume
    job,     \* per run: its exporter job, the job's pod, where exportRun stands
    store,   \* per run: which copy the archive and the manifest in S3 are of,
             \* and the terminal_workflow_state of the session record there
    pc,      \* where reconcileOnce stands
    jobs,    \* the states of the exporter jobs it listed
    claims,  \* the runs whose claim it listed
    todo,    \* the candidates it has not visited in this poll
    visited, \* the candidate it is at
    ended,   \* did it list terminal pods for that candidate
    faults   \* how many calls have failed

cluster == <<host, run, job, store>>
poll == <<jobs, claims, todo, visited, ended>>
snapshotVars == <<cluster, pc, poll, faults>>

NoJob == [state |-> "none", pod |-> FALSE, at |-> "out", copy |-> 0]

SnapshotInit ==
    /\ host = [r \in Runs |-> [claim |-> "none", pod |-> "none", volume |-> FALSE,
                               lost |-> 0]]
    /\ run = [r \in Runs |-> [work |-> 0, failed |-> FALSE, over |-> FALSE,
                              session |-> "none"]]
    /\ job = [r \in Runs |-> NoJob]
    /\ store = [r \in Runs |-> [archive |-> 0, manifest |-> 0, record |-> "none"]]
    /\ pc = "idle"
    /\ jobs = [r \in Runs |-> "none"]
    /\ claims = {}
    /\ todo = {}
    /\ visited = NoRun
    /\ ended = FALSE
    /\ faults = 0

Fault == faults < MaxFaults /\ faults' = faults + 1

-----------------------------------------------------------------------------
(* The run and its host.  The dispatcher creates the volume, then the      *)
(* claim; the sandbox platform keeps a pod for a bound claim, and replaces *)
(* one that is lost before the run is over (the runner then resumes).      *)

Host(r, h) == host' = [host EXCEPT ![r] = h]

CreateVolume(r) ==
    /\ host[r].claim = "none" /\ ~host[r].volume
    /\ Host(r, [host[r] EXCEPT !.volume = TRUE])
    /\ UNCHANGED <<run, job, store, pc, poll, faults>>

\* createSandboxHost may fail in between: then the claim never follows.
CreateClaim(r) ==
    /\ host[r].claim = "none" /\ host[r].volume
    /\ Host(r, [host[r] EXCEPT !.claim = "bound"])
    /\ UNCHANGED <<run, job, store, pc, poll, faults>>

PodStarts(r) ==
    /\ host[r].claim = "bound" /\ host[r].pod # "running" /\ ~run[r].over
    /\ Host(r, [host[r] EXCEPT !.pod = "running"])
    /\ UNCHANGED <<run, job, store, pc, poll, faults>>

\* Evicted: the pod is gone, or stays as a failed one until it is replaced.
PodLost(r) ==
    /\ host[r].pod = "running" /\ ~run[r].over /\ host[r].lost < MaxLost
    /\ \E p \in {"none", "ended"} :
          Host(r, [host[r] EXCEPT !.pod = p, !.lost = @ + 1])
    /\ UNCHANGED <<run, job, store, pc, poll, faults>>

PodEnds(r) ==
    /\ host[r].pod = "running" /\ run[r].over
    /\ Host(r, [host[r] EXCEPT !.pod = "ended"])
    /\ UNCHANGED <<run, job, store, pc, poll, faults>>

HostTornDown(r) ==
    /\ host[r].claim = "released" /\ host[r].pod # "none"
    /\ Host(r, [host[r] EXCEPT !.pod = "none"])
    /\ UNCHANGED <<run, job, store, pc, poll, faults>>

Alive(r) == host[r].pod = "running" /\ ~run[r].over

\* The engine changes the workspace and persists the session as executing.
Works(r) ==
    /\ Alive(r) /\ run[r].work < MaxWork
    /\ run' = [run EXCEPT ![r] = [@ EXCEPT !.work = run[r].work + 1,
                                           !.session = "executing"]]
    /\ UNCHANGED <<host, job, store, pc, poll, faults>>

\* A step fails, for rework to repair: its event stays in .events.jsonl.
RunStepFails(r) ==
    /\ Alive(r) /\ ~run[r].failed
    /\ run' = [run EXCEPT ![r] = [@ EXCEPT !.failed = TRUE, !.session = "executing"]]
    /\ UNCHANGED <<host, job, store, pc, poll, faults>>

Finishes(r) ==
    /\ Alive(r)
    /\ run' = [run EXCEPT ![r] = [@ EXCEPT !.over = TRUE, !.session = "terminal"]]
    /\ UNCHANGED <<host, job, store, pc, poll, faults>>

-----------------------------------------------------------------------------
(* exportRun, in the pod of the exporter job.                              *)

Exporting(r, at) == job[r].state = "active" /\ job[r].at = at

\* SessionManager.get: reconcileFromWorkspaceEvents takes a run that has a
\* failed step and no terminal event for a failed one.
ReadAsTerminal(r) ==
    run[r].session = "terminal" \/ (run[r].session = "executing" /\ run[r].failed)

JobFails(r) == job' = [job EXCEPT ![r] = [@ EXCEPT !.state = "failed", !.at = "out"]]

\* No session, or its status is not terminal: exportRun throws.
ExportRefused(r) ==
    /\ Exporting(r, "reading") /\ ~ReadAsTerminal(r)
    /\ JobFails(r)
    /\ UNCHANGED <<host, run, store, pc, poll, faults>>

\* The status is terminal; the session is marked snapshot_uploading.
ExportAccepted(r) ==
    /\ Exporting(r, "reading") /\ ReadAsTerminal(r)
    /\ job' = [job EXCEPT ![r].at = "copying"]
    /\ UNCHANGED <<host, run, store, pc, poll, faults>>

\* uploadRunSnapshot stages the workspace and packs it.
CopyWorkspace(r) ==
    /\ Exporting(r, "copying")
    /\ job' = [job EXCEPT ![r] = [@ EXCEPT !.at = "archive", !.copy = run[r].work + 1]]
    /\ UNCHANGED <<host, run, store, pc, poll, faults>>

\* Seeded fault: the job reports success once the archive is there.
MutPutArchive(r) ==
    /\ Exporting(r, "archive")
    /\ store' = [store EXCEPT ![r].archive = job[r].copy]
    /\ job' = [job EXCEPT ![r] = [@ EXCEPT !.state = "succeeded", !.at = "out"]]
    /\ UNCHANGED <<host, run, pc, poll, faults>>

PutArchive(r) ==
    /\ Exporting(r, "archive")
    /\ store' = [store EXCEPT ![r].archive = job[r].copy]
    /\ job' = [job EXCEPT ![r].at = "manifest"]
    /\ UNCHANGED <<host, run, pc, poll, faults>>

PutManifest(r) ==
    /\ Exporting(r, "manifest")
    /\ store' = [store EXCEPT ![r].manifest = job[r].copy]
    /\ job' = [job EXCEPT ![r].at = "record"]
    /\ UNCHANGED <<host, run, pc, poll, faults>>

PutRecord(r) ==
    /\ Exporting(r, "record")
    /\ store' = [store EXCEPT ![r].record = "snapshot_completed"]
    /\ job' = [job EXCEPT ![r].at = "session"]
    /\ UNCHANGED <<host, run, pc, poll, faults>>

\* upsertMetadata writes the exported session over the one on the volume, and
\* the job succeeds.
ExportDone(r) ==
    /\ Exporting(r, "session")
    /\ run' = [run EXCEPT ![r].session = "terminal"]
    /\ job' = [job EXCEPT ![r] = [@ EXCEPT !.state = "succeeded", !.at = "out"]]
    /\ UNCHANGED <<host, store, pc, poll, faults>>

\* A call throws or the pod dies (backoffLimit is 0).
ExportFails(r) ==
    /\ job[r].state = "active" /\ Fault
    /\ JobFails(r)
    /\ UNCHANGED <<host, run, store, pc, poll>>

\* Is the controller about to rely on the job: it has listed it as succeeded in
\* this poll, or will act on it in the next, no live pod keeping it from that.
ReliedOn(r) ==
    /\ job[r].state = "succeeded"
    /\ \/ pc # "idle" /\ jobs[r] = "succeeded"
       \/ /\ host[r].pod # "running" \/ host[r].claim = "released"
          /\ store[r].record # "cleanup_completed"

\* ttlSecondsAfterFinished: the job goes, and its pod with it.
JobExpires(r) ==
    /\ job[r].state \in {"failed", "succeeded"}
    /\ ~(PollsInTime /\ ReliedOn(r))
    /\ job' = [job EXCEPT ![r] = NoJob]
    /\ UNCHANGED <<host, run, store, pc, poll, faults>>

-----------------------------------------------------------------------------
(* reconcileOnce.                                                          *)

ListJobs ==
    /\ pc = "idle"
    /\ jobs' = [r \in Runs |-> job[r].state]
    /\ pc' = "claims"
    /\ UNCHANGED <<cluster, claims, todo, visited, ended, faults>>

\* The candidates are the runs with a claim or an exporter job.
ListClaims ==
    /\ pc = "claims"
    /\ claims' = {r \in Runs : host[r].claim = "bound"}
    /\ todo' = claims' \cup {r \in Runs : jobs[r] # "none"}
    /\ pc' = "visit"
    /\ UNCHANGED <<cluster, jobs, visited, ended, faults>>

\* The exporter's pod carries the run's label and is listed with the host's.
RemainingPods(r) == host[r].pod = "running" \/ job[r].state = "active"
TerminalPods(r) == host[r].pod = "ended" \/ (job[r].pod /\ job[r].state # "active")

\* Seeded fault: whether pods remain is not asked again after the export.
MutAfterListPods(r) ==
    CASE jobs[r] = "none" /\ ~RemainingPods(r)     -> "create"
      [] jobs[r] = "succeeded"                     ->
            IF r \in claims THEN "release"
            ELSE IF TerminalPods(r) THEN "pods" ELSE "volume"
      [] OTHER                                     -> "visit"

\* What to do for candidate r next; "visit" is `continue`.
AfterListPods(r) ==
    CASE jobs[r] = "none" /\ ~RemainingPods(r)     -> "create"
      [] jobs[r] = "succeeded" /\ ~RemainingPods(r) ->
            IF r \in claims THEN "release"
            ELSE IF TerminalPods(r) THEN "pods" ELSE "volume"
      [] OTHER                                     -> "visit"

ListPods(r) ==
    /\ pc = "visit" /\ r \in todo
    /\ todo' = todo \ {r}
    /\ visited' = r
    /\ ended' = TerminalPods(r)
    /\ pc' = AfterListPods(r)
    /\ UNCHANGED <<cluster, jobs, claims, faults>>

At(place) == pc = place
Continues(place) == pc' = place /\ UNCHANGED <<poll, faults>>

CreateExporter ==
    /\ At("create")
    /\ job' = [job EXCEPT ![visited] =
                  [state |-> "active", pod |-> TRUE, at |-> "reading", copy |-> 0]]
    /\ Continues("visit")
    /\ UNCHANGED <<host, run, store>>

\* The claim and its template are deleted; terminal pods are waited for.
ReleaseHost ==
    /\ At("release")
    /\ host' = [host EXCEPT ![visited].claim = "released"]
    /\ Continues(IF ended THEN "visit" ELSE "volume")
    /\ UNCHANGED <<run, job, store>>

DeletePods ==
    /\ At("pods")
    /\ host' = [host EXCEPT ![visited].pod = IF @ = "ended" THEN "none" ELSE @]
    /\ job' = [job EXCEPT ![visited].pod = FALSE]
    /\ Continues("visit")
    /\ UNCHANGED <<run, store>>

PvcExists == At("volume") /\ host[visited].volume /\ Continues("delete") /\ UNCHANGED cluster

\* Seeded fault: an absent volume is taken for one that was recorded as deleted.
MutPvcAbsent == At("volume") /\ ~host[visited].volume /\ Continues("visit") /\ UNCHANGED cluster

\* markCleanupCompletedIfNeeded.
PvcAbsent ==
    /\ At("volume") /\ ~host[visited].volume
    /\ Continues(IF store[visited].record = "cleanup_completed" THEN "visit" ELSE "mark")
    /\ UNCHANGED cluster

DeletePvc ==
    /\ At("delete")
    /\ host' = [host EXCEPT ![visited].volume = FALSE]
    /\ Continues("mark")
    /\ UNCHANGED <<run, job, store>>

\* markCleanupCompleted reads the session record from S3 and writes it back.
MarkCleanup ==
    /\ At("mark")
    /\ store' = [store EXCEPT ![visited].record = "cleanup_completed"]
    /\ Continues("visit")
    /\ UNCHANGED <<host, run, job>>

\* It catches its own errors and only reports them.
MarkFails ==
    /\ At("mark") /\ Fault
    /\ pc' = "visit"
    /\ UNCHANGED <<cluster, poll>>

\* Any other call that throws ends the poll for all candidates, and the process,
\* which is started again.
PollFails ==
    /\ pc # "idle" /\ Fault
    /\ pc' = "idle"
    /\ UNCHANGED <<cluster, poll>>

PollDone == At("visit") /\ todo = {} /\ Continues("idle") /\ UNCHANGED cluster

-----------------------------------------------------------------------------
Hosting(r) ==
    \/ CreateVolume(r) \/ CreateClaim(r) \/ PodStarts(r) \/ PodLost(r) \/ PodEnds(r)
    \/ HostTornDown(r)
Running(r) == Works(r) \/ RunStepFails(r) \/ Finishes(r)
ExportRun(r) ==
    \/ ExportRefused(r) \/ ExportAccepted(r) \/ CopyWorkspace(r) \/ PutArchive(r)
    \/ PutManifest(r) \/ PutRecord(r) \/ ExportDone(r)
Reconcile ==
    \/ ListJobs \/ ListClaims \/ (\E r \in Runs : ListPods(r)) \/ CreateExporter
    \/ ReleaseHost \/ DeletePods \/ PvcExists \/ PvcAbsent \/ DeletePvc
    \/ MarkCleanup \/ PollDone

SnapshotNext ==
    \/ \E r \in Runs : Hosting(r) \/ Running(r) \/ ExportRun(r) \/ ExportFails(r)
                       \/ JobExpires(r)
    \/ Reconcile \/ MarkFails \/ PollFails

SnapshotSpec == SnapshotInit /\ [][SnapshotNext]_snapshotVars

\* The controller polls, a pod of the platform ends or goes when it should, the
\* exporter runs on, and a failed job expires.
Fairness ==
    /\ WF_snapshotVars(Reconcile)
    /\ \A r \in Runs : /\ WF_snapshotVars(PodEnds(r) \/ HostTornDown(r))
                       /\ WF_snapshotVars(ExportRun(r))
                       /\ WF_snapshotVars(job[r].state = "failed" /\ JobExpires(r))

FairSpec == SnapshotSpec /\ Fairness

=============================================================================
