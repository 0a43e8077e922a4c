----------------------------- MODULE SessionStore -----------------------------
(***************************************************************************)
(* The session file of one run (src/src/service/session-manager.ts) and    *)
(* everybody who reads and writes it without a lock: the engine, whose     *)
(* saves are fire-and-forget, the cancel command, the signal handler, and  *)
(* resume and auto-resume, which decide by it.  A save is a read of the    *)
(* file, the truncation of fs.writeFile, and the write; other saves come   *)
(* in between.  What a reader is told is the file corrected by the run's   *)
(* event log, .events.jsonl.                                               *)
(***************************************************************************)
EXTENDS Naturals, FiniteSets

CONSTANTS
    MaxAttempts, \* bound: executions of the run, the first and the resumed ones
    Saves,       \* bound: saves that may be in flight at once
    MaxCancels,  \* bound: cancel commands and signals
    MaxSteps,    \* bound: step starts and gate requests of one attempt
    OwnRunId     \* is SPRINTFOUNDRY_RUN_ID set, so that a signal finds the run

Attempts == 1..MaxAttempts

ASSUME SessionBounds ==
    /\ MaxAttempts \in Nat \ {0} /\ MaxCancels \in Nat /\ MaxSteps \in Nat
ASSUME OwnRunIdAssumption == OwnRunId \in BOOLEAN

VARIABLES
    exec,    \* per attempt: where it stands, run.status, does it have a workspace and a plan
    log,     \* what a reading of .events.jsonl arrives at
    file,    \* the session file
    save,    \* the saves in flight
    cancels  \* how many cancellations were asked for

vars == <<exec, log, file, save, cancels>>

TerminalStatus == {"completed", "failed", "cancelled"}
Live == {"created", "running", "waiting", "finalizing"}

NoSave == [at |-> "idle", kind |-> "persist", by |-> 1, path |-> FALSE, seen |-> FALSE,
           status |-> "none"]

Init ==
    /\ exec = [a \in Attempts |-> [at |-> "none", status |-> "none", ws |-> FALSE,
                               plan |-> FALSE, steps |-> 0]]
    /\ log = [derived |-> "none", stepFailed |-> FALSE, terminal |-> FALSE]
    /\ file = [is |-> "absent", status |-> "none", path |-> FALSE]
    /\ save = [s \in Saves |-> NoSave]
    /\ cancels = 0

-----------------------------------------------------------------------------
(* Reading.  reconcileFromWorkspaceEvents goes through the events one by   *)
(* one; log is kept as the state it is in after the last of them.          *)

Ended(l, status) == [l EXCEPT !.derived = status, !.terminal = TRUE]
Goes(l, status) == [l EXCEPT !.derived = IF l.terminal THEN @ ELSE status]

After(l, event) ==
    CASE event = "task.completed" -> Ended(l, "completed")
      [] event = "task.cancelled" -> Ended(l, "cancelled")
      [] event \in {"task.failed", "human_gate.rejected"} -> Ended(l, "failed")
      [] event = "human_gate.requested" -> Goes(l, "waiting_human_review")
      [] event \in {"human_gate.approved", "step.started"} -> Goes(l, "executing")
      [] event = "step.failed" -> [Goes(l, "executing") EXCEPT !.stepFailed = TRUE]
      [] event = "task.created" -> [l EXCEPT !.derived = IF @ = "none" /\ ~l.terminal
                                                         THEN "pending" ELSE @]

\* Seeded fault: a failed step decides nothing.
MutDerived(l) == l.derived

Derived(l) == IF ~l.terminal /\ l.stepFailed THEN "failed" ELSE l.derived

\* get: "none" is the null of an absent or unreadable file.
Reported ==
    IF file.is # "whole" THEN "none"
    ELSE IF file.status \in TerminalStatus \/ ~file.path \/ Derived(log) = "none"
         THEN file.status
         ELSE Derived(log)

-----------------------------------------------------------------------------
(* Saving.                                                                  *)

Begin(s, kind, a, path, at) ==
    save' = [save EXCEPT ![s] = [NoSave EXCEPT !.at = at, !.kind = kind, !.by = a, !.path = path]]

\* persistSession: one more save of this run, awaited by nobody.
Persist(a, path) == \E s \in Saves : save[s].at = "idle" /\ Begin(s, "persist", a, path, "read")

\* The first get of a cancellation, by the command or by the signal handler.
CancelChecks(s) ==
    /\ save[s].at = "check"
    /\ IF Reported = "none" \/ (save[s].kind = "cancel" /\ Reported \in {"completed", "cancelled"})
       THEN save' = [save EXCEPT ![s] = IF save[s].kind = "cancel" THEN NoSave
                                        ELSE [@ EXCEPT !.at = "read"]]
       ELSE save' = [save EXCEPT ![s] = [@ EXCEPT !.at = "read", !.seen = file.path]]
    /\ UNCHANGED <<exec, log, file, cancels>>

\* persist builds the record when its read returns, from run as it is then;
\* updateStatus cancels what its own get returns.
ReadsExisting(s) ==
    /\ save[s].at = "read"
    /\ IF save[s].kind = "persist"
       THEN /\ save' = [save EXCEPT ![s] = [@ EXCEPT !.at = "open",
                              !.status = exec[save[s].by].status,
                              !.path = save[s].path \/ file.path]]
            /\ UNCHANGED exec
       ELSE IF file.is = "whole"
       THEN /\ save' = [save EXCEPT ![s] = [@ EXCEPT !.at = "open", !.status = "cancelled",
                                                     !.path = file.path]]
            /\ UNCHANGED exec
       ELSE /\ save' = [save EXCEPT ![s] = NoSave]
            /\ exec' = IF save[s].kind = "signal" /\ exec[save[s].by].at \in Live
                       THEN [exec EXCEPT ![save[s].by] = [@ EXCEPT !.at = "killed"]]
                       ELSE exec
    /\ UNCHANGED <<log, file, cancels>>

Truncates(s) ==
    /\ save[s].at = "open"
    /\ file' = [is |-> "empty", status |-> "none", path |-> FALSE]
    /\ save' = [save EXCEPT ![s] = [@ EXCEPT !.at = "write"]]
    /\ UNCHANGED <<exec, log, cancels>>

\* A write starts at offset 0.  Over what another save wrote since the truncation,
\* it leaves that one's tail when it is shorter.
Writes(s) ==
    /\ save[s].at = "write"
    /\ \/ file' = [is |-> "whole", status |-> save[s].status, path |-> save[s].path]
       \/ /\ file.is \in {"whole", "torn"}
          /\ file' = [is |-> "torn", status |-> "none", path |-> FALSE]
    /\ save' = [save EXCEPT ![s] = IF save[s].kind = "signal" THEN [@ EXCEPT !.at = "event"]
                                   ELSE NoSave]
    /\ UNCHANGED <<exec, log, cancels>>

\* A process that exits takes its saves with it.
SaveLost(s) ==
    /\ save[s].at # "idle" /\ save[s].kind # "cancel"
    /\ \/ exec[save[s].by].at = "killed"
       \/ exec[save[s].by].at \in {"gone", "stuck"} /\ exec[save[s].by].status # "completed"
    /\ save' = [save EXCEPT ![s] = NoSave]
    /\ UNCHANGED <<exec, log, file, cancels>>

-----------------------------------------------------------------------------
(* An execution of the run.                                                 *)

Exec(a, e) == exec' = [exec EXCEPT ![a] = e]
Event(e) == log' = After(log, e)

Latest(a) == a = 0 \/ (exec[a].at # "none" /\ \A b \in Attempts : b > a => exec[b].at = "none")

Create(a) ==
    /\ Exec(a, [at |-> "created", status |-> "pending", ws |-> FALSE, plan |-> FALSE, steps |-> 0])
    /\ Persist(a, FALSE)

\* handleTask waits for its first save (639).
CreateRun ==
    /\ exec[1].at = "none"
    /\ Create(1)
    /\ UNCHANGED <<log, file, cancels>>

FirstSaveDone(a) == \A s \in Saves : save[s].by = a => save[s].at = "idle"

\* The events stored so far are flushed into the log when the workspace is there.
WorkspaceReady(a) ==
    /\ exec[a].at = "created" /\ ~exec[a].ws /\ FirstSaveDone(a)
    /\ Exec(a, [exec[a] EXCEPT !.ws = TRUE])
    /\ Event("task.created")
    /\ Persist(a, TRUE)
    /\ UNCHANGED <<file, cancels>>

IntakeFails(a) ==
    /\ exec[a].at = "created" /\ FirstSaveDone(a)
    /\ Exec(a, [exec[a] EXCEPT !.at = "gone", !.status = "failed"])
    /\ log' = IF exec[a].ws THEN After(log, "task.failed") ELSE log
    /\ Persist(a, exec[a].ws)
    /\ UNCHANGED <<file, cancels>>

PlanStarts(a) ==
    /\ exec[a].at = "created" /\ exec[a].ws
    /\ Exec(a, [exec[a] EXCEPT !.at = "running", !.status = "executing", !.plan = TRUE])
    /\ Persist(a, TRUE)
    /\ UNCHANGED <<log, file, cancels>>

StepStarts(a) ==
    /\ exec[a].at = "running" /\ exec[a].steps < MaxSteps
    /\ Exec(a, [exec[a] EXCEPT !.steps = @ + 1])
    /\ Event("step.started")
    /\ Persist(a, TRUE)
    /\ UNCHANGED <<file, cancels>>

\* Rework may repair the step: the run goes on, and its log says step.failed.
StepFails(a) ==
    /\ exec[a].at = "running" /\ exec[a].steps > 0
    /\ Event("step.failed")
    /\ UNCHANGED <<exec, file, save, cancels>>

PlanFails(a) ==
    /\ exec[a].at = "running" /\ log.stepFailed
    /\ Exec(a, [exec[a] EXCEPT !.at = "gone", !.status = "failed"])
    /\ Persist(a, TRUE)
    /\ UNCHANGED <<log, file, cancels>>

\* No step is executable: the only end without an event (921-926).
Deadlocks(a) ==
    /\ exec[a].at = "running"
    /\ Exec(a, [exec[a] EXCEPT !.at = "stuck", !.status = "failed"])
    /\ Persist(a, TRUE)
    /\ UNCHANGED <<log, file, cancels>>

GateRequested(a) ==
    /\ exec[a].at = "running" /\ exec[a].steps < MaxSteps
    /\ Exec(a, [exec[a] EXCEPT !.at = "waiting", !.status = "waiting_human_review", !.steps = @ + 1])
    /\ Event("human_gate.requested")
    /\ UNCHANGED <<file, save, cancels>>

GateApproved(a) ==
    /\ exec[a].at = "waiting"
    /\ Exec(a, [exec[a] EXCEPT !.at = "running", !.status = "executing"])
    /\ Event("human_gate.approved")
    /\ UNCHANGED <<file, save, cancels>>

GateRejected(a) ==
    /\ exec[a].at = "waiting"
    /\ Exec(a, [exec[a] EXCEPT !.at = "gone", !.status = "failed"])
    /\ log' = After(After(log, "human_gate.rejected"), "task.failed")
    /\ Persist(a, TRUE)
    /\ UNCHANGED <<file, cancels>>

PlanCompleted(a) ==
    /\ exec[a].at = "running"
    /\ Exec(a, [exec[a] EXCEPT !.at = "finalizing", !.status = "completed"])
    /\ Event("task.completed")
    /\ Persist(a, TRUE)
    /\ UNCHANGED <<file, cancels>>

Finalized(a) ==
    /\ exec[a].at = "finalizing"
    /\ Exec(a, [exec[a] EXCEPT !.at = "gone"])
    /\ Persist(a, TRUE)
    /\ UNCHANGED <<log, file, cancels>>

EngineFails(a) ==
    /\ exec[a].at \in {"running", "finalizing"}
    /\ Exec(a, [exec[a] EXCEPT !.at = "gone", !.status = "failed"])
    /\ Event("task.failed")
    /\ Persist(a, TRUE)
    /\ UNCHANGED <<file, cancels>>

ProcessKilled(a) ==
    /\ exec[a].at \in Live
    /\ Exec(a, [exec[a] EXCEPT !.at = "killed"])
    /\ UNCHANGED <<log, file, save, cancels>>

-----------------------------------------------------------------------------
(* The others.                                                              *)

CancelCommand ==
    /\ cancels < MaxCancels /\ exec[1].at # "none"
    /\ cancels' = cancels + 1
    /\ \E s \in Saves : save[s].at = "idle" /\ Begin(s, "cancel", 1, FALSE, "check")
    /\ UNCHANGED <<exec, log, file>>

\* SIGTERM or SIGINT: the engine goes on until the handler exits the process.
Signal(a) ==
    /\ OwnRunId /\ exec[a].at \in Live /\ cancels < MaxCancels
    /\ cancels' = cancels + 1
    /\ \A s \in Saves : ~(save[s].kind = "signal" /\ save[s].by = a)
    /\ \E s \in Saves : save[s].at = "idle" /\ Begin(s, "signal", a, FALSE, "check")
    /\ UNCHANGED <<exec, log, file>>

\* The handler's event is the last thing before its exit; it needs the workspace
\* path its first get returned.
SignalExits(s) ==
    /\ save[s].at = "event" /\ exec[save[s].by].at # "killed"
    /\ log' = IF save[s].seen THEN After(log, "task.cancelled") ELSE log
    /\ Exec(save[s].by, [exec[save[s].by] EXCEPT
           !.at = IF save[s].seen /\ exec[save[s].by].at \in Live THEN "gone"
                  ELSE IF exec[save[s].by].at \in Live THEN "killed" ELSE @])
    /\ save' = [t \in Saves |-> IF save[t].by = save[s].by /\ save[t].kind # "cancel"
                                THEN NoSave ELSE save[t]]
    /\ UNCHANGED <<file, cancels>>

\* Seeded fault: a run in progress is resumed whoever asks.
MutMayResume(a, inProgress) ==
    /\ file.is = "whole" /\ file.path
    /\ {Reported, exec[a].status} \cap {"failed", "cancelled", "executing"} # {}

\* resumeTask takes the status of the session when that is failed or cancelled, and
\* otherwise the one in run-state.json, here that of the latest attempt.
MayResume(a, inProgress) ==
    /\ file.is = "whole" /\ file.path
    /\ \/ {Reported, exec[a].status} \cap {"failed", "cancelled"} # {}
       \/ inProgress /\ exec[a].status = "executing"

Resumes(a) ==
    /\ Exec(a + 1, [at |-> "running", status |-> "executing", ws |-> TRUE, plan |-> TRUE, steps |-> 0])
    /\ Persist(a + 1, TRUE)
    /\ UNCHANGED <<log, file, cancels>>

ResumeCommand(a) ==
    /\ a < MaxAttempts /\ Latest(a) /\ exec[a].plan /\ MayResume(a, FALSE)
    /\ Resumes(a)

\* A pod that is restarted with the same run id (auto-resume.ts).
PodResumes(a) ==
    /\ OwnRunId /\ a < MaxAttempts /\ Latest(a) /\ exec[a].at = "killed"
    /\ Reported = "executing" /\ MayResume(a, TRUE)
    /\ Resumes(a)

PodStartsAfresh(a) ==
    /\ OwnRunId /\ a < MaxAttempts /\ Latest(a) /\ exec[a].at = "killed"
    /\ Reported # "executing" \/ ~file.path
    /\ Create(a + 1)
    /\ UNCHANGED <<log, file, cancels>>

-----------------------------------------------------------------------------
SaveStep ==
    \E s \in Saves :
        \/ CancelChecks(s) \/ ReadsExisting(s) \/ Truncates(s) \/ Writes(s)
        \/ SaveLost(s) \/ SignalExits(s)

Next ==
    \/ CreateRun
    \/ CancelCommand
    \/ SaveStep
    \/ \E a \in Attempts :
          \/ WorkspaceReady(a) \/ IntakeFails(a) \/ PlanStarts(a) \/ StepStarts(a)
          \/ StepFails(a) \/ PlanFails(a) \/ Deadlocks(a)
          \/ GateRequested(a) \/ GateApproved(a) \/ GateRejected(a)
          \/ PlanCompleted(a) \/ Finalized(a) \/ EngineFails(a)
          \/ ProcessKilled(a) \/ Signal(a)
          \/ ResumeCommand(a) \/ PodResumes(a) \/ PodStartsAfresh(a)

Spec == Init /\ [][Next]_vars

=============================================================================
