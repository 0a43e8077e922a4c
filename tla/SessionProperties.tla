-------------------------- MODULE SessionProperties --------------------------
(* What can be relied on of a session that everybody writes and nobody locks. *)
EXTENDS SessionStore

Statuses == {"none", "pending", "executing", "waiting_human_review"} \cup TerminalStatus

ExecType == [at : {"none", "gone", "stuck", "killed"} \cup Live, status : Statuses,
             ws : BOOLEAN, plan : BOOLEAN, steps : 0..MaxSteps]
LogType == [derived : Statuses, stepFailed : BOOLEAN, terminal : BOOLEAN]
FileType == [is : {"absent", "empty", "torn", "whole"}, status : Statuses, path : BOOLEAN]
SaveType == [at : {"idle", "check", "read", "open", "write", "event"},
             kind : {"persist", "cancel", "signal"}, by : Attempts, path : BOOLEAN,
             seen : BOOLEAN, status : Statuses]

\* Every variable has its type, and only a readable file says something.
TypeOK ==
    /\ exec \in [Attempts -> ExecType]
    /\ log \in LogType
    /\ file \in FileType
    /\ file.is # "whole" => file.status = "none" /\ ~file.path
    /\ save \in [Saves -> SaveType]
    /\ cancels \in 0..MaxCancels

Settled == \A s \in Saves : save[s].at = "idle"
LiveAttempts == {a \in Attempts : exec[a].at \in Live}

\* A run whose last execution ended by itself or by a signal is never reported as
\* going on once all saves have landed or were lost, in whatever order they landed:
\* the events written before the last save make up for it (303-371). Exempt are a
\* file that overlapping writes left unreadable, one that never got the path of the
\* workspace (the process exited before that save), and the deadlock exit, which
\* writes no event.
EndIsKnown ==
    \A a \in Attempts :
        (/\ Latest(a) /\ exec[a].at = "gone" /\ exec[a].ws
         /\ LiveAttempts = {} /\ Settled /\ file.is = "whole" /\ file.path)
        => Reported \in TerminalStatus

\* Two executions of a run side by side are possible only when a step has failed, the
\* task has ended before, a cancellation was asked for or an execution deadlocked: a run
\* of which none of this is true has one executor, whatever is killed, restarted, saved
\* late or torn.
OneExecutor ==
    Cardinality(LiveAttempts) > 1 =>
        \/ log.stepFailed \/ log.terminal \/ cancels > 0
        \/ \E a \in Attempts : exec[a].at = "stuck"

=============================================================================
