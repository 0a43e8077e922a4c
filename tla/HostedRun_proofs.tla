--------------------------- MODULE HostedRun_proofs ---------------------------
(* Proofs about the executors of a run and about the end of a hosted run.      *)
(* SessionStore: type correctness, that a run of which no step failed, that    *)
(* did not end, was not cancelled and did not deadlock has one executor, and   *)
(* that a run that has ended is reported as ended, for any number of attempts  *)
(* and of saves in flight.  SnapshotController: type correctness, and that a   *)
(* host is taken down safely, for any runs and bounds.                         *)
EXTENDS SessionProperties, SnapshotProperties, FiniteSetTheorems, TLAPS

USE SessionBounds, OwnRunIdAssumption

Events == {"task.completed", "task.cancelled", "task.failed", "task.created",
           "human_gate.requested", "human_gate.approved", "human_gate.rejected",
           "step.started", "step.failed"}

Places == {"none", "gone", "stuck", "killed"} \cup Live
SavePlaces == {"idle", "check", "read", "open", "write", "event"}
Kinds == {"persist", "cancel", "signal"}
Opened == {"none", "pending", "executing", "waiting_human_review"}

-----------------------------------------------------------------------------
(* Records.                                                                   *)

\* The log keeps its type whatever event comes next.
LEMMA AfterType ==
    ASSUME NEW l \in LogType, NEW e \in Events
    PROVE  After(l, e) \in LogType
  BY DEF After, Ended, Goes, LogType, Statuses, TerminalStatus, Events

\* What has failed or ended in the log stays so.
LEMMA AfterKeeps ==
    ASSUME NEW l \in LogType, NEW e \in Events
    PROVE  /\ After(l, e).terminal = FALSE => l.terminal = FALSE
           /\ After(l, e).stepFailed = FALSE => l.stepFailed = FALSE
           /\ e \in {"task.completed", "task.cancelled", "task.failed", "human_gate.rejected"}
              => After(l, e).terminal = TRUE
           /\ e = "step.failed" => After(l, e).stepFailed = TRUE
           /\ (l.terminal = FALSE => l.derived \in Opened)
              => (After(l, e).terminal = FALSE => After(l, e).derived \in Opened)
  BY DEF After, Ended, Goes, LogType, Statuses, TerminalStatus, Events, Opened

\* The record of an attempt: its fields, and the records made from it.
LEMMA ExecFields ==
    ASSUME NEW e \in ExecType
    PROVE  /\ e.at \in Places /\ e.status \in Statuses /\ e.ws \in BOOLEAN
           /\ e.plan \in BOOLEAN /\ e.steps \in 0..MaxSteps
  BY DEF ExecType, Places

\* An attempt that moves on.
LEMMA ExecAt ==
    ASSUME NEW e \in ExecType, NEW at \in Places
    PROVE  /\ [e EXCEPT !.at = at] \in ExecType
           /\ [e EXCEPT !.at = at].at = at
           /\ [e EXCEPT !.at = at].status = e.status
           /\ [e EXCEPT !.at = at].plan = e.plan
  BY DEF ExecType, Places

Moved(e, at, status) == [e EXCEPT !.at = at, !.status = status]

\* An attempt that moves on, with the status it then has.
LEMMA ExecMoves ==
    ASSUME NEW e \in ExecType, NEW at \in Places, NEW status \in Statuses
    PROVE  /\ Moved(e, at, status) \in ExecType /\ Moved(e, at, status).at = at
           /\ Moved(e, at, status).status = status /\ Moved(e, at, status).plan = e.plan
  BY DEF ExecType, Places, Moved

\* An attempt that starts its plan.
LEMMA ExecPlans ==
    ASSUME NEW e \in ExecType, "running" \in Places, "executing" \in Statuses, NEW n,
           n = [e EXCEPT !.at = "running", !.status = "executing", !.plan = TRUE]
    PROVE  n \in ExecType /\ n.at = "running" /\ n.status = "executing" /\ n.plan = TRUE
  <1>1. e.ws \in BOOLEAN /\ e.steps \in 0..MaxSteps
    BY DEF ExecType
  <1>2. n = [at |-> "running", status |-> "executing", ws |-> e.ws, plan |-> TRUE,
             steps |-> e.steps]
    BY DEF ExecType
  <1>3. n \in ExecType
    BY <1>1, <1>2 DEF ExecType, Places
  <1> QED
    BY <1>2, <1>3

\* An attempt that gets its workspace.
LEMMA ExecWorkspace ==
    ASSUME NEW e \in ExecType
    PROVE  /\ [e EXCEPT !.ws = TRUE] \in ExecType
           /\ [e EXCEPT !.ws = TRUE].at = e.at
           /\ [e EXCEPT !.ws = TRUE].status = e.status
           /\ [e EXCEPT !.ws = TRUE].plan = e.plan
  BY DEF ExecType

\* An attempt that starts a step.
LEMMA ExecStep ==
    ASSUME NEW e \in ExecType, e.steps < MaxSteps
    PROVE  /\ [e EXCEPT !.steps = @ + 1] \in ExecType
           /\ [e EXCEPT !.steps = @ + 1].at = e.at
           /\ [e EXCEPT !.steps = @ + 1].status = e.status
           /\ [e EXCEPT !.steps = @ + 1].plan = e.plan
  BY DEF ExecType

\* An attempt that asks for a review.
LEMMA ExecGate ==
    ASSUME NEW e \in ExecType, e.steps < MaxSteps, NEW n,
           n = [e EXCEPT !.at = "waiting", !.status = "waiting_human_review", !.steps = @ + 1]
    PROVE  n \in ExecType /\ n.at = "waiting" /\ n.status = "waiting_human_review"
           /\ n.plan = e.plan
  <1>1. e.ws \in BOOLEAN /\ e.plan \in BOOLEAN /\ e.steps + 1 \in 0..MaxSteps
    BY DEF ExecType
  <1>2. n = [at |-> "waiting", status |-> "waiting_human_review", ws |-> e.ws,
             plan |-> e.plan, steps |-> e.steps + 1]
    BY DEF ExecType
  <1> QED
    BY <1>1, <1>2 DEF ExecType, Live, Statuses

Created == [at |-> "created", status |-> "pending", ws |-> FALSE, plan |-> FALSE, steps |-> 0]
Resumed == [at |-> "running", status |-> "executing", ws |-> TRUE, plan |-> TRUE, steps |-> 0]

\* The records a new attempt starts with.
LEMMA NewExec ==
    /\ Created \in ExecType /\ Created.at = "created" /\ Created.status = "pending"
    /\ Created.plan = FALSE
    /\ Resumed \in ExecType /\ Resumed.at = "running" /\ Resumed.status = "executing"
    /\ Resumed.plan = TRUE
  BY DEF Created, Resumed, ExecType, Live, Statuses

\* Replacing the record of one attempt.
LEMMA ExecSet ==
    ASSUME exec \in [Attempts -> ExecType], NEW a \in Attempts, NEW e \in ExecType, Exec(a, e)
    PROVE  /\ exec' \in [Attempts -> ExecType]
           /\ exec'[a] = e
           /\ \A b \in Attempts \ {a} : exec'[b] = exec[b]
  BY DEF Exec

Begun(at, kind, a, path) ==
    [NoSave EXCEPT !.at = at, !.kind = kind, !.by = a, !.path = path]

\* The record of a save that begins.
LEMMA NewSave ==
    ASSUME NEW at \in SavePlaces, NEW kind \in Kinds, NEW a \in Attempts, NEW path \in BOOLEAN
    PROVE  /\ Begun(at, kind, a, path) \in SaveType
           /\ Begun(at, kind, a, path).at = at
           /\ Begun(at, kind, a, path).kind = kind
           /\ Begun(at, kind, a, path).status = "none"
  BY DEF Begun, NoSave, SaveType, SavePlaces, Kinds, Statuses

\* Beginning a save.
LEMMA BeginSet ==
    ASSUME save \in [Saves -> SaveType], NEW s \in Saves, NEW at \in SavePlaces,
           NEW kind \in Kinds, NEW a \in Attempts, NEW path \in BOOLEAN,
           Begin(s, kind, a, path, at)
    PROVE  /\ save' \in [Saves -> SaveType]
           /\ save'[s] \in SaveType /\ save'[s].at = at /\ save'[s].kind = kind
           /\ save'[s].status = "none"
           /\ \A t \in Saves \ {s} : save'[t] = save[t]
  <1>1. save' = [save EXCEPT ![s] = Begun(at, kind, a, path)]
    BY DEF Begin, Begun
  <1> QED
    BY <1>1, NewSave

\* No save in flight.
LEMMA NoSaveType ==
    NoSave \in SaveType /\ NoSave.at = "idle" /\ NoSave.kind = "persist" /\ NoSave.status = "none"
  BY DEF NoSave, SaveType, Statuses, Attempts

\* A persist call begins one save that has not read yet.
LEMMA PersistSet ==
    ASSUME save \in [Saves -> SaveType], NEW a \in Attempts, NEW path \in BOOLEAN, Persist(a, path)
    PROVE  /\ save' \in [Saves -> SaveType]
           /\ \A t \in Saves : save'[t] = save[t] \/ (save'[t].kind = "persist"
                                 /\ save'[t].at = "read" /\ save'[t].status = "none")
  <1>1. PICK s \in Saves : Begin(s, "persist", a, path, "read")
    BY DEF Persist
  <1> QED
    BY <1>1, BeginSet DEF SavePlaces, Kinds

-----------------------------------------------------------------------------
(* The invariant.                                                             *)

Clean == /\ log.stepFailed = FALSE /\ log.terminal = FALSE /\ cancels = 0
         /\ \A a \in Attempts : exec[a].at # "stuck"

\* A save waits for the event of the handler or its check only in a cancellation; a
\* log without the task's end says nothing that would make the run resumable.
FrameInv ==
    /\ \A s \in Saves : save[s].at = "event" => save[s].kind = "signal"
    /\ \A s \in Saves : save[s].kind # "persist" => cancels > 0
    /\ log.terminal = FALSE => log.derived \in Opened
    /\ exec[1].at = "none" => \A a \in Attempts : exec[a].at = "none"

SaveInv(s) == save[s].kind = "persist"
AttemptInv(a) ==
    /\ exec[a].at # "finalizing"
    /\ exec[a].at \in {"gone", "created"} => exec[a].plan = FALSE
    /\ exec[a].at # "gone" => exec[a].status \in Opened
    /\ exec[a].at \in Live \cup {"gone"} => \A b \in Attempts : b > a => exec[b].at = "none"
FilesOpened ==
    (\A a \in Attempts : exec[a].at # "gone")
    => file.status \in Opened /\ \A s \in Saves : save[s].status \in Opened

CleanInv == Clean => /\ \A s \in Saves : SaveInv(s)
                     /\ \A a \in Attempts : AttemptInv(a)
                     /\ FilesOpened

SessionInv == TypeOK /\ FrameInv /\ CleanInv

\* The invariant gives the property: two live attempts are ordered, and nothing
\* follows a live one.
LEMMA InvImpliesOne == SessionInv => OneExecutor
  <1> SUFFICES ASSUME SessionInv, Cardinality(LiveAttempts) > 1, ~log.stepFailed,
                      ~log.terminal, ~(cancels > 0), \A a \in Attempts : exec[a].at # "stuck"
               PROVE  FALSE
    BY DEF OneExecutor
  <1>a. log.stepFailed = FALSE /\ log.terminal = FALSE
    BY Zenon DEF SessionInv, TypeOK, LogType
  <1>b. cancels = 0
    BY DEF SessionInv, TypeOK
  <1>c. Clean
    BY <1>a, <1>b DEF Clean
  <1>1. \A a, b \in LiveAttempts : a = b
    <2> SUFFICES ASSUME NEW a \in LiveAttempts, NEW b \in LiveAttempts, b > a PROVE FALSE
      BY DEF LiveAttempts, Attempts
    <2>1. exec[a].at \in Live /\ exec[b].at \in Live /\ a \in Attempts /\ b \in Attempts
      BY DEF LiveAttempts
    <2>2. exec[b].at = "none"
      BY <1>c, <2>1 DEF SessionInv, CleanInv, AttemptInv
    <2> QED
      BY <2>1, <2>2 DEF Live
  <1>2. CASE LiveAttempts = {}
    BY <1>2, FS_EmptySet
  <1>3. CASE LiveAttempts # {}
    <2>1. PICK a \in LiveAttempts : TRUE
      BY <1>3
    <2>2. LiveAttempts = {a}
      BY <1>1, <2>1
    <2>3. Cardinality(LiveAttempts) = 1
      BY <2>2, FS_Singleton
    <2> QED
      BY <2>3
  <1> QED
    BY <1>2, <1>3

\* The initial states satisfy it.
LEMMA InitInv == Init => SessionInv
  <1> SUFFICES ASSUME Init PROVE SessionInv
    OBVIOUS
  <1> DEFINE e0 == [at |-> "none", status |-> "none", ws |-> FALSE, plan |-> FALSE, steps |-> 0]
  <1>1. e0 \in ExecType /\ e0.at = "none" /\ e0.status = "none"
    BY DEF ExecType, Statuses
  <1>2. exec = [a \in Attempts |-> e0]
    BY DEF Init
  <1>3. log \in LogType /\ log.derived = "none" /\ log.terminal = FALSE
    BY DEF Init, LogType, Statuses
  <1>4. file \in FileType /\ file.status = "none" /\ file.path = FALSE
    BY DEF Init, FileType, Statuses
  <1>5. save = [s \in Saves |-> NoSave] /\ cancels = 0
    BY DEF Init
  <1> HIDE DEF e0
  <1>6. exec \in [Attempts -> ExecType] /\ \A a \in Attempts : exec[a].at = "none" /\ exec[a].status = "none"
    BY <1>1, <1>2
  <1>7. save \in [Saves -> SaveType]
        /\ \A s \in Saves : save[s].at = "idle" /\ save[s].kind = "persist" /\ save[s].status = "none"
    BY <1>5, NoSaveType
  <1>8. TypeOK
    BY <1>3, <1>4, <1>5, <1>6, <1>7 DEF TypeOK
  <1>9. FrameInv
    BY <1>3, <1>6, <1>7 DEF FrameInv, Opened
  <1>10. CleanInv
    BY <1>4, <1>6, <1>7 DEF CleanInv, SaveInv, AttemptInv, FilesOpened, Opened, Live
  <1> QED
    BY <1>8, <1>9, <1>10 DEF SessionInv

-----------------------------------------------------------------------------
(* The shapes of a step.                                                      *)

\* The log gets an event or two, or stays.
LogGoesOn ==
    /\ log' \in LogType
    /\ log'.terminal = FALSE => log.terminal = FALSE
    /\ log'.stepFailed = FALSE => log.stepFailed = FALSE
    /\ log'.terminal = FALSE => log'.derived \in Opened

\* At most, persist calls begin.
SavesGrow ==
    /\ save' \in [Saves -> SaveType]
    /\ \A t \in Saves : save'[t] = save[t] \/ (save'[t].kind = "persist"
                          /\ save'[t].at = "read" /\ save'[t].status = "none")

\* An event goes into the log.
LEMMA EventGoesOn ==
    ASSUME SessionInv, NEW e \in Events, Event(e)
    PROVE  LogGoesOn
  <1>1. log \in LogType /\ (log.terminal = FALSE => log.derived \in Opened)
    BY DEF SessionInv, TypeOK, FrameInv
  <1> QED
    BY <1>1, AfterType, AfterKeeps DEF Event, LogGoesOn

\* Nothing goes into the log.
LEMMA SameLog ==
    ASSUME SessionInv, UNCHANGED log
    PROVE  LogGoesOn
  BY DEF SessionInv, TypeOK, FrameInv, LogGoesOn

\* A persist call begins.
LEMMA PersistGrows ==
    ASSUME SessionInv, NEW a \in Attempts, NEW path \in BOOLEAN, Persist(a, path)
    PROVE  SavesGrow
  <1>1. save \in [Saves -> SaveType]
    BY DEF SessionInv, TypeOK
  <1> QED
    BY <1>1, PersistSet DEF SavesGrow

\* No save begins.
LEMMA SameSaves ==
    ASSUME SessionInv, UNCHANGED save
    PROVE  SavesGrow
  BY DEF SessionInv, TypeOK, SavesGrow

\* A live attempt moves on: what it becomes is all there is to check.
LEMMA AttemptMoves ==
    ASSUME SessionInv, NEW a \in Attempts, NEW e \in ExecType, Exec(a, e),
           exec[a].at \in Live, e.at # "none",
           LogGoesOn, SavesGrow, UNCHANGED <<file, cancels>>,
           Clean' => /\ e.at # "finalizing"
                     /\ e.at \in {"gone", "created"} => e.plan = FALSE
                     /\ e.at # "gone" => e.status \in Opened
    PROVE  SessionInv'
  <1>1. exec \in [Attempts -> ExecType] /\ TypeOK /\ FrameInv /\ CleanInv
    BY DEF SessionInv, TypeOK
  <1>2. /\ exec' \in [Attempts -> ExecType] /\ exec'[a] = e
        /\ \A b \in Attempts \ {a} : exec'[b] = exec[b]
    BY <1>1, ExecSet
  <1>3. TypeOK'
    BY <1>1, <1>2 DEF TypeOK, LogGoesOn, SavesGrow
  <1>4. FrameInv'
    <2>1. 1 \in Attempts
      BY DEF Attempts
    <2>2. exec[1].at # "none"
      BY <1>1 DEF FrameInv, Live
    <2> QED
      BY <1>1, <1>2, <2>1, <2>2 DEF FrameInv, LogGoesOn, SavesGrow
  <1>5. Clean' => Clean
    BY <1>2 DEF Clean, LogGoesOn, Live
  <1>6. ASSUME Clean' PROVE /\ \A s \in Saves : SaveInv(s)'
                            /\ \A b \in Attempts : AttemptInv(b)'
                            /\ FilesOpened'
    <2>1. /\ \A s \in Saves : SaveInv(s)
          /\ \A b \in Attempts : AttemptInv(b)
          /\ FilesOpened
      BY <1>1, <1>5, <1>6 DEF CleanInv
    <2>2. \A s \in Saves : SaveInv(s)'
      BY <2>1 DEF SaveInv, SavesGrow
    <2>3. \A b \in Attempts : b > a => exec[b].at = "none"
      BY <2>1 DEF AttemptInv
    <2>4. ASSUME NEW b \in Attempts PROVE AttemptInv(b)'
      <3>1. CASE b = a
        <4>1. \A c \in Attempts : c > a => exec'[c].at = "none"
          BY <1>2, <2>3 DEF Attempts
        <4> QED
          BY <1>2, <1>6, <3>1, <4>1 DEF AttemptInv
      <3>2. CASE b # a
        <4>1. AttemptInv(b) /\ exec'[b] = exec[b]
          BY <1>2, <2>1, <3>2
        <4>2. ASSUME exec[b].at \in Live \cup {"gone"}, NEW c \in Attempts, c > b
              PROVE  exec'[c].at = "none"
          <5>1. exec[c].at = "none"
            BY <4>1, <4>2 DEF AttemptInv
          <5>2. c # a
            BY <5>1 DEF Live
          <5> QED
            BY <1>2, <5>1, <5>2
        <4> QED
          BY <4>1, <4>2 DEF AttemptInv
      <3> QED
        BY <3>1, <3>2
    <2>5. FilesOpened'
      <3> SUFFICES ASSUME \A b \in Attempts : exec'[b].at # "gone"
                   PROVE  file'.status \in Opened /\ \A s \in Saves : save'[s].status \in Opened
        BY DEF FilesOpened
      <3>1. \A b \in Attempts : exec[b].at # "gone"
        BY <1>2 DEF Live
      <3>2. file.status \in Opened /\ \A s \in Saves : save[s].status \in Opened
        BY <2>1, <3>1 DEF FilesOpened
      <3> QED
        BY <3>2 DEF SavesGrow, Opened
    <2> QED
      BY <2>2, <2>4, <2>5
  <1>7. CleanInv'
    BY <1>6 DEF CleanInv
  <1> QED
    BY <1>3, <1>4, <1>7 DEF SessionInv

\* A new attempt begins, when no other one is live or has ended by itself.
LEMMA AttemptBegins ==
    ASSUME SessionInv, NEW n \in Attempts, NEW e \in {Created, Resumed}, Exec(n, e),
           \A b \in Attempts : b >= n => exec[b].at = "none",
           n = 1 \/ exec[1].at # "none",
           Clean => \A b \in Attempts : exec[b].at \notin Live \cup {"gone"},
           SavesGrow, UNCHANGED <<log, file, cancels>>
    PROVE  SessionInv'
  <1>1. exec \in [Attempts -> ExecType] /\ TypeOK /\ FrameInv /\ CleanInv
    BY DEF SessionInv, TypeOK
  <1>2. /\ e \in ExecType /\ e.at \in Live /\ e.at \in {"created", "running"}
        /\ e.status \in Opened /\ (e.at = "created" => e.plan = FALSE)
    BY NewExec DEF Live, Opened
  <1>3. /\ exec' \in [Attempts -> ExecType] /\ exec'[n] = e
        /\ \A b \in Attempts \ {n} : exec'[b] = exec[b]
    BY <1>1, <1>2, ExecSet
  <1>4. TypeOK'
    BY <1>1, <1>3 DEF TypeOK, SavesGrow
  <1>5. FrameInv'
    <2>1. 1 \in Attempts
      BY DEF Attempts
    <2>2. exec'[1].at # "none"
      BY <1>2, <1>3, <2>1 DEF Live
    <2> QED
      BY <1>1, <2>2 DEF FrameInv, SavesGrow
  <1>6. exec[n].at = "none"
    BY DEF Attempts
  <1>7. Clean' => Clean
    BY <1>3, <1>6 DEF Clean
  <1>8. ASSUME Clean' PROVE /\ \A s \in Saves : SaveInv(s)'
                            /\ \A b \in Attempts : AttemptInv(b)'
                            /\ FilesOpened'
    <2>1. /\ \A s \in Saves : SaveInv(s)
          /\ \A b \in Attempts : AttemptInv(b)
          /\ FilesOpened
          /\ \A b \in Attempts : exec[b].at \notin Live \cup {"gone"}
      BY <1>1, <1>7, <1>8 DEF CleanInv
    <2>2. \A s \in Saves : SaveInv(s)'
      BY <2>1 DEF SaveInv, SavesGrow
    <2>3. ASSUME NEW b \in Attempts PROVE AttemptInv(b)'
      <3>1. CASE b = n
        <4>1. \A c \in Attempts : c > n => exec'[c].at = "none"
          BY <1>3 DEF Attempts
        <4> QED
          BY <1>2, <1>3, <3>1, <4>1 DEF AttemptInv, Live
      <3>2. CASE b # n
        BY <1>3, <2>1, <3>2 DEF AttemptInv
      <3> QED
        BY <3>1, <3>2
    <2>4. file.status \in Opened /\ \A s \in Saves : save[s].status \in Opened
      BY <2>1 DEF FilesOpened
    <2>5. FilesOpened'
      BY <2>4 DEF FilesOpened, SavesGrow, Opened
    <2> QED
      BY <2>2, <2>3, <2>5
  <1>9. CleanInv'
    BY <1>8 DEF CleanInv
  <1> QED
    BY <1>4, <1>5, <1>9 DEF SessionInv

\* A save moves on; the attempts and the log stay.
LEMMA SaveMoves ==
    ASSUME SessionInv, NEW s \in Saves, NEW r \in SaveType, save' = [save EXCEPT ![s] = r],
           UNCHANGED <<exec, log, cancels>>,
           file' \in FileType, file'.is # "whole" => file'.status = "none" /\ file'.path = FALSE,
           r.at = "event" => r.kind = "signal",
           r.kind # "persist" => cancels > 0,
           Clean /\ (\A a \in Attempts : exec[a].at # "gone")
             => r.status \in Opened /\ file'.status \in Opened
    PROVE  SessionInv'
  <1>1. TypeOK /\ FrameInv /\ CleanInv /\ save \in [Saves -> SaveType]
    BY DEF SessionInv, TypeOK
  <1>2. save' \in [Saves -> SaveType] /\ save'[s] = r /\ \A t \in Saves \ {s} : save'[t] = save[t]
    BY <1>1
  <1>3. TypeOK'
    BY <1>1, <1>2 DEF TypeOK
  <1>4. FrameInv'
    BY <1>1, <1>2 DEF FrameInv
  <1>5. Clean' <=> Clean
    BY DEF Clean
  <1>6. ASSUME Clean PROVE /\ \A t \in Saves : SaveInv(t)'
                           /\ \A b \in Attempts : AttemptInv(b)'
                           /\ FilesOpened'
    <2>1. /\ \A t \in Saves : SaveInv(t)
          /\ \A b \in Attempts : AttemptInv(b)
          /\ FilesOpened
      BY <1>1, <1>6 DEF CleanInv
    <2>2. \A t \in Saves : SaveInv(t)'
      BY <1>2, <1>6, <2>1 DEF SaveInv, Clean
    <2>3. \A b \in Attempts : AttemptInv(b)'
      BY <2>1 DEF AttemptInv
    <2>4. FilesOpened'
      BY <1>2, <1>6, <2>1 DEF FilesOpened
    <2> QED
      BY <2>2, <2>3, <2>4
  <1> QED
    BY <1>3, <1>4, <1>5, <1>6 DEF CleanInv, SessionInv

\* The fields of a save in flight.
LEMMA SaveFields ==
    ASSUME NEW r \in SaveType
    PROVE  /\ r.at \in SavePlaces /\ r.kind \in Kinds /\ r.by \in Attempts
           /\ r.path \in BOOLEAN /\ r.seen \in BOOLEAN /\ r.status \in Statuses
  BY DEF SaveType, SavePlaces, Kinds

\* A save that moves on.
LEMMA SaveAt ==
    ASSUME NEW r \in SaveType, NEW at \in SavePlaces
    PROVE  /\ [r EXCEPT !.at = at] \in SaveType /\ [r EXCEPT !.at = at].at = at
           /\ [r EXCEPT !.at = at].kind = r.kind /\ [r EXCEPT !.at = at].status = r.status
  BY DEF SaveType, SavePlaces, Kinds

Seen(r, p) == [r EXCEPT !.at = "read", !.seen = p]
Built(r, status, p) == [r EXCEPT !.at = "open", !.status = status, !.path = p]

\* A cancellation that has checked.
LEMMA SaveSeen ==
    ASSUME NEW r \in SaveType, NEW p \in BOOLEAN
    PROVE  /\ Seen(r, p) \in SaveType /\ Seen(r, p).at = "read"
           /\ Seen(r, p).kind = r.kind /\ Seen(r, p).status = r.status
  BY DEF Seen, SaveType

\* A save that has built its record.
LEMMA SaveBuilt ==
    ASSUME NEW r \in SaveType, NEW status \in Statuses, NEW p \in BOOLEAN
    PROVE  /\ Built(r, status, p) \in SaveType /\ Built(r, status, p).at = "open"
           /\ Built(r, status, p).kind = r.kind /\ Built(r, status, p).status = status
  BY DEF Built, SaveType

-----------------------------------------------------------------------------
(* The steps of a save.                                                       *)

\* What the invariant says of one save, and of the file.
LEMMA SaveFacts ==
    ASSUME SessionInv, NEW s \in Saves
    PROVE  /\ save[s] \in SaveType
           /\ file \in FileType /\ file.path \in BOOLEAN
           /\ file.is # "whole" => file.status = "none" /\ file.path = FALSE
           /\ save[s].at = "event" => save[s].kind = "signal"
           /\ Clean => save[s].kind = "persist"
           /\ save[s].kind # "persist" => cancels > 0
           /\ Clean /\ (\A a \in Attempts : exec[a].at # "gone")
              => save[s].status \in Opened /\ file.status \in Opened
  BY DEF SessionInv, TypeOK, FrameInv, CleanInv, SaveInv, FilesOpened, FileType

\* A signal handler ends, and with it the attempt: cancellations were asked for.
LEMMA HandlerEnds ==
    ASSUME SessionInv, NEW a \in Attempts, NEW e \in ExecType, e.at # "none",
           cancels > 0, UNCHANGED <<file, cancels>>,
           exec' = [exec EXCEPT ![a] = e] \/ UNCHANGED exec, exec[a].at # "none",
           log' = log \/ \E ev \in Events : Event(ev),
           save' \in [Saves -> SaveType],
           \A t \in Saves : save'[t] = save[t] \/ save'[t] = NoSave
    PROVE  SessionInv'
  <1>1. exec \in [Attempts -> ExecType] /\ TypeOK /\ FrameInv
    BY DEF SessionInv, TypeOK
  <1>2. LogGoesOn
    <2>1. CASE log' = log
      BY <2>1, SameLog
    <2>2. CASE \E ev \in Events : Event(ev)
      BY <2>2, EventGoesOn
    <2> QED
      BY <2>1, <2>2
  <1>3. /\ exec' \in [Attempts -> ExecType]
        /\ \A b \in Attempts : exec'[b] = exec[b] \/ (exec'[b] = e /\ b = a)
    BY <1>1
  <1>4. TypeOK'
    BY <1>1, <1>2, <1>3 DEF TypeOK, LogGoesOn
  <1>5. FrameInv'
    <2>1. 1 \in Attempts
      BY DEF Attempts
    <2>2. exec'[1].at # "none"
      BY <1>1, <1>3, <2>1 DEF FrameInv
    <2> QED
      BY <1>1, <1>2, <2>2, NoSaveType DEF FrameInv, LogGoesOn
  <1>6. ~Clean'
    BY DEF Clean
  <1> QED
    BY <1>4, <1>5, <1>6 DEF CleanInv, SessionInv

\* A check leaves the record as it is, but for what it has seen.
LEMMA CancelChecksInv == ASSUME SessionInv, NEW s \in Saves, CancelChecks(s) PROVE SessionInv'
  <1>1. PICK r \in SaveType : save' = [save EXCEPT ![s] = r] /\ r.at # "event"
                              /\ (r = NoSave \/ (r.kind = save[s].kind /\ r.status = save[s].status))
    <2>1. \/ save' = [save EXCEPT ![s] = NoSave]
          \/ save' = [save EXCEPT ![s] = [save[s] EXCEPT !.at = "read"]]
          \/ save' = [save EXCEPT ![s] = Seen(save[s], file.path)]
      BY DEF CancelChecks, Seen
    <2>2. save[s] \in SaveType /\ file.path \in BOOLEAN
      BY SaveFacts
    <2>3. "read" \in SavePlaces /\ "none" \in Statuses
      BY DEF SavePlaces, Statuses
    <2>4. /\ [save[s] EXCEPT !.at = "read"] \in SaveType
          /\ [save[s] EXCEPT !.at = "read"].at = "read"
          /\ [save[s] EXCEPT !.at = "read"].kind = save[s].kind
          /\ [save[s] EXCEPT !.at = "read"].status = save[s].status
      BY <2>2, <2>3, SaveAt
    <2>5. /\ Seen(save[s], file.path) \in SaveType
          /\ Seen(save[s], file.path).at = "read"
          /\ Seen(save[s], file.path).kind = save[s].kind
          /\ Seen(save[s], file.path).status = save[s].status
      BY <2>2, SaveSeen
    <2> QED
      BY <2>1, <2>4, <2>5, NoSaveType
  <1>2. UNCHANGED <<exec, log, file, cancels>>
    BY DEF CancelChecks
  <1> QED
    BY <1>1, <1>2, SaveFacts, SaveMoves, NoSaveType DEF Opened

Kept(s) == save[s].path \/ file.path

\* A save that was read writes what the attempt's status was, or a cancellation.
LEMMA ReadsExistingInv == ASSUME SessionInv, NEW s \in Saves, ReadsExisting(s) PROVE SessionInv'
  <1>0. /\ save[s] \in SaveType /\ save[s].by \in Attempts /\ exec[save[s].by] \in ExecType
        /\ exec[save[s].by].status \in Statuses /\ file.path \in BOOLEAN
        /\ save[s].path \in BOOLEAN
    <2>1. save[s] \in SaveType /\ file.path \in BOOLEAN
      BY SaveFacts
    <2>2. save[s].by \in Attempts /\ save[s].path \in BOOLEAN
      BY <2>1, SaveFields
    <2>3. exec[save[s].by] \in ExecType
      BY <2>2 DEF SessionInv, TypeOK
    <2> QED
      BY <2>1, <2>2, <2>3, ExecFields
  <1>1. CASE save[s].kind = "persist"
    <2>1. /\ save' = [save EXCEPT ![s] = Built(@, exec[save[s].by].status, Kept(s))]
          /\ UNCHANGED <<exec, log, file, cancels>>
      BY <1>1 DEF ReadsExisting, Built, Kept
    <2>2. Kept(s) \in BOOLEAN
      BY <1>0 DEF Kept
    <2>3. (\A a \in Attempts : exec[a].at # "gone") /\ Clean => exec[save[s].by].status \in Opened
      BY <1>0 DEF SessionInv, CleanInv, AttemptInv
    <2>4. PICK r : r = Built(save[s], exec[save[s].by].status, Kept(s))
      OBVIOUS
    <2>5. PICK st \in Statuses : st = exec[save[s].by].status
      BY <1>0
    <2>6. PICK p \in BOOLEAN : p = Kept(s)
      BY <2>2
    <2>7. r \in SaveType /\ r.at = "open" /\ r.kind = "persist" /\ r.status = st
      <3>1. r = Built(save[s], st, p)
        BY <2>4, <2>5, <2>6
      <3>2. PICK q \in SaveType : q = save[s]
        BY <1>0
      <3>3. r = Built(q, st, p) /\ q.kind = "persist"
        BY <1>1, <3>1, <3>2
      <3> QED
        BY <3>3, SaveBuilt
    <2> QED
      BY <2>1, <2>3, <2>4, <2>5, <2>7, SaveFacts, SaveMoves
  <1>2. CASE save[s].kind # "persist" /\ file.is = "whole"
    <2> DEFINE r == Built(save[s], "cancelled", file.path)
    <2>1. save' = [save EXCEPT ![s] = r] /\ UNCHANGED <<exec, log, file, cancels>>
      BY <1>2 DEF ReadsExisting, Built
    <2>2. r \in SaveType /\ r.at = "open" /\ r.kind = save[s].kind
      <3>1. "cancelled" \in Statuses
        BY DEF Statuses, TerminalStatus
      <3> QED
        BY SMTT(30), <1>0, <3>1, SaveBuilt
    <2>3. ~Clean
      BY <1>2, SaveFacts
    <2> HIDE DEF r
    <2> QED
      BY <2>1, <2>2, <2>3, SaveFacts, SaveMoves
  <1>3. CASE save[s].kind # "persist" /\ file.is # "whole"
    <2>1. /\ save' = [save EXCEPT ![s] = NoSave] /\ UNCHANGED <<log, file, cancels>>
          /\ \/ UNCHANGED exec
             \/ /\ exec[save[s].by].at \in Live
                /\ exec' = [exec EXCEPT ![save[s].by] = [exec[save[s].by] EXCEPT !.at = "killed"]]
      BY <1>3 DEF ReadsExisting
    <2>2. CASE UNCHANGED exec
      BY <2>1, <2>2, SaveFacts, SaveMoves, NoSaveType DEF Opened
    <2>3. CASE ~UNCHANGED exec
      <3> DEFINE e == [exec[save[s].by] EXCEPT !.at = "killed"]
      <3>1. e \in ExecType /\ e.at = "killed"
        <4>1. "killed" \in Places
          BY DEF Places
        <4> QED
          BY <1>0, <4>1, ExecAt
      <3>2. exec' = [exec EXCEPT ![save[s].by] = e] /\ exec[save[s].by].at \in Live
        BY <2>1, <2>3
      <3> HIDE DEF e
      <3>3. cancels > 0
        BY <1>3, SaveFacts
      <3>4. save' \in [Saves -> SaveType] /\ \A t \in Saves : save'[t] = save[t] \/ save'[t] = NoSave
        BY <2>1, NoSaveType DEF SessionInv, TypeOK
      <3>5. UNCHANGED <<log, file, cancels>> /\ exec[save[s].by].at # "none"
        BY <2>1, <3>2 DEF Live
      <3> QED
        BY <1>0, <3>1, <3>2, <3>3, <3>4, <3>5, HandlerEnds
    <2> QED
      BY <2>2, <2>3
  <1> QED
    BY <1>1, <1>2, <1>3

\* The truncation of the file.
LEMMA TruncatesInv == ASSUME SessionInv, NEW s \in Saves, Truncates(s) PROVE SessionInv'
  <1>1. /\ file' = [is |-> "empty", status |-> "none", path |-> FALSE]
        /\ save' = [save EXCEPT ![s] = [save[s] EXCEPT !.at = "write"]]
        /\ UNCHANGED <<exec, log, cancels>>
    BY DEF Truncates
  <1>2. /\ file' \in FileType /\ file'.status = "none" /\ file'.path = FALSE
    BY <1>1 DEF FileType, Statuses
  <1>3. PICK r \in SaveType : /\ save' = [save EXCEPT ![s] = r] /\ r.at = "write"
                              /\ r.kind = save[s].kind /\ r.status = save[s].status
    <2>1. "write" \in SavePlaces /\ save[s] \in SaveType
      BY SaveFacts DEF SavePlaces
    <2>2. /\ [save[s] EXCEPT !.at = "write"] \in SaveType
          /\ [save[s] EXCEPT !.at = "write"].at = "write"
          /\ [save[s] EXCEPT !.at = "write"].kind = save[s].kind
          /\ [save[s] EXCEPT !.at = "write"].status = save[s].status
      BY <2>1, SaveAt
    <2> QED
      BY <1>1, <2>2
  <1> QED
    <2>1. Clean /\ (\A a \in Attempts : exec[a].at # "gone") => r.status \in Opened
      BY <1>3, SaveFacts
    <2>2. r.kind # "persist" => cancels > 0
      BY <1>3, SaveFacts
    <2> QED
      BY <1>1, <1>2, <1>3, <2>1, <2>2, SaveMoves DEF Opened

\* The write: what it leaves is its own record, or nothing readable.
LEMMA WritesInv == ASSUME SessionInv, NEW s \in Saves, Writes(s) PROVE SessionInv'
  <1>0. /\ save[s] \in SaveType /\ save[s].status \in Statuses /\ save[s].path \in BOOLEAN
    BY SaveFacts, SaveFields
  <1>1. /\ \/ file' = [is |-> "whole", status |-> save[s].status, path |-> save[s].path]
           \/ file' = [is |-> "torn", status |-> "none", path |-> FALSE]
        /\ \/ save[s].kind = "signal" /\ save' = [save EXCEPT ![s] = [save[s] EXCEPT !.at = "event"]]
           \/ save[s].kind # "signal" /\ save' = [save EXCEPT ![s] = NoSave]
        /\ UNCHANGED <<exec, log, cancels>>
    BY DEF Writes
  <1>2. /\ file' \in FileType
        /\ file'.is # "whole" => file'.status = "none" /\ file'.path = FALSE
        /\ file'.status \in {"none", save[s].status}
    <2>1. CASE file' = [is |-> "whole", status |-> save[s].status, path |-> save[s].path]
      BY <1>0, <2>1 DEF FileType
    <2>2. CASE file' = [is |-> "torn", status |-> "none", path |-> FALSE]
      BY <2>2 DEF FileType, Statuses
    <2> QED
      BY <1>1, <2>1, <2>2
  <1>3. PICK r \in SaveType : /\ save' = [save EXCEPT ![s] = r]
                              /\ r.at = "event" => r.kind = "signal"
                              /\ r.kind # "persist" => r.kind = save[s].kind
                              /\ r.status \in {"none", save[s].status}
    <2>1. "event" \in SavePlaces
      BY DEF SavePlaces
    <2>2. CASE save[s].kind = "signal"
      <3>1. /\ [save[s] EXCEPT !.at = "event"] \in SaveType
            /\ [save[s] EXCEPT !.at = "event"].kind = save[s].kind
            /\ [save[s] EXCEPT !.at = "event"].status = save[s].status
        BY <1>0, <2>1, SaveAt
      <3> QED
        BY <1>1, <2>2, <3>1
    <2>3. CASE save[s].kind # "signal"
      BY <1>1, <2>3, NoSaveType
    <2> QED
      BY <2>2, <2>3
  <1> QED
    BY <1>1, <1>2, <1>3, SaveFacts, SaveMoves DEF Opened

\* A save lost with its process.
LEMMA SaveLostInv == ASSUME SessionInv, NEW s \in Saves, SaveLost(s) PROVE SessionInv'
  <1>1. save' = [save EXCEPT ![s] = NoSave] /\ UNCHANGED <<exec, log, file, cancels>>
    BY DEF SaveLost
  <1> QED
    BY <1>1, NoSaveType, SaveFacts, SaveMoves DEF Opened

\* The handler's last step.
LEMMA SignalExitsInv == ASSUME SessionInv, NEW s \in Saves, SignalExits(s) PROVE SessionInv'
  <1>0. /\ save[s] \in SaveType /\ save[s].by \in Attempts /\ exec[save[s].by] \in ExecType
        /\ cancels > 0 /\ exec[save[s].by].at # "killed"
    <2>1. save[s] \in SaveType /\ cancels > 0
      BY SaveFacts DEF SignalExits
    <2>2. save[s].by \in Attempts
      BY <2>1, SaveFields
    <2> QED
      BY <2>1, <2>2 DEF SessionInv, TypeOK, SignalExits
  <1>1. /\ log' = log \/ Event("task.cancelled")
        /\ UNCHANGED <<file, cancels>>
    BY DEF SignalExits, Event
  <1>2. /\ save' \in [Saves -> SaveType]
        /\ \A t \in Saves : save'[t] = save[t] \/ save'[t] = NoSave
    <2>1. save \in [Saves -> SaveType]
      BY DEF SessionInv, TypeOK
    <2> QED
      BY <2>1, NoSaveType DEF SignalExits
  <1>3. "task.cancelled" \in Events
    BY DEF Events
  <1>4. CASE exec[save[s].by].at \in Live
    <2>1. PICK at \in {"gone", "killed"} :
              exec' = [exec EXCEPT ![save[s].by] = [exec[save[s].by] EXCEPT !.at = at]]
      BY <1>4 DEF SignalExits, Exec
    <2>2. at \in Places
      BY DEF Places
    <2>3. PICK e \in ExecType : exec' = [exec EXCEPT ![save[s].by] = e] /\ e.at # "none"
      <3>1. /\ [exec[save[s].by] EXCEPT !.at = at] \in ExecType
            /\ [exec[save[s].by] EXCEPT !.at = at].at = at
        BY <1>0, <2>2, ExecAt
      <3> QED
        BY <2>1, <3>1
    <2> QED
      BY <1>0, <1>1, <1>2, <1>3, <1>4, <2>3, HandlerEnds DEF Live
  <1>5. CASE exec[save[s].by].at \notin Live
    <2>1. UNCHANGED exec
      <3>1. exec' = [exec EXCEPT ![save[s].by] = [exec[save[s].by] EXCEPT !.at = exec[save[s].by].at]]
        BY <1>5 DEF SignalExits, Exec
      <3>2. [exec[save[s].by] EXCEPT !.at = exec[save[s].by].at] = exec[save[s].by]
        BY <1>0 DEF ExecType
      <3> QED
        BY <3>1, <3>2 DEF SessionInv, TypeOK
    <2>2. TypeOK' /\ FrameInv'
      <3>1. LogGoesOn
        BY <1>1, <1>3, SameLog, EventGoesOn
      <3> QED
        BY <1>1, <1>2, <2>1, <3>1, NoSaveType DEF SessionInv, TypeOK, FrameInv, LogGoesOn
    <2>3. ~Clean'
      BY <1>0, <1>1 DEF Clean
    <2> QED
      BY <2>2, <2>3 DEF CleanInv, SessionInv
  <1> QED
    BY <1>4, <1>5

-----------------------------------------------------------------------------
(* The steps of an attempt, and those of the others.                          *)

\* The record of an attempt of the model.
LEMMA ExecFacts ==
    ASSUME SessionInv, NEW a \in Attempts
    PROVE  exec[a] \in ExecType /\ exec[a].at \in Places /\ exec[a].status \in Statuses
           /\ exec[a].ws \in BOOLEAN
  BY ExecFields DEF SessionInv, TypeOK

\* A new run begins.
LEMMA CreateRunInv == ASSUME SessionInv, CreateRun PROVE SessionInv'
  <1>1. 1 \in Attempts
    BY DEF Attempts
  <1>2. Exec(1, Created) /\ SavesGrow /\ UNCHANGED <<log, file, cancels>>
    BY <1>1, PersistGrows DEF CreateRun, Create, Created
  <1>3. \A b \in Attempts : exec[b].at = "none"
    BY DEF CreateRun, SessionInv, FrameInv
  <1> QED
    BY <1>1, <1>2, <1>3, AttemptBegins DEF Live

\* The workspace of an attempt is there.
LEMMA WorkspaceReadyInv ==
    ASSUME SessionInv, NEW a \in Attempts, WorkspaceReady(a) PROVE SessionInv'
  <1>1. PICK e : e = [exec[a] EXCEPT !.ws = TRUE]
    OBVIOUS
  <1>2. e \in ExecType /\ e.at = "created" /\ e.status = exec[a].status /\ e.plan = exec[a].plan
    BY <1>1, ExecFacts, ExecWorkspace DEF WorkspaceReady
  <1>3. Exec(a, e) /\ Event("task.created") /\ Persist(a, TRUE) /\ UNCHANGED <<file, cancels>>
    BY <1>1 DEF WorkspaceReady
  <1>4. LogGoesOn /\ SavesGrow
    BY <1>3, EventGoesOn, PersistGrows DEF Events
  <1>5. Clean => e.plan = FALSE /\ e.status \in Opened
    BY <1>2 DEF SessionInv, CleanInv, AttemptInv, WorkspaceReady
  <1>6. Clean' => Clean
    <2>1. exec[a].at # "stuck" /\ \A b \in Attempts \ {a} : exec'[b] = exec[b]
      BY <1>2, <1>3, ExecSet DEF WorkspaceReady, SessionInv, TypeOK
    <2> QED
      BY <1>3, <1>4, <2>1 DEF Clean, LogGoesOn
  <1> QED
    BY <1>2, <1>3, <1>4, <1>5, <1>6, AttemptMoves DEF Live, WorkspaceReady

\* The plan starts.
LEMMA PlanStartsInv == ASSUME SessionInv, NEW a \in Attempts, PlanStarts(a) PROVE SessionInv'
  <1>1. PICK e : e = [exec[a] EXCEPT !.at = "running", !.status = "executing", !.plan = TRUE]
    OBVIOUS
  <1>2. exec[a] \in ExecType /\ exec[a].ws \in BOOLEAN /\ exec[a].at \in Live
    BY ExecFacts DEF PlanStarts, Live
  <1>3. e \in ExecType /\ e.at = "running" /\ e.status = "executing" /\ e.plan = TRUE
    <2>1. "running" \in Places /\ "executing" \in Statuses
      BY ExecFacts DEF Places, Live, Statuses, TerminalStatus
    <2> QED
      BY <1>1, <1>2, <2>1, ExecPlans
  <1>4. Exec(a, e) /\ UNCHANGED <<file, cancels>>
    BY <1>1 DEF PlanStarts
  <1>5. LogGoesOn
    BY SameLog DEF PlanStarts
  <1>6. SavesGrow
    BY <1>2, PersistGrows DEF PlanStarts
  <1>7. Clean' => e.status \in Opened
    BY <1>3 DEF Opened
  <1> QED
    BY <1>2, <1>3, <1>4, <1>5, <1>6, <1>7, AttemptMoves DEF Live

\* A step starts.
LEMMA StepStartsInv == ASSUME SessionInv, NEW a \in Attempts, StepStarts(a) PROVE SessionInv'
  <1>1. PICK e : e = [exec[a] EXCEPT !.steps = @ + 1]
    OBVIOUS
  <1>2. exec[a] \in ExecType /\ exec[a].ws \in BOOLEAN /\ exec[a].at \in Live
    BY ExecFacts DEF StepStarts, Live
  <1>3. e \in ExecType /\ e.at = exec[a].at /\ e.status = exec[a].status /\ e.plan = exec[a].plan
    BY <1>1, <1>2, ExecStep DEF StepStarts
  <1>4. Exec(a, e) /\ UNCHANGED <<file, cancels>>
    BY <1>1 DEF StepStarts
  <1>5. LogGoesOn
    <2>1. "step.started" \in Events /\ log \in LogType /\ Event("step.started")
      BY DEF Events, StepStarts, SessionInv, TypeOK
    <2> QED
      BY <2>1, EventGoesOn, AfterKeeps DEF Event
  <1>6. SavesGrow
    BY <1>2, PersistGrows DEF StepStarts
  <1>7. Clean' => e.status \in Opened
    <2>1. \A b \in Attempts : exec'[b].at = "stuck" <=> exec[b].at = "stuck"
      BY <1>2, <1>3, <1>4, ExecSet DEF SessionInv, TypeOK, Live
    <2>2. Clean' => Clean
      BY <1>4, <1>5, <2>1 DEF Clean, LogGoesOn
    <2> QED
      BY <1>2, <1>3, <2>2 DEF SessionInv, CleanInv, AttemptInv, Live
  <1> QED
    BY <1>2, <1>3, <1>4, <1>5, <1>6, <1>7, AttemptMoves DEF Live, StepStarts

\* The plan fails with a step.
LEMMA PlanFailsInv == ASSUME SessionInv, NEW a \in Attempts, PlanFails(a) PROVE SessionInv'
  <1>1. PICK e : e = [exec[a] EXCEPT !.at = "gone", !.status = "failed"]
    OBVIOUS
  <1>2. exec[a] \in ExecType /\ exec[a].ws \in BOOLEAN /\ exec[a].at \in Live
    BY ExecFacts DEF PlanFails, Live
  <1>3. e \in ExecType /\ e.at = "gone" /\ e.status = "failed" /\ e.plan = exec[a].plan
    <2>1. "gone" \in Places /\ "failed" \in Statuses
      BY ExecFacts DEF Places, Live, Statuses, TerminalStatus
    <2>2. e = Moved(exec[a], "gone", "failed")
      BY <1>1 DEF Moved
    <2> QED
      BY <1>2, <2>1, <2>2, ExecMoves
  <1>4. Exec(a, e) /\ UNCHANGED <<file, cancels>>
    BY <1>1 DEF PlanFails
  <1>5. LogGoesOn
    BY SameLog DEF PlanFails
  <1>6. SavesGrow
    BY <1>2, PersistGrows DEF PlanFails
  <1>7. ~Clean'
    BY DEF Clean, PlanFails
  <1> QED
    BY <1>2, <1>3, <1>4, <1>5, <1>6, <1>7, AttemptMoves DEF Live

\* The deadlock exit.
LEMMA DeadlocksInv == ASSUME SessionInv, NEW a \in Attempts, Deadlocks(a) PROVE SessionInv'
  <1>1. PICK e : e = [exec[a] EXCEPT !.at = "stuck", !.status = "failed"]
    OBVIOUS
  <1>2. exec[a] \in ExecType /\ exec[a].ws \in BOOLEAN /\ exec[a].at \in Live
    BY ExecFacts DEF Deadlocks, Live
  <1>3. e \in ExecType /\ e.at = "stuck" /\ e.status = "failed" /\ e.plan = exec[a].plan
    <2>1. "stuck" \in Places /\ "failed" \in Statuses
      BY ExecFacts DEF Places, Live, Statuses, TerminalStatus
    <2>2. e = Moved(exec[a], "stuck", "failed")
      BY <1>1 DEF Moved
    <2> QED
      BY <1>2, <2>1, <2>2, ExecMoves
  <1>4. Exec(a, e) /\ UNCHANGED <<file, cancels>>
    BY <1>1 DEF Deadlocks
  <1>5. LogGoesOn
    BY SameLog DEF Deadlocks
  <1>6. SavesGrow
    BY <1>2, PersistGrows DEF Deadlocks
  <1>7. ~Clean'
    BY <1>3, <1>4, ExecSet DEF Clean, SessionInv, TypeOK
  <1> QED
    BY <1>2, <1>3, <1>4, <1>5, <1>6, <1>7, AttemptMoves DEF Live

\* A review is asked for.
LEMMA GateRequestedInv == ASSUME SessionInv, NEW a \in Attempts, GateRequested(a) PROVE SessionInv'
  <1>1. PICK e : e = [exec[a] EXCEPT !.at = "waiting", !.status = "waiting_human_review", !.steps = @ + 1]
    OBVIOUS
  <1>2. exec[a] \in ExecType /\ exec[a].ws \in BOOLEAN /\ exec[a].at \in Live
    BY ExecFacts DEF GateRequested, Live
  <1>3. e \in ExecType /\ e.at = "waiting" /\ e.status = "waiting_human_review" /\ e.plan = exec[a].plan
    BY <1>1, <1>2, ExecGate DEF GateRequested
  <1>4. Exec(a, e) /\ UNCHANGED <<file, cancels>>
    BY <1>1 DEF GateRequested
  <1>5. LogGoesOn
    <2>1. "human_gate.requested" \in Events /\ log \in LogType /\ Event("human_gate.requested")
      BY DEF Events, GateRequested, SessionInv, TypeOK
    <2> QED
      BY <2>1, EventGoesOn, AfterKeeps DEF Event
  <1>6. SavesGrow
    BY SameSaves DEF GateRequested
  <1>7. Clean' => e.status \in Opened
    BY <1>3 DEF Opened
  <1> QED
    BY <1>2, <1>3, <1>4, <1>5, <1>6, <1>7, AttemptMoves DEF Live

\* A review is given.
LEMMA GateApprovedInv == ASSUME SessionInv, NEW a \in Attempts, GateApproved(a) PROVE SessionInv'
  <1>1. PICK e : e = [exec[a] EXCEPT !.at = "running", !.status = "executing"]
    OBVIOUS
  <1>2. exec[a] \in ExecType /\ exec[a].ws \in BOOLEAN /\ exec[a].at \in Live
    BY ExecFacts DEF GateApproved, Live
  <1>3. e \in ExecType /\ e.at = "running" /\ e.status = "executing" /\ e.plan = exec[a].plan
    <2>1. "running" \in Places /\ "executing" \in Statuses
      BY ExecFacts DEF Places, Live, Statuses, TerminalStatus
    <2>2. e = Moved(exec[a], "running", "executing")
      BY <1>1 DEF Moved
    <2> QED
      BY <1>2, <2>1, <2>2, ExecMoves
  <1>4. Exec(a, e) /\ UNCHANGED <<file, cancels>>
    BY <1>1 DEF GateApproved
  <1>5. LogGoesOn
    <2>1. "human_gate.approved" \in Events /\ log \in LogType /\ Event("human_gate.approved")
      BY DEF Events, GateApproved, SessionInv, TypeOK
    <2> QED
      BY <2>1, EventGoesOn, AfterKeeps DEF Event
  <1>6. SavesGrow
    BY SameSaves DEF GateApproved
  <1>7. Clean' => e.status \in Opened
    BY <1>3 DEF Opened
  <1> QED
    BY <1>2, <1>3, <1>4, <1>5, <1>6, <1>7, AttemptMoves DEF Live

\* A review is refused.
LEMMA GateRejectedInv == ASSUME SessionInv, NEW a \in Attempts, GateRejected(a) PROVE SessionInv'
  <1>1. PICK e : e = [exec[a] EXCEPT !.at = "gone", !.status = "failed"]
    OBVIOUS
  <1>2. exec[a] \in ExecType /\ exec[a].ws \in BOOLEAN /\ exec[a].at \in Live
    BY ExecFacts DEF GateRejected, Live
  <1>3. e \in ExecType /\ e.at = "gone" /\ e.status = "failed" /\ e.plan = exec[a].plan
    <2>1. "gone" \in Places /\ "failed" \in Statuses
      BY ExecFacts DEF Places, Live, Statuses, TerminalStatus
    <2>2. e = Moved(exec[a], "gone", "failed")
      BY <1>1 DEF Moved
    <2> QED
      BY <1>2, <2>1, <2>2, ExecMoves
  <1>4. Exec(a, e) /\ UNCHANGED <<file, cancels>>
    BY <1>1 DEF GateRejected
  <1>5. LogGoesOn /\ (log'.terminal = TRUE)
    <2>1. PICK l : l = After(log, "human_gate.rejected") /\ log' = After(l, "task.failed")
      BY DEF GateRejected
    <2>2. "human_gate.rejected" \in Events /\ "task.failed" \in Events
      BY DEF Events
    <2>3. log \in LogType /\ (log.terminal = FALSE => log.derived \in Opened)
      BY DEF SessionInv, TypeOK, FrameInv
    <2>4. l \in LogType /\ l.terminal = TRUE /\ (l.stepFailed = FALSE => log.stepFailed = FALSE)
      BY <2>1, <2>2, <2>3, AfterType, AfterKeeps
    <2>5. log' \in LogType /\ log'.terminal = TRUE /\ (log'.stepFailed = FALSE => l.stepFailed = FALSE)
      BY <2>1, <2>2, <2>4, AfterType, AfterKeeps
    <2> QED
      BY <2>4, <2>5 DEF LogGoesOn
  <1>6. SavesGrow
    BY <1>2, PersistGrows DEF GateRejected
  <1>7. ~Clean'
    BY <1>5 DEF Clean
  <1> QED
    BY <1>2, <1>3, <1>4, <1>5, <1>6, <1>7, AttemptMoves DEF Live

\* The plan is complete.
LEMMA PlanCompletedInv == ASSUME SessionInv, NEW a \in Attempts, PlanCompleted(a) PROVE SessionInv'
  <1>1. PICK e : e = [exec[a] EXCEPT !.at = "finalizing", !.status = "completed"]
    OBVIOUS
  <1>2. exec[a] \in ExecType /\ exec[a].ws \in BOOLEAN /\ exec[a].at \in Live
    BY ExecFacts DEF PlanCompleted, Live
  <1>3. e \in ExecType /\ e.at = "finalizing" /\ e.status = "completed" /\ e.plan = exec[a].plan
    <2>1. "finalizing" \in Places /\ "completed" \in Statuses
      BY ExecFacts DEF Places, Live, Statuses, TerminalStatus
    <2>2. e = Moved(exec[a], "finalizing", "completed")
      BY <1>1 DEF Moved
    <2> QED
      BY <1>2, <2>1, <2>2, ExecMoves
  <1>4. Exec(a, e) /\ UNCHANGED <<file, cancels>>
    BY <1>1 DEF PlanCompleted
  <1>5. LogGoesOn /\ (log'.terminal = TRUE)
    <2>1. "task.completed" \in Events /\ log \in LogType /\ Event("task.completed")
      BY DEF Events, PlanCompleted, SessionInv, TypeOK
    <2> QED
      BY <2>1, EventGoesOn, AfterKeeps DEF Event
  <1>6. SavesGrow
    BY <1>2, PersistGrows DEF PlanCompleted
  <1>7. ~Clean'
    BY <1>5 DEF Clean
  <1> QED
    BY <1>2, <1>3, <1>4, <1>5, <1>6, <1>7, AttemptMoves DEF Live

\* The delivery is done.
LEMMA FinalizedInv == ASSUME SessionInv, NEW a \in Attempts, Finalized(a) PROVE SessionInv'
  <1>1. PICK e : e = [exec[a] EXCEPT !.at = "gone"]
    OBVIOUS
  <1>2. exec[a] \in ExecType /\ exec[a].ws \in BOOLEAN /\ exec[a].at \in Live
    BY ExecFacts DEF Finalized, Live
  <1>3. e \in ExecType /\ e.at = "gone" /\ e.status = exec[a].status /\ e.plan = exec[a].plan
    <2>1. "gone" \in Places /\ exec[a].status \in Statuses
      BY ExecFacts DEF Places, Live, Statuses, TerminalStatus
    <2> QED
      BY <1>1, <1>2, <2>1, ExecAt
  <1>4. Exec(a, e) /\ UNCHANGED <<file, cancels>>
    BY <1>1 DEF Finalized
  <1>5. LogGoesOn
    BY SameLog DEF Finalized
  <1>6. SavesGrow
    BY <1>2, PersistGrows DEF Finalized
  <1>7. ~Clean'
    <2>1. ~Clean
      BY DEF SessionInv, CleanInv, AttemptInv, Finalized
    <2>2. \A b \in Attempts : exec'[b].at = "stuck" <=> exec[b].at = "stuck"
      BY <1>2, <1>3, <1>4, ExecSet DEF SessionInv, TypeOK, Live
    <2> QED
      BY <1>4, <2>1, <2>2 DEF Clean, Finalized
  <1> QED
    BY <1>2, <1>3, <1>4, <1>5, <1>6, <1>7, AttemptMoves DEF Live

\* The engine throws.
LEMMA EngineFailsInv == ASSUME SessionInv, NEW a \in Attempts, EngineFails(a) PROVE SessionInv'
  <1>1. PICK e : e = [exec[a] EXCEPT !.at = "gone", !.status = "failed"]
    OBVIOUS
  <1>2. exec[a] \in ExecType /\ exec[a].ws \in BOOLEAN /\ exec[a].at \in Live
    BY ExecFacts DEF EngineFails, Live
  <1>3. e \in ExecType /\ e.at = "gone" /\ e.status = "failed" /\ e.plan = exec[a].plan
    <2>1. "gone" \in Places /\ "failed" \in Statuses
      BY ExecFacts DEF Places, Live, Statuses, TerminalStatus
    <2>2. e = Moved(exec[a], "gone", "failed")
      BY <1>1 DEF Moved
    <2> QED
      BY <1>2, <2>1, <2>2, ExecMoves
  <1>4. Exec(a, e) /\ UNCHANGED <<file, cancels>>
    BY <1>1 DEF EngineFails
  <1>5. LogGoesOn /\ (log'.terminal = TRUE)
    <2>1. "task.failed" \in Events /\ log \in LogType /\ Event("task.failed")
      BY DEF Events, EngineFails, SessionInv, TypeOK
    <2> QED
      BY <2>1, EventGoesOn, AfterKeeps DEF Event
  <1>6. SavesGrow
    BY <1>2, PersistGrows DEF EngineFails
  <1>7. ~Clean'
    BY <1>5 DEF Clean
  <1> QED
    BY <1>2, <1>3, <1>4, <1>5, <1>6, <1>7, AttemptMoves DEF Live

\* The process is killed.
LEMMA ProcessKilledInv == ASSUME SessionInv, NEW a \in Attempts, ProcessKilled(a) PROVE SessionInv'
  <1>1. PICK e : e = [exec[a] EXCEPT !.at = "killed"]
    OBVIOUS
  <1>2. exec[a] \in ExecType /\ exec[a].ws \in BOOLEAN /\ exec[a].at \in Live
    BY ExecFacts DEF ProcessKilled, Live
  <1>3. e \in ExecType /\ e.at = "killed" /\ e.status = exec[a].status /\ e.plan = exec[a].plan
    <2>1. "killed" \in Places /\ exec[a].status \in Statuses
      BY ExecFacts DEF Places, Live, Statuses, TerminalStatus
    <2> QED
      BY <1>1, <1>2, <2>1, ExecAt
  <1>4. Exec(a, e) /\ UNCHANGED <<file, cancels>>
    BY <1>1 DEF ProcessKilled
  <1>5. LogGoesOn
    BY SameLog DEF ProcessKilled
  <1>6. SavesGrow
    BY SameSaves DEF ProcessKilled
  <1>7. Clean' => e.status \in Opened
    <2>1. \A b \in Attempts : exec'[b].at = "stuck" <=> exec[b].at = "stuck"
      BY <1>2, <1>3, <1>4, ExecSet DEF SessionInv, TypeOK, Live
    <2>2. Clean' => Clean
      BY <1>4, <1>5, <2>1 DEF Clean, LogGoesOn
    <2> QED
      BY <1>2, <1>3, <2>2 DEF SessionInv, CleanInv, AttemptInv, Live
  <1> QED
    BY <1>2, <1>3, <1>4, <1>5, <1>6, <1>7, AttemptMoves DEF Live

\* A step fails and the run goes on.
LEMMA StepFailsInv == ASSUME SessionInv, NEW a \in Attempts, StepFails(a) PROVE SessionInv'
  <1>1. "step.failed" \in Events /\ log \in LogType /\ Event("step.failed")
        /\ UNCHANGED <<exec, file, save, cancels>>
    BY DEF Events, StepFails, SessionInv, TypeOK
  <1>2. LogGoesOn /\ log'.stepFailed = TRUE
    BY <1>1, EventGoesOn, AfterKeeps DEF Event
  <1>3. TypeOK' /\ FrameInv'
    BY <1>1, <1>2 DEF SessionInv, TypeOK, FrameInv, LogGoesOn
  <1>4. ~Clean'
    BY <1>2 DEF Clean
  <1> QED
    BY <1>3, <1>4 DEF CleanInv, SessionInv

\* The run fails before its plan: without a workspace, its log says nothing.
LEMMA IntakeFailsInv == ASSUME SessionInv, NEW a \in Attempts, IntakeFails(a) PROVE SessionInv'
  <1>1. PICK e : e = [exec[a] EXCEPT !.at = "gone", !.status = "failed"]
    OBVIOUS
  <1>2. exec[a] \in ExecType /\ exec[a].ws \in BOOLEAN /\ exec[a].at = "created"
    BY ExecFacts DEF IntakeFails
  <1>3. e \in ExecType /\ e.at = "gone" /\ e.plan = exec[a].plan
    <2>1. "gone" \in Places /\ "failed" \in Statuses
      BY DEF Places, Statuses, TerminalStatus
    <2>2. e = Moved(exec[a], "gone", "failed")
      BY <1>1 DEF Moved
    <2> QED
      BY <1>2, <2>1, <2>2, ExecMoves
  <1>4. Exec(a, e) /\ UNCHANGED <<file, cancels>>
    BY <1>1 DEF IntakeFails
  <1>5. LogGoesOn
    <2>1. log' = log \/ Event("task.failed")
      BY DEF IntakeFails, Event
    <2> QED
      BY <2>1, SameLog, EventGoesOn DEF Events
  <1>6. SavesGrow
    BY <1>2, PersistGrows DEF IntakeFails
  <1>7. Clean' => e.plan = FALSE
    <2>1. \A b \in Attempts : exec'[b].at = "stuck" <=> exec[b].at = "stuck"
      BY <1>2, <1>3, <1>4, ExecSet DEF SessionInv, TypeOK
    <2>2. Clean' => Clean
      BY <1>4, <1>5, <2>1 DEF Clean, LogGoesOn
    <2> QED
      BY <1>2, <1>3, <2>2 DEF SessionInv, CleanInv, AttemptInv
  <1> QED
    BY <1>2, <1>3, <1>4, <1>5, <1>6, <1>7, AttemptMoves DEF Live

\* Beginning a cancellation counts it.
LEMMA CancelBegins ==
    ASSUME SessionInv, NEW s \in Saves, NEW kind \in {"cancel", "signal"}, NEW a \in Attempts,
           Begin(s, kind, a, FALSE, "check"), cancels < MaxCancels, cancels' = cancels + 1,
           UNCHANGED <<exec, log, file>>
    PROVE  SessionInv'
  <1>1. /\ save' \in [Saves -> SaveType]
        /\ save'[s].at = "check" /\ save'[s].status = "none"
        /\ \A t \in Saves \ {s} : save'[t] = save[t]
    <2>1. save \in [Saves -> SaveType] /\ "check" \in SavePlaces /\ kind \in Kinds
      BY DEF SessionInv, TypeOK, SavePlaces, Kinds
    <2> QED
      BY <2>1, BeginSet
  <1>2. cancels' \in 0..MaxCancels /\ cancels' > 0
    BY DEF SessionInv, TypeOK
  <1>3. TypeOK'
    BY <1>1, <1>2 DEF SessionInv, TypeOK
  <1>4. FrameInv'
    BY <1>1, <1>2 DEF SessionInv, FrameInv
  <1>5. ~Clean'
    BY <1>2 DEF Clean
  <1> QED
    BY <1>3, <1>4, <1>5 DEF CleanInv, SessionInv

\* The cancel command.
LEMMA CancelCommandInv == ASSUME SessionInv, CancelCommand PROVE SessionInv'
  <1>1. PICK s \in Saves : Begin(s, "cancel", 1, FALSE, "check")
    BY DEF CancelCommand
  <1>2. 1 \in Attempts /\ exec[1].at # "none"
    BY DEF Attempts, CancelCommand
  <1>3. "cancel" \in {"cancel", "signal"}
    OBVIOUS
  <1> QED
    BY <1>1, <1>2, <1>3, CancelBegins DEF CancelCommand

\* The signal.
LEMMA SignalInv == ASSUME SessionInv, NEW a \in Attempts, Signal(a) PROVE SessionInv'
  <1>1. PICK s \in Saves : Begin(s, "signal", a, FALSE, "check")
    BY DEF Signal
  <1> QED
    BY <1>1, CancelBegins DEF Signal

\* Nothing follows the latest attempt, and when it does not live and did not end by
\* itself, a clean run has no executor.
LEMMA AfterLatest ==
    ASSUME SessionInv, NEW a \in Attempts, Latest(a), a < MaxAttempts
    PROVE  /\ a + 1 \in Attempts /\ \A b \in Attempts : b >= a + 1 => exec[b].at = "none"
           /\ exec[1].at # "none"
           /\ Clean /\ exec[a].at \notin Live \cup {"gone"}
              => \A b \in Attempts : exec[b].at \notin Live \cup {"gone"}
  <1>1. /\ a + 1 \in Attempts /\ 1 \in Attempts
        /\ exec[a].at # "none" /\ \A b \in Attempts : b > a => exec[b].at = "none"
    BY DEF Latest, Attempts
  <1>2. \A b \in Attempts : b >= a + 1 => exec[b].at = "none"
    BY <1>1 DEF Attempts
  <1>3. exec[1].at # "none"
    BY <1>1 DEF SessionInv, FrameInv
  <1>4. ASSUME Clean, exec[a].at \notin Live \cup {"gone"}, NEW b \in Attempts,
               exec[b].at \in Live \cup {"gone"}
        PROVE  FALSE
    <2>1. exec[b].at # "none" /\ b # a
      BY <1>4 DEF Live
    <2>2. b < a
      BY <1>1, <2>1 DEF Attempts
    <2>3. exec[a].at = "none"
      BY <1>4, <2>2 DEF SessionInv, CleanInv, AttemptInv
    <2> QED
      BY <1>1, <2>3
  <1> QED
    BY <1>1, <1>2, <1>3, <1>4

\* In a clean run, no reader is told that the run failed or was cancelled.
LEMMA CleanNotResumable ==
    ASSUME SessionInv, NEW a \in Attempts, Latest(a), exec[a].plan, Clean, MayResume(a, FALSE)
    PROVE  FALSE
  <1>1. exec[a].at # "gone"
    BY DEF SessionInv, CleanInv, AttemptInv
  <1>2. \A b \in Attempts : exec[b].at # "gone"
    <2> SUFFICES ASSUME NEW b \in Attempts, exec[b].at = "gone" PROVE FALSE
      OBVIOUS
    <2>1. \A c \in Attempts : c > b => exec[c].at = "none"
      BY DEF SessionInv, CleanInv, AttemptInv
    <2>2. exec[a].at # "none" /\ \A c \in Attempts : c > a => exec[c].at = "none"
      BY DEF Latest, Attempts
    <2> QED
      BY <1>1, <2>1, <2>2 DEF Attempts
  <1>3. file.status \in Opened /\ exec[a].status \in Opened
    BY <1>1, <1>2 DEF SessionInv, CleanInv, FilesOpened, AttemptInv
  <1>4. log.terminal = FALSE /\ log.stepFailed = FALSE /\ log.derived \in Opened
    BY DEF SessionInv, FrameInv, Clean
  <1>5. Reported \in Opened
    BY <1>3, <1>4 DEF Reported, Derived, Opened
  <1> QED
    BY <1>3, <1>5 DEF MayResume, Opened

\* A resumed attempt begins.
LEMMA ResumesInv ==
    ASSUME SessionInv, NEW a \in Attempts, Latest(a), a < MaxAttempts, Resumes(a),
           Clean => exec[a].at \notin Live \cup {"gone"}
    PROVE  SessionInv'
  <1>1. /\ a + 1 \in Attempts /\ \A b \in Attempts : b >= a + 1 => exec[b].at = "none"
        /\ exec[1].at # "none"
        /\ Clean => \A b \in Attempts : exec[b].at \notin Live \cup {"gone"}
    BY AfterLatest
  <1>2. Exec(a + 1, Resumed) /\ SavesGrow /\ UNCHANGED <<log, file, cancels>>
    BY <1>1, PersistGrows DEF Resumes, Resumed
  <1> QED
    BY <1>1, <1>2, AttemptBegins

\* The resume command: never in a clean run.
LEMMA ResumeCommandInv ==
    ASSUME SessionInv, NEW a \in Attempts, ResumeCommand(a) PROVE SessionInv'
  <1>1. Latest(a) /\ a < MaxAttempts /\ Resumes(a) /\ exec[a].plan /\ MayResume(a, FALSE)
    BY DEF ResumeCommand
  <1> QED
    BY <1>1, CleanNotResumable, ResumesInv

\* A restarted pod resumes what was killed.
LEMMA PodResumesInv == ASSUME SessionInv, NEW a \in Attempts, PodResumes(a) PROVE SessionInv'
  <1>1. Latest(a) /\ a < MaxAttempts /\ Resumes(a) /\ exec[a].at \notin Live \cup {"gone"}
    BY DEF PodResumes, Live
  <1> QED
    BY <1>1, ResumesInv

\* A restarted pod starts afresh.
LEMMA PodStartsAfreshInv ==
    ASSUME SessionInv, NEW a \in Attempts, PodStartsAfresh(a) PROVE SessionInv'
  <1>1. Latest(a) /\ a < MaxAttempts /\ exec[a].at \notin Live \cup {"gone"}
    BY DEF PodStartsAfresh, Live
  <1>2. /\ a + 1 \in Attempts /\ \A b \in Attempts : b >= a + 1 => exec[b].at = "none"
        /\ exec[1].at # "none"
        /\ Clean => \A b \in Attempts : exec[b].at \notin Live \cup {"gone"}
    BY <1>1, AfterLatest
  <1>3. Exec(a + 1, Created) /\ SavesGrow /\ UNCHANGED <<log, file, cancels>>
    BY <1>2, PersistGrows DEF PodStartsAfresh, Create, Created
  <1> QED
    BY <1>2, <1>3, AttemptBegins

-----------------------------------------------------------------------------
(* The theorems.                                                              *)

\* The invariant is inductive.
LEMMA NextInv == SessionInv /\ [Next]_vars => SessionInv'
  <1> SUFFICES ASSUME SessionInv, [Next]_vars PROVE SessionInv'
    OBVIOUS
  <1>1. CASE CreateRun
    BY <1>1, CreateRunInv
  <1>2. CASE CancelCommand
    BY <1>2, CancelCommandInv
  <1>3. CASE SaveStep
    BY <1>3, CancelChecksInv, ReadsExistingInv, TruncatesInv, WritesInv, SaveLostInv,
       SignalExitsInv DEF SaveStep
  <1>4. ASSUME NEW a \in Attempts,
               \/ WorkspaceReady(a) \/ IntakeFails(a) \/ PlanStarts(a) \/ StepStarts(a)
               \/ StepFails(a) \/ PlanFails(a) \/ Deadlocks(a)
               \/ GateRequested(a) \/ GateApproved(a) \/ GateRejected(a)
        PROVE  SessionInv'
    BY <1>4, WorkspaceReadyInv, IntakeFailsInv, PlanStartsInv, StepStartsInv, StepFailsInv,
       PlanFailsInv, DeadlocksInv, GateRequestedInv, GateApprovedInv, GateRejectedInv
  <1>5. ASSUME NEW a \in Attempts,
               \/ PlanCompleted(a) \/ Finalized(a) \/ EngineFails(a)
               \/ ProcessKilled(a) \/ Signal(a)
               \/ ResumeCommand(a) \/ PodResumes(a) \/ PodStartsAfresh(a)
        PROVE  SessionInv'
    BY <1>5, PlanCompletedInv, FinalizedInv, EngineFailsInv, ProcessKilledInv, SignalInv,
       ResumeCommandInv, PodResumesInv, PodStartsAfreshInv
  <1>6. CASE UNCHANGED vars
    <2>1. UNCHANGED <<exec, log, file, save, cancels>>
      BY <1>6 DEF vars
    <2>2. TypeOK' /\ FrameInv'
      BY <2>1 DEF SessionInv, TypeOK, FrameInv
    <2>3. CleanInv'
      BY <2>1 DEF SessionInv, CleanInv, Clean, SaveInv, AttemptInv, FilesOpened
    <2> QED
      BY <2>2, <2>3 DEF SessionInv
  <1> QED
    BY <1>1, <1>2, <1>3, <1>4, <1>5, <1>6 DEF Next

\* The invariant holds of every behaviour.
LEMMA SpecInv == Spec => []SessionInv
  BY InitInv, NextInv, PTL DEF Spec

\* Every reachable state of the session, its saves and its executions is well typed, and
\* a file that is not whole says nothing (39-80, 201-256).
THEOREM SessionTypeCorrect == Spec => []TypeOK
  <1>1. SessionInv => TypeOK
    BY DEF SessionInv
  <1> QED
    BY <1>1, SpecInv, PTL

\* For any number of attempts, saves in flight and steps: as long as no step has failed,
\* the task has not ended, nobody asked for a cancellation and no execution deadlocked,
\* what a torn, stale or lost session file says never admits a second executor.
THEOREM ExecutorIsAlone == Spec => []OneExecutor
  BY InvImpliesOne, SpecInv, PTL

-----------------------------------------------------------------------------
(* The end of a run.  An execution that is over and had a workspace left      *)
(* something in the log that no later event takes back.                       *)

Over(e) == e.at \in {"gone", "finalizing"} /\ e.ws = TRUE
Known(l) == l.terminal = TRUE \/ l.stepFailed = TRUE
EndInv ==
    /\ log.terminal = TRUE => log.derived \in TerminalStatus
    /\ \A a \in Attempts : Over(exec[a]) => Known(log)

\* An event adds to what the log knows, and an end is an end.
LEMMA AfterEnds ==
    ASSUME NEW l \in LogType, NEW e \in Events,
           l.terminal = TRUE => l.derived \in TerminalStatus
    PROVE  /\ After(l, e) \in LogType
           /\ After(l, e).terminal = TRUE => After(l, e).derived \in TerminalStatus
           /\ Known(l) => Known(After(l, e))
           /\ e \in {"task.completed", "task.cancelled", "task.failed", "human_gate.rejected"}
              => Known(After(l, e))
  <1>1. After(l, e) \in LogType
    BY AfterType
  <1> QED
    BY <1>1 DEF After, Ended, Goes, LogType, Statuses, TerminalStatus, Events, Known

\* The log after a step: what was known still is.
LogKnows ==
    /\ log'.terminal = TRUE => log'.derived \in TerminalStatus
    /\ Known(log) => Known(log')

\* A step that leaves the log alone, or appends an event to it.
LEMMA LogStep ==
    ASSUME TypeOK, EndInv, log' = log \/ \E e \in Events : log' = After(log, e)
    PROVE  LogKnows
  BY AfterEnds DEF LogKnows, EndInv, TypeOK

\* One attempt moves: it is over only when the log knows.
LEMMA EndMoves ==
    ASSUME TypeOK, EndInv, LogKnows, NEW a \in Attempts, NEW e \in ExecType, Exec(a, e),
           Over(e) => Over(exec[a]) \/ Known(log')
    PROVE  EndInv'
  <1>1. exec'[a] = e /\ \A b \in Attempts \ {a} : exec'[b] = exec[b]
    BY ExecSet DEF TypeOK
  <1>2. \A b \in Attempts : Over(exec'[b]) => Over(exec[b]) \/ Known(log')
    BY <1>1
  <1> QED
    BY <1>2 DEF EndInv, LogKnows

\* No attempt moves.
LEMMA EndStays ==
    ASSUME EndInv, LogKnows, UNCHANGED exec
    PROVE  EndInv'
  BY DEF EndInv, LogKnows

\* A new attempt is not over.
LEMMA NewNotOver == ~Over(Created) /\ ~Over(Resumed)
  BY DEF Over, Created, Resumed

\* A step of an execution in progress that does not end it.
LEMMA GoingOnEnd ==
    ASSUME TypeOK, EndInv, NEW a \in Attempts,
           \/ WorkspaceReady(a) \/ PlanStarts(a) \/ StepStarts(a) \/ StepFails(a)
           \/ Deadlocks(a) \/ GateRequested(a) \/ GateApproved(a) \/ ProcessKilled(a)
    PROVE  EndInv'
  <1>1. exec[a] \in ExecType
    BY DEF TypeOK
  <1>2. LogKnows
    BY LogStep DEF WorkspaceReady, PlanStarts, StepStarts, StepFails, Deadlocks,
       GateRequested, GateApproved, ProcessKilled, Event, Events
  <1>3. CASE StepFails(a)
    BY <1>2, <1>3, EndStays DEF StepFails
  <1>4. CASE WorkspaceReady(a)
    <2>1. exec[a].at = "created" /\ Exec(a, [exec[a] EXCEPT !.ws = TRUE])
      BY <1>4 DEF WorkspaceReady
    <2> QED
      BY <1>1, <1>2, <2>1, ExecWorkspace, EndMoves DEF Over
  <1>5. CASE PlanStarts(a)
    <2>1. PICK n : n = [exec[a] EXCEPT !.at = "running", !.status = "executing", !.plan = TRUE]
      OBVIOUS
    <2>2. n \in ExecType /\ n.at = "running" /\ Exec(a, n)
      BY <1>1, <1>5, <2>1, ExecPlans DEF PlanStarts, Places, Live, Statuses
    <2> QED
      BY <1>2, <2>2, EndMoves DEF Over
  <1>6. CASE StepStarts(a)
    <2>1. PICK n : n = [exec[a] EXCEPT !.steps = @ + 1]
      OBVIOUS
    <2>2. n \in ExecType /\ n.at = "running" /\ Exec(a, n)
      BY <1>1, <1>6, <2>1, ExecStep DEF StepStarts
    <2> QED
      BY <1>2, <2>2, EndMoves DEF Over
  <1>7. CASE GateRequested(a)
    <2>1. PICK n : n = [exec[a] EXCEPT !.at = "waiting", !.status = "waiting_human_review",
                                       !.steps = @ + 1]
      OBVIOUS
    <2>2. n \in ExecType /\ n.at = "waiting" /\ Exec(a, n)
      BY <1>1, <1>7, <2>1, ExecGate DEF GateRequested
    <2> QED
      BY <1>2, <2>2, EndMoves DEF Over
  <1>8. ASSUME NEW at \in {"stuck", "running"}, NEW status \in Statuses,
               Exec(a, [exec[a] EXCEPT !.at = at, !.status = status])
        PROVE  EndInv'
    <2>1. PICK n : n = Moved(exec[a], at, status)
      OBVIOUS
    <2>2. n \in ExecType /\ n.at = at
      <3>1. at \in Places
        BY DEF Places, Live
      <3> QED
        BY <1>1, <2>1, <3>1, ExecMoves
    <2>3. Exec(a, n)
      BY <1>8, <2>1 DEF Moved
    <2> QED
      BY <1>2, <2>2, <2>3, EndMoves DEF Over
  <1>9. CASE Deadlocks(a) \/ GateApproved(a)
    BY <1>8, <1>9 DEF Deadlocks, GateApproved, Statuses, TerminalStatus
  <1>10. CASE ProcessKilled(a)
    <2>1. PICK n : n = [exec[a] EXCEPT !.at = "killed"]
      OBVIOUS
    <2>2. n \in ExecType /\ n.at = "killed" /\ Exec(a, n)
      BY <1>1, <1>10, <2>1, ExecAt DEF ProcessKilled, Places
    <2> QED
      BY <1>2, <2>2, EndMoves DEF Over
  <1> QED
    BY <1>3, <1>4, <1>5, <1>6, <1>7, <1>9, <1>10

\* An execution that ends by itself: the log gets to know, or knows already.
LEMMA EndingEnd ==
    ASSUME TypeOK, EndInv, NEW a \in Attempts,
           \/ IntakeFails(a) \/ PlanFails(a) \/ GateRejected(a) \/ PlanCompleted(a)
           \/ Finalized(a) \/ EngineFails(a)
    PROVE  EndInv'
  <1>1. exec[a] \in ExecType /\ log \in LogType
    BY DEF TypeOK
  <1>2. LogKnows
    <2>1. CASE GateRejected(a)
      <3>1. PICK l : l = After(log, "human_gate.rejected") /\ log' = After(l, "task.failed")
        BY <2>1 DEF GateRejected
      <3>2. l \in LogType /\ Known(l) /\ (l.terminal = TRUE => l.derived \in TerminalStatus)
        BY <1>1, <3>1, AfterEnds DEF EndInv, Events
      <3> QED
        BY <3>1, <3>2, AfterEnds DEF LogKnows, Events
    <2>2. CASE ~GateRejected(a)
      <3>1. log' = log \/ \E e \in Events : log' = After(log, e)
        BY <2>2 DEF IntakeFails, PlanFails, PlanCompleted, Finalized, EngineFails, Event, Events
      <3> QED
        BY <3>1, LogStep
    <2> QED
      BY <2>1, <2>2
  <1>3. ASSUME NEW at \in {"gone", "finalizing"}, NEW status \in Statuses,
               Exec(a, [exec[a] EXCEPT !.at = at, !.status = status]),
               exec[a].ws = TRUE => Known(log')
        PROVE  EndInv'
    <2>1. PICK n : n = Moved(exec[a], at, status)
      OBVIOUS
    <2>2. n \in ExecType /\ n.ws = exec[a].ws
      BY <1>1, <2>1, ExecMoves DEF Places, Live, Moved, ExecType
    <2>3. Exec(a, n)
      BY <1>3, <2>1 DEF Moved
    <2> QED
      BY <1>2, <1>3, <2>2, <2>3, EndMoves DEF Over
  <1>4. "failed" \in Statuses /\ "completed" \in Statuses
    BY DEF Statuses, TerminalStatus
  <1>5. ASSUME NEW e \in {"task.completed", "task.failed"}, log' = After(log, e)
        PROVE  Known(log')
    BY <1>1, <1>5, AfterEnds DEF EndInv, Events
  <1>6. CASE IntakeFails(a)
    BY <1>3, <1>4, <1>5, <1>6 DEF IntakeFails
  <1>7. CASE PlanFails(a)
    <2>1. log.stepFailed = TRUE /\ log' = log
      BY <1>1, <1>7 DEF PlanFails, LogType
    <2> QED
      BY <1>3, <1>4, <1>7, <2>1 DEF PlanFails, Known
  <1>8. CASE GateRejected(a)
    <2>1. Known(log')
      <3>1. PICK l : l = After(log, "human_gate.rejected") /\ log' = After(l, "task.failed")
        BY <1>8 DEF GateRejected
      <3>2. l \in LogType /\ (l.terminal = TRUE => l.derived \in TerminalStatus)
        BY <1>1, <3>1, AfterEnds DEF EndInv, Events
      <3> QED
        BY <3>1, <3>2, AfterEnds DEF Events
    <2> QED
      BY <1>3, <1>4, <1>8, <2>1 DEF GateRejected
  <1>9. CASE PlanCompleted(a) \/ EngineFails(a)
    BY <1>3, <1>4, <1>5, <1>9 DEF PlanCompleted, EngineFails, Event
  <1>10. CASE Finalized(a)
    <2>1. PICK n : n = [exec[a] EXCEPT !.at = "gone"]
      OBVIOUS
    <2>2. n \in ExecType /\ n.ws = exec[a].ws
      BY <1>1, <2>1, ExecAt DEF Places, ExecType
    <2>3. exec[a].at = "finalizing" /\ Exec(a, n)
      BY <1>10, <2>1 DEF Finalized
    <2> QED
      BY <1>2, <2>2, <2>3, EndMoves DEF Over
  <1> QED
    BY <1>6, <1>7, <1>8, <1>9, <1>10

\* The saves end an execution in the signal handler only: it has written its event by
\* then, or knows no workspace and leaves the run as it is (cli signal handler).
LEMMA SaveEnd ==
    ASSUME TypeOK, EndInv, NEW s \in Saves,
           \/ CancelChecks(s) \/ ReadsExisting(s) \/ Truncates(s) \/ Writes(s)
           \/ SaveLost(s) \/ SignalExits(s)
    PROVE  EndInv'
  <1>1. PICK a \in Attempts : a = save[s].by
    BY DEF TypeOK, SaveType
  <1>2. exec[a] \in ExecType /\ log \in LogType
    BY DEF TypeOK
  <1>3. LogKnows
    BY LogStep DEF CancelChecks, ReadsExisting, Truncates, Writes, SaveLost, SignalExits, Events
  <1>4. ASSUME NEW at \in Places, Exec(a, [exec[a] EXCEPT !.at = at]),
               at = "killed" \/ at = exec[a].at \/ Known(log')
        PROVE  EndInv'
    <2>1. PICK n : n = [exec[a] EXCEPT !.at = at]
      OBVIOUS
    <2>2. n \in ExecType /\ n.at = at /\ n.ws = exec[a].ws
      BY <1>2, <2>1, ExecAt DEF Places, ExecType
    <2> QED
      BY <1>3, <1>4, <2>1, <2>2, EndMoves DEF Over
  <1>5. CASE CancelChecks(s) \/ Truncates(s) \/ Writes(s) \/ SaveLost(s)
    BY <1>3, <1>5, EndStays DEF CancelChecks, Truncates, Writes, SaveLost
  <1>6. CASE ReadsExisting(s)
    <2>1. UNCHANGED exec \/ Exec(a, [exec[a] EXCEPT !.at = "killed"])
      BY <1>1, <1>6 DEF ReadsExisting, Exec
    <2>2. "killed" \in Places
      BY DEF Places
    <2> QED
      BY <1>3, <1>4, <2>1, <2>2, EndStays
  <1>7. CASE SignalExits(s)
    <2>1. PICK at : /\ at = IF save[s].seen /\ exec[a].at \in Live THEN "gone"
                            ELSE IF exec[a].at \in Live THEN "killed" ELSE exec[a].at
      OBVIOUS
    <2>2. Exec(a, [exec[a] EXCEPT !.at = at])
      BY <1>1, <1>7, <2>1 DEF SignalExits, Exec
    <2>3. at \in Places
      BY <1>2, <2>1, ExecFields DEF Places
    <2>4. save[s].seen => Known(log')
      BY <1>2, <1>7, AfterEnds DEF SignalExits, EndInv, Events
    <2> QED
      BY <1>4, <2>1, <2>2, <2>3, <2>4
  <1> QED
    BY <1>5, <1>6, <1>7

\* Every step keeps it.
LEMMA NextEnd == SessionInv /\ EndInv /\ [Next]_vars => EndInv'
  <1> SUFFICES ASSUME SessionInv, EndInv, [Next]_vars PROVE EndInv'
    OBVIOUS
  <1>1. TypeOK /\ 1 \in Attempts
    BY DEF SessionInv, Attempts
  <1>2. CASE SaveStep
    BY <1>1, <1>2, SaveEnd DEF SaveStep
  <1>3. CASE UNCHANGED <<exec, log>>
    <2>1. LogKnows
      BY <1>1, <1>3, LogStep
    <2> QED
      BY <1>3, <2>1, EndStays
  <1>4. ASSUME NEW a \in Attempts, Exec(a, Created) \/ Exec(a, Resumed), UNCHANGED log
        PROVE  EndInv'
    <2>1. LogKnows
      BY <1>1, <1>4, LogStep
    <2> QED
      BY <1>1, <1>4, <2>1, NewExec, NewNotOver, EndMoves
  <1>5. CASE CreateRun
    BY <1>1, <1>4, <1>5 DEF CreateRun, Create, Created
  <1>6. ASSUME NEW a \in Attempts, PodStartsAfresh(a) \/ ResumeCommand(a) \/ PodResumes(a)
        PROVE  EndInv'
    <2>1. a + 1 \in Attempts
      <3>1. a < MaxAttempts /\ a \in 1..MaxAttempts
        BY <1>6 DEF PodStartsAfresh, ResumeCommand, PodResumes, Attempts
      <3> QED
        BY <3>1 DEF Attempts
    <2> QED
      BY <1>4, <1>6, <2>1 DEF PodStartsAfresh, ResumeCommand, PodResumes, Create, Resumes, Created,
         Resumed
  <1>7. CASE CancelCommand \/ (\E a \in Attempts : Signal(a)) \/ UNCHANGED vars
    BY <1>3, <1>7 DEF CancelCommand, Signal, vars
  <1> QED
    BY <1>1, <1>2, <1>5, <1>6, <1>7, GoingOnEnd, EndingEnd DEF Next

\* For any number of attempts, of saves in flight and of steps: once the last execution
\* of a run has ended by itself or by a signal, and its saves have landed in whatever
\* order, nobody is told that the run goes on.
THEOREM EndIsReported == Spec => []EndIsKnown
  <1>1. Init => EndInv
    BY DEF Init, EndInv, Over
  <1>2. TypeOK /\ EndInv => EndIsKnown
    <2> SUFFICES ASSUME TypeOK, EndInv, NEW a \in Attempts, exec[a].at = "gone", exec[a].ws,
                        file.is = "whole", file.path
                 PROVE  Reported \in TerminalStatus
      BY DEF EndIsKnown
    <2>1. Known(log)
      BY DEF EndInv, Over, TypeOK, ExecType
    <2>2. Derived(log) \in TerminalStatus
      BY <2>1 DEF Derived, Known, EndInv, TypeOK, LogType, TerminalStatus
    <2> QED
      BY <2>2 DEF Reported, TerminalStatus
  <1> QED
    BY <1>1, <1>2, SpecInv, SessionTypeCorrect, NextEnd, PTL DEF Spec

-----------------------------------------------------------------------------
(* SnapshotController.                                                        *)

USE BoundsAssumption, PollsAssumption

\* Setting a field of a run's record keeps it a record of its type.
LEMMA HostFields ==
  ASSUME NEW h \in HostType, NEW c \in {"none", "bound", "released"},
         NEW p \in {"none", "running", "ended"}, NEW v \in BOOLEAN, NEW n \in Nat
  PROVE  /\ [h EXCEPT !.claim = c] \in HostType
         /\ [h EXCEPT !.pod = p] \in HostType
         /\ [h EXCEPT !.volume = v] \in HostType
         /\ [h EXCEPT !.pod = p, !.lost = n] \in HostType
  BY DEF HostType

\* The same of the run itself.
LEMMA RunFields ==
  ASSUME NEW h \in RunType, NEW n \in Nat, NEW b \in BOOLEAN,
         NEW s \in {"none", "executing", "terminal"}
  PROVE  /\ [h EXCEPT !.work = n, !.session = s] \in RunType
         /\ [h EXCEPT !.failed = b, !.session = s] \in RunType
         /\ [h EXCEPT !.over = b, !.session = s] \in RunType
         /\ [h EXCEPT !.session = s] \in RunType
  BY DEF RunType

\* The same of its exporter job.
LEMMA JobFields ==
  ASSUME NEW h \in JobType, NEW n \in Nat, NEW b \in BOOLEAN, NEW s \in JobStates,
         NEW a \in ExportPlaces
  PROVE  /\ [h EXCEPT !.state = s, !.at = a] \in JobType
         /\ [h EXCEPT !.at = a, !.copy = n] \in JobType
         /\ [h EXCEPT !.at = a] \in JobType
         /\ [h EXCEPT !.pod = b] \in JobType
  BY DEF JobType

\* The same of what S3 holds of it.
LEMMA StoreFields ==
  ASSUME NEW h \in StoreType, NEW n \in Nat,
         NEW s \in {"none", "snapshot_completed", "cleanup_completed"}
  PROVE  /\ [h EXCEPT !.archive = n] \in StoreType
         /\ [h EXCEPT !.manifest = n] \in StoreType
         /\ [h EXCEPT !.record = s] \in StoreType
  BY DEF StoreType

\* The fields of a run's records have their types.
LEMMA FieldTypes ==
  ASSUME SnapshotTypeOK, NEW r \in Runs
  PROVE  /\ host[r] \in HostType /\ run[r] \in RunType
         /\ job[r] \in JobType /\ store[r] \in StoreType
         /\ job[r].copy \in Nat /\ run[r].work \in Nat /\ host[r].lost \in Nat
         /\ host[r].pod \in {"none", "running", "ended"}
         /\ job[r].state \in JobStates
<1>1. /\ host[r] \in HostType /\ run[r] \in RunType
      /\ job[r] \in JobType /\ store[r] \in StoreType
  BY DEF SnapshotTypeOK
<1> QED
  BY <1>1 DEF HostType, RunType, JobType

\* The steps of exportRun preserve the types.
LEMMA TypeExport ==
  ASSUME SnapshotTypeOK, NEW r \in Runs, ExportRun(r) \/ ExportFails(r) \/ JobExpires(r)
  PROVE  SnapshotTypeOK'
<1>1. CASE ExportRefused(r) \/ ExportFails(r)
  <2>1. [job[r] EXCEPT !.state = "failed", !.at = "out"] \in JobType
    BY ZenonT(30), FieldTypes, JobFields DEF JobStates, ExportPlaces
  <2> QED
    BY <1>1, <2>1 DEF ExportRefused, ExportFails, JobFails, SnapshotTypeOK, poll, Fault
<1>2. CASE ExportAccepted(r)
  <2>1. [job[r] EXCEPT !.at = "copying"] \in JobType
    BY FieldTypes, JobFields DEF ExportPlaces
  <2> QED
    BY SMTT(30), <1>2, <2>1 DEF ExportAccepted, SnapshotTypeOK, poll
<1>3. CASE CopyWorkspace(r)
  <2>1. job[r] \in JobType /\ run[r].work + 1 \in Nat /\ "archive" \in ExportPlaces
    BY FieldTypes DEF ExportPlaces
  <2>2. [job[r] EXCEPT !.at = "archive", !.copy = run[r].work + 1] \in JobType
    BY <2>1 DEF JobType
  <2> QED
    BY <1>3, <2>2 DEF CopyWorkspace, SnapshotTypeOK, poll
<1>4. CASE PutArchive(r)
  <2>1. [store[r] EXCEPT !.archive = job[r].copy] \in StoreType
    BY FieldTypes, StoreFields
  <2>2. [job[r] EXCEPT !.at = "manifest"] \in JobType
    BY FieldTypes, JobFields DEF ExportPlaces
  <2> QED
    BY <1>4, <2>1, <2>2 DEF PutArchive, SnapshotTypeOK, poll
<1>5. CASE PutManifest(r)
  <2>1. [store[r] EXCEPT !.manifest = job[r].copy] \in StoreType
    BY FieldTypes, StoreFields
  <2>2. [job[r] EXCEPT !.at = "record"] \in JobType
    BY FieldTypes, JobFields DEF ExportPlaces
  <2> QED
    BY <1>5, <2>1, <2>2 DEF PutManifest, SnapshotTypeOK, poll
<1>6. CASE PutRecord(r)
  <2>1. [store[r] EXCEPT !.record = "snapshot_completed"] \in StoreType
    BY FieldTypes, StoreFields
  <2>2. [job[r] EXCEPT !.at = "session"] \in JobType
    BY ZenonT(30), FieldTypes, JobFields DEF ExportPlaces
  <2> QED
    BY <1>6, <2>1, <2>2 DEF PutRecord, SnapshotTypeOK, poll
<1>7. CASE ExportDone(r)
  <2>1. [run[r] EXCEPT !.session = "terminal"] \in RunType
    BY ZenonT(30), FieldTypes, RunFields
  <2>2. [job[r] EXCEPT !.state = "succeeded", !.at = "out"] \in JobType
    BY FieldTypes, JobFields DEF JobStates, ExportPlaces
  <2> QED
    BY <1>7, <2>1, <2>2 DEF ExportDone, SnapshotTypeOK, poll
<1>8. CASE JobExpires(r)
  <2>1. NoJob \in JobType
    BY DEF NoJob, JobType, JobStates, ExportPlaces
  <2> QED
    BY <1>8, <2>1 DEF JobExpires, SnapshotTypeOK, poll
<1> QED
  BY <1>1, <1>2, <1>3, <1>4, <1>5, <1>6, <1>7, <1>8 DEF ExportRun

\* So do the steps of a run and of its host.
LEMMA TypeWorld ==
  ASSUME SnapshotTypeOK, NEW r \in Runs, Hosting(r) \/ Running(r)
  PROVE  SnapshotTypeOK'
<1>1. ASSUME NEW h \in HostType, Host(r, h),
             UNCHANGED <<run, job, store, pc, poll, faults>>
      PROVE  SnapshotTypeOK'
  BY <1>1 DEF SnapshotTypeOK, Host, poll
<1>2. ASSUME NEW x \in RunType, run' = [run EXCEPT ![r] = x],
             UNCHANGED <<host, job, store, pc, poll, faults>>
      PROVE  SnapshotTypeOK'
  BY <1>2 DEF SnapshotTypeOK, poll
<1>3. CASE Hosting(r)
  <2>1. PICK h \in HostType : Host(r, h)
    <3>1. /\ [host[r] EXCEPT !.volume = TRUE] \in HostType
          /\ [host[r] EXCEPT !.claim = "bound"] \in HostType
      BY ZenonT(30), FieldTypes, HostFields
    <3>2. ASSUME NEW p \in {"none", "running", "ended"}
          PROVE  /\ [host[r] EXCEPT !.pod = p] \in HostType
                 /\ [host[r] EXCEPT !.pod = p, !.lost = host[r].lost + 1] \in HostType
      <4>1. host[r] \in HostType /\ host[r].lost + 1 \in Nat
        BY FieldTypes
      <4> QED
        BY <4>1, HostFields
    <3>3. CASE PodLost(r)
      <4>1. PICK p \in {"none", "ended"} :
               Host(r, [host[r] EXCEPT !.pod = p, !.lost = @ + 1])
        BY <3>3 DEF PodLost
      <4> QED
        BY <3>2, <4>1
    <3>4. CASE CreateVolume(r) \/ CreateClaim(r)
      BY <3>1, <3>4 DEF CreateVolume, CreateClaim
    <3>5. CASE PodStarts(r) \/ PodEnds(r) \/ HostTornDown(r)
      BY <3>2, <3>5 DEF PodStarts, PodEnds, HostTornDown
    <3> QED
      BY SMTT(30), <1>3, <3>3, <3>4, <3>5 DEF Hosting
  <2> QED
    BY <1>1, <1>3, <2>1 DEF Hosting, CreateVolume, CreateClaim, PodStarts, PodLost,
                            PodEnds, HostTornDown
<1>4. CASE Running(r)
  <2>1. run[r] \in RunType /\ run[r].work + 1 \in Nat
    BY FieldTypes
  <2>2. /\ [run[r] EXCEPT !.work = run[r].work + 1, !.session = "executing"] \in RunType
        /\ [run[r] EXCEPT !.failed = TRUE, !.session = "executing"] \in RunType
        /\ [run[r] EXCEPT !.over = TRUE, !.session = "terminal"] \in RunType
    BY <2>1 DEF RunType
  <2>3. CASE Works(r)
    BY <1>2, <2>2, <2>3 DEF Works
  <2>4. CASE RunStepFails(r)
    BY <1>2, <2>2, <2>4 DEF RunStepFails
  <2>5. CASE Finishes(r)
    BY <1>2, <2>2, <2>5 DEF Finishes
  <2> QED
    BY <1>4, <2>3, <2>4, <2>5 DEF Running
<1> QED
  BY <1>3, <1>4

\* So does every call of reconcileOnce.
LEMMA TypePoll ==
  ASSUME SnapshotTypeOK, Reconcile \/ MarkFails \/ PollFails
  PROVE  SnapshotTypeOK'
<1> USE DEF PollPlaces, cluster, poll, At, Continues
<1>1. CASE ListJobs
  <2>1. [r \in Runs |-> job[r].state] \in [Runs -> JobStates]
    BY FieldTypes
  <2> QED
    BY <1>1, <2>1 DEF ListJobs, SnapshotTypeOK
<1>2. CASE ListClaims
  BY <1>2 DEF ListClaims, SnapshotTypeOK
<1>3. ASSUME NEW r \in Runs, ListPods(r) PROVE SnapshotTypeOK'
  <2>1. TerminalPods(r) \in BOOLEAN
    BY DEF TerminalPods
  <2> QED
    BY <1>3, <2>1 DEF ListPods, AfterListPods, SnapshotTypeOK
<1>4. CASE CreateExporter
  <2>1. [state |-> "active", pod |-> TRUE, at |-> "reading", copy |-> 0] \in JobType
    BY DEF JobType, JobStates, ExportPlaces
  <2> QED
    BY <1>4, <2>1 DEF CreateExporter, SnapshotTypeOK
<1>5. CASE ReleaseHost
  <2>1. visited \in Runs /\ [host[visited] EXCEPT !.claim = "released"] \in HostType
    BY <1>5, FieldTypes, HostFields DEF ReleaseHost, SnapshotTypeOK
  <2> QED
    BY SMTT(30), <1>5, <2>1 DEF ReleaseHost, SnapshotTypeOK
<1>6. CASE DeletePods
  <2>1. visited \in Runs
    BY <1>6 DEF DeletePods, SnapshotTypeOK
  <2>2. PICK p \in {"none", "running", "ended"} :
           p = IF host[visited].pod = "ended" THEN "none" ELSE host[visited].pod
    BY <2>1, FieldTypes
  <2>3. /\ [host[visited] EXCEPT !.pod = p] \in HostType
        /\ [job[visited] EXCEPT !.pod = FALSE] \in JobType
    BY ZenonT(30), <2>1, FieldTypes, HostFields DEF JobType
  <2> QED
    BY <1>6, <2>1, <2>2, <2>3 DEF DeletePods, SnapshotTypeOK
<1>7. CASE PvcExists \/ PvcAbsent
  BY <1>7 DEF PvcExists, PvcAbsent, SnapshotTypeOK
<1>8. CASE DeletePvc
  <2>1. visited \in Runs /\ [host[visited] EXCEPT !.volume = FALSE] \in HostType
    BY <1>8, FieldTypes, HostFields DEF DeletePvc, SnapshotTypeOK
  <2> QED
    BY <1>8, <2>1 DEF DeletePvc, SnapshotTypeOK
<1>9. CASE MarkCleanup
  <2>1. visited \in Runs
        /\ [store[visited] EXCEPT !.record = "cleanup_completed"] \in StoreType
    BY <1>9, FieldTypes, StoreFields DEF MarkCleanup, SnapshotTypeOK
  <2> QED
    BY <1>9, <2>1 DEF MarkCleanup, SnapshotTypeOK
<1>10. CASE PollDone \/ MarkFails \/ PollFails
  BY <1>10 DEF PollDone, MarkFails, PollFails, Fault, SnapshotTypeOK
<1> QED
  BY <1>1, <1>2, <1>3, <1>4, <1>5, <1>6, <1>7, <1>8, <1>9, <1>10 DEF Reconcile

\* The types hold at the start.
LEMMA TypeInit == SnapshotInit => SnapshotTypeOK
<1> SUFFICES ASSUME SnapshotInit PROVE SnapshotTypeOK
  OBVIOUS
<1>1. NoJob \in JobType /\ "none" \in JobStates
  BY DEF NoJob, JobType, JobStates, ExportPlaces
<1>2. /\ [claim |-> "none", pod |-> "none", volume |-> FALSE, lost |-> 0] \in HostType
      /\ [work |-> 0, failed |-> FALSE, over |-> FALSE, session |-> "none"] \in RunType
      /\ [archive |-> 0, manifest |-> 0, record |-> "none"] \in StoreType
  BY DEF HostType, RunType, StoreType
<1> QED
  BY <1>1, <1>2 DEF SnapshotInit, SnapshotTypeOK, PollPlaces

\* Every step preserves the types.
LEMMA TypeNext == SnapshotTypeOK /\ [SnapshotNext]_snapshotVars => SnapshotTypeOK'
<1> SUFFICES ASSUME SnapshotTypeOK, [SnapshotNext]_snapshotVars PROVE SnapshotTypeOK'
  OBVIOUS
<1>1. CASE SnapshotNext
  BY <1>1, TypeExport, TypeWorld, TypePoll DEF SnapshotNext
<1>2. CASE UNCHANGED snapshotVars
  BY <1>2 DEF SnapshotTypeOK, snapshotVars, cluster, poll
<1> QED
  BY <1>1, <1>2

\* Every reachable state has the types of SnapshotTypeOK, and every call of a poll is for
\* a run of the cluster (reconcileOnce).
THEOREM SnapshotTypeCorrect == SnapshotSpec => []SnapshotTypeOK
  BY TypeInit, TypeNext, PTL DEF SnapshotSpec

-----------------------------------------------------------------------------
(* What the host, the run, the job and the store of one run have to do with *)
(* each other.                                                             *)

\* What exportRun has uploaded when it stands where it stands.
JobInv(r) ==
    /\ job[r].state = "succeeded" => Exported(r)
    /\ job[r].at \in {"archive", "manifest", "record"} => job[r].copy # 0
    /\ job[r].at \in {"manifest", "record"} => store[r].archive = job[r].copy
    /\ job[r].at = "record" => store[r].manifest = job[r].copy
    /\ job[r].at = "session" => Exported(r)
    /\ job[r].at # "out" => job[r].state = "active"
    /\ job[r].at \notin {"reading", "out"} \/ job[r].state = "succeeded"
          => run[r].session # "none"
    /\ job[r].state # "none" \/ store[r].record # "none" => host[r].claim # "none"

\* A released host was exported, and its run over unless it lost a pod; a host
\* whose run has begun keeps a pod, unless it lost it.
HostInv(r) ==
    /\ host[r].claim = "released" => Exported(r) /\ job[r].state # "active"
    /\ host[r].claim = "released" /\ host[r].lost = 0 => run[r].over
    /\ host[r].claim = "none" => host[r].pod = "none" /\ run[r].session = "none"
    /\ host[r].claim = "bound" /\ host[r].lost = 0 /\ run[r].session # "none"
          => host[r].pod # "none"
    /\ host[r].pod = "ended" /\ host[r].lost = 0 => run[r].over
    /\ store[r].record = "cleanup_completed" => ~host[r].volume

\* What a poll has listed is old, but still true of a run whose exporter succeeded.
ListedInv(r) ==
    /\ pc # "idle" /\ jobs[r] = "succeeded" =>
          /\ Exported(r) /\ job[r].state # "active" /\ run[r].session # "none"
    /\ pc # "idle" /\ jobs[r] # "none" => host[r].claim # "none"
    /\ pc \notin {"idle", "claims"} /\ jobs[r] # "none" /\ r \notin claims
          => host[r].claim = "released"
    /\ pc \notin {"idle", "claims"} /\ r \in todo /\ jobs[r] = "none"
          => host[r].claim = "bound"

\* The next call of the poll, for the run it visits.
CallInv ==
    /\ pc = "create" => jobs[visited] = "none" /\ host[visited].claim = "bound"
    /\ pc \in {"release", "pods", "volume", "delete", "mark"}
          => jobs[visited] = "succeeded"
    /\ pc = "release" /\ host[visited].lost = 0 => run[visited].over
    /\ pc = "pods" => host[visited].claim = "released"
    /\ pc = "mark" => ~host[visited].volume

SnapshotInv == SnapshotTypeOK /\ CallInv
               /\ \A r \in Runs : JobInv(r) /\ HostInv(r) /\ ListedInv(r)

\* A step of one run keeps what holds of the others.
LEMMA OtherRuns ==
  ASSUME SnapshotInv, NEW r \in Runs, UNCHANGED <<pc, poll>>,
         \A q \in Runs \ {r} : /\ host'[q] = host[q] /\ run'[q] = run[q]
                               /\ job'[q] = job[q] /\ store'[q] = store[q],
         JobInv(r)', HostInv(r)', ListedInv(r)',
         visited = r => CallInv'
  PROVE  /\ CallInv'
         /\ \A q \in Runs : JobInv(q)' /\ HostInv(q)' /\ ListedInv(q)'
<1>1. ASSUME NEW q \in Runs, q # r PROVE JobInv(q)' /\ HostInv(q)' /\ ListedInv(q)'
  BY <1>1 DEF SnapshotInv, JobInv, HostInv, ListedInv, Exported, poll
<1>2. ASSUME visited # r PROVE CallInv'
  BY <1>2 DEF SnapshotInv, SnapshotTypeOK, PollPlaces, CallInv, poll
<1> QED
  BY <1>1, <1>2

\* The invariant of one run, and a run that a call is for.
LEMMA OfRun ==
  ASSUME SnapshotInv, NEW r \in Runs
  PROVE  /\ SnapshotTypeOK /\ CallInv /\ JobInv(r) /\ HostInv(r) /\ ListedInv(r)
  BY DEF SnapshotInv

\* The steps of exportRun keep the invariant: each relies on the one before.
LEMMA InvExport ==
  ASSUME SnapshotInv, NEW r \in Runs, ExportRun(r) \/ ExportFails(r)
  PROVE  /\ CallInv'
         /\ \A q \in Runs : JobInv(q)' /\ HostInv(q)' /\ ListedInv(q)'
<1>1. CASE ExportRefused(r)
  <2>1. /\ job'[r] = [job[r] EXCEPT !.state = "failed", !.at = "out"]
        /\ \A q \in Runs \ {r} : job'[q] = job[q]
        /\ UNCHANGED <<host, run, store, pc, poll>>
    BY <1>1, OfRun DEF ExportRefused, SnapshotTypeOK, JobFails
  <2>2. /\ job'[r].state = "failed"
        /\ job'[r].pod = job[r].pod
        /\ job'[r].at = "out"
        /\ job'[r].copy = job[r].copy
    BY <2>1, OfRun, FieldTypes DEF JobType
  <2>3. job[r].state = "active"
    BY <1>1 DEF ExportRefused, Exporting
  <2>4. JobInv(r)' /\ HostInv(r)'
    BY <2>1, <2>2, <2>3, OfRun DEF JobInv, HostInv, Exported
  <2>5. ListedInv(r)'
    BY <2>1, <2>2, <2>3, OfRun DEF JobInv, HostInv, ListedInv, Exported, poll
  <2>6. ASSUME visited = r PROVE CallInv'
    BY <2>1, <2>2, <2>3, <2>6, OfRun DEF HostInv, ListedInv, CallInv, poll
  <2> QED
    BY <2>1, <2>4, <2>5, <2>6, OtherRuns
<1>2. CASE ExportFails(r)
  <2>1. /\ job'[r] = [job[r] EXCEPT !.state = "failed", !.at = "out"]
        /\ \A q \in Runs \ {r} : job'[q] = job[q]
        /\ UNCHANGED <<host, run, store, pc, poll>>
    BY <1>2, OfRun DEF ExportFails, SnapshotTypeOK, JobFails
  <2>2. /\ job'[r].state = "failed"
        /\ job'[r].pod = job[r].pod
        /\ job'[r].at = "out"
        /\ job'[r].copy = job[r].copy
    BY <2>1, OfRun, FieldTypes DEF JobType
  <2>3. job[r].state = "active"
    BY <1>2 DEF ExportFails
  <2>4. JobInv(r)' /\ HostInv(r)'
    BY <2>1, <2>2, <2>3, OfRun DEF JobInv, HostInv, Exported
  <2>5. ListedInv(r)'
    BY <2>1, <2>2, <2>3, OfRun DEF JobInv, HostInv, ListedInv, Exported, poll
  <2>6. ASSUME visited = r PROVE CallInv'
    BY <2>1, <2>2, <2>3, <2>6, OfRun DEF HostInv, ListedInv, CallInv, poll
  <2> QED
    BY <2>1, <2>4, <2>5, <2>6, OtherRuns
<1>3. CASE ExportAccepted(r)
  <2>1. /\ job'[r] = [job[r] EXCEPT !.at = "copying"]
        /\ \A q \in Runs \ {r} : job'[q] = job[q]
        /\ UNCHANGED <<host, run, store, pc, poll>>
    BY <1>3, OfRun DEF ExportAccepted, SnapshotTypeOK
  <2>2. /\ job'[r].state = job[r].state
        /\ job'[r].pod = job[r].pod
        /\ job'[r].at = "copying"
        /\ job'[r].copy = job[r].copy
    BY <2>1, OfRun, FieldTypes DEF JobType
  <2>3. job[r].state = "active" /\ run[r].session # "none"
    BY <1>3 DEF ExportAccepted, Exporting, ReadAsTerminal
  <2>4. JobInv(r)' /\ HostInv(r)'
    BY <2>1, <2>2, <2>3, OfRun DEF JobInv, HostInv, Exported
  <2>5. ListedInv(r)'
    BY <2>1, <2>2, <2>3, OfRun DEF JobInv, HostInv, ListedInv, Exported, poll
  <2>6. ASSUME visited = r PROVE CallInv'
    BY <2>1, <2>2, <2>3, <2>6, OfRun DEF HostInv, ListedInv, CallInv, poll
  <2> QED
    BY <2>1, <2>4, <2>5, <2>6, OtherRuns
<1>4. CASE CopyWorkspace(r)
  <2>1. /\ job'[r] = [job[r] EXCEPT !.at = "archive", !.copy = run[r].work + 1]
        /\ \A q \in Runs \ {r} : job'[q] = job[q]
        /\ UNCHANGED <<host, run, store, pc, poll>>
    BY <1>4, OfRun DEF CopyWorkspace, SnapshotTypeOK
  <2>2. /\ job'[r].state = job[r].state
        /\ job'[r].pod = job[r].pod
        /\ job'[r].at = "archive"
        /\ job'[r].copy = run[r].work + 1
    BY <2>1, OfRun, FieldTypes DEF JobType
  <2>3. job[r].state = "active" /\ job[r].at = "copying" /\ run[r].work + 1 # 0
    BY <1>4, OfRun, FieldTypes DEF CopyWorkspace, Exporting
  <2>4. JobInv(r)' /\ HostInv(r)'
    BY <2>1, <2>2, <2>3, OfRun DEF JobInv, HostInv, Exported
  <2>5. ListedInv(r)'
    BY <2>1, <2>2, <2>3, OfRun DEF JobInv, HostInv, ListedInv, Exported, poll
  <2>6. ASSUME visited = r PROVE CallInv'
    BY <2>1, <2>2, <2>3, <2>6, OfRun DEF HostInv, ListedInv, CallInv, poll
  <2> QED
    BY <2>1, <2>4, <2>5, <2>6, OtherRuns
<1>5. CASE PutArchive(r)
  <2>1. /\ store'[r] = [store[r] EXCEPT !.archive = job[r].copy]
        /\ \A q \in Runs \ {r} : store'[q] = store[q]
        /\ job'[r] = [job[r] EXCEPT !.at = "manifest"]
        /\ \A q \in Runs \ {r} : job'[q] = job[q]
        /\ UNCHANGED <<host, run, pc, poll>>
    BY <1>5, OfRun DEF PutArchive, SnapshotTypeOK
  <2>2. /\ store'[r].archive = job[r].copy
        /\ store'[r].manifest = store[r].manifest
        /\ store'[r].record = store[r].record
        /\ job'[r].state = job[r].state
        /\ job'[r].pod = job[r].pod
        /\ job'[r].at = "manifest"
        /\ job'[r].copy = job[r].copy
    BY <2>1, OfRun, FieldTypes DEF StoreType, JobType
  <2>3. job[r].state = "active" /\ job[r].at = "archive"
    BY <1>5 DEF PutArchive, Exporting
  <2>4. JobInv(r)' /\ HostInv(r)'
    BY <2>1, <2>2, <2>3, OfRun DEF JobInv, HostInv, Exported
  <2>5. ListedInv(r)'
    BY <2>1, <2>2, <2>3, OfRun DEF JobInv, HostInv, ListedInv, Exported, poll
  <2>6. ASSUME visited = r PROVE CallInv'
    BY <2>1, <2>2, <2>3, <2>6, OfRun DEF HostInv, ListedInv, CallInv, poll
  <2> QED
    BY <2>1, <2>4, <2>5, <2>6, OtherRuns
<1>6. CASE PutManifest(r)
  <2>1. /\ store'[r] = [store[r] EXCEPT !.manifest = job[r].copy]
        /\ \A q \in Runs \ {r} : store'[q] = store[q]
        /\ job'[r] = [job[r] EXCEPT !.at = "record"]
        /\ \A q \in Runs \ {r} : job'[q] = job[q]
        /\ UNCHANGED <<host, run, pc, poll>>
    BY <1>6, OfRun DEF PutManifest, SnapshotTypeOK
  <2>2. /\ store'[r].archive = store[r].archive
        /\ store'[r].manifest = job[r].copy
        /\ store'[r].record = store[r].record
        /\ job'[r].state = job[r].state
        /\ job'[r].pod = job[r].pod
        /\ job'[r].at = "record"
        /\ job'[r].copy = job[r].copy
    BY <2>1, OfRun, FieldTypes DEF StoreType, JobType
  <2>3. job[r].state = "active" /\ job[r].at = "manifest"
    BY <1>6 DEF PutManifest, Exporting
  <2>4. JobInv(r)' /\ HostInv(r)'
    BY <2>1, <2>2, <2>3, OfRun DEF JobInv, HostInv, Exported
  <2>5. ListedInv(r)'
    BY <2>1, <2>2, <2>3, OfRun DEF JobInv, HostInv, ListedInv, Exported, poll
  <2>6. ASSUME visited = r PROVE CallInv'
    BY <2>1, <2>2, <2>3, <2>6, OfRun DEF HostInv, ListedInv, CallInv, poll
  <2> QED
    BY <2>1, <2>4, <2>5, <2>6, OtherRuns
<1>7. CASE PutRecord(r)
  <2>1. /\ store'[r] = [store[r] EXCEPT !.record = "snapshot_completed"]
        /\ \A q \in Runs \ {r} : store'[q] = store[q]
        /\ job'[r] = [job[r] EXCEPT !.at = "session"]
        /\ \A q \in Runs \ {r} : job'[q] = job[q]
        /\ UNCHANGED <<host, run, pc, poll>>
    BY <1>7, OfRun DEF PutRecord, SnapshotTypeOK
  <2>2. /\ store'[r].archive = store[r].archive
        /\ store'[r].manifest = store[r].manifest
        /\ store'[r].record = "snapshot_completed"
        /\ job'[r].state = job[r].state
        /\ job'[r].pod = job[r].pod
        /\ job'[r].at = "session"
        /\ job'[r].copy = job[r].copy
    BY <2>1, OfRun, FieldTypes DEF StoreType, JobType
  <2>3. job[r].state = "active" /\ job[r].at = "record"
    BY <1>7 DEF PutRecord, Exporting
  <2>4. JobInv(r)' /\ HostInv(r)'
    BY <2>1, <2>2, <2>3, OfRun DEF JobInv, HostInv, Exported
  <2>5. ListedInv(r)'
    BY <2>1, <2>2, <2>3, OfRun DEF JobInv, HostInv, ListedInv, Exported, poll
  <2>6. ASSUME visited = r PROVE CallInv'
    BY <2>1, <2>2, <2>3, <2>6, OfRun DEF HostInv, ListedInv, CallInv, poll
  <2> QED
    BY <2>1, <2>4, <2>5, <2>6, OtherRuns
<1>8. CASE ExportDone(r)
  <2>1. /\ run'[r] = [run[r] EXCEPT !.session = "terminal"]
        /\ \A q \in Runs \ {r} : run'[q] = run[q]
        /\ job'[r] = [job[r] EXCEPT !.state = "succeeded", !.at = "out"]
        /\ \A q \in Runs \ {r} : job'[q] = job[q]
        /\ UNCHANGED <<host, store, pc, poll>>
    BY <1>8, OfRun DEF ExportDone, SnapshotTypeOK
  <2>2. /\ run'[r].work = run[r].work
        /\ run'[r].failed = run[r].failed
        /\ run'[r].over = run[r].over
        /\ run'[r].session = "terminal"
        /\ job'[r].state = "succeeded"
        /\ job'[r].pod = job[r].pod
        /\ job'[r].at = "out"
        /\ job'[r].copy = job[r].copy
    BY <2>1, OfRun, FieldTypes DEF RunType, JobType
  <2>3. job[r].state = "active" /\ job[r].at = "session"
    BY <1>8 DEF ExportDone, Exporting
  <2>4. JobInv(r)' /\ HostInv(r)'
    BY <2>1, <2>2, <2>3, OfRun DEF JobInv, HostInv, Exported
  <2>5. ListedInv(r)'
    BY <2>1, <2>2, <2>3, OfRun DEF JobInv, HostInv, ListedInv, Exported, poll
  <2>6. ASSUME visited = r PROVE CallInv'
    BY <2>1, <2>2, <2>3, <2>6, OfRun DEF HostInv, ListedInv, CallInv, poll
  <2> QED
    BY <2>1, <2>4, <2>5, <2>6, OtherRuns
<1> QED
  BY <1>1, <1>2, <1>3, <1>4, <1>5, <1>6, <1>7, <1>8 DEF ExportRun

\* So do the steps of a run and of its host.
LEMMA InvWorld ==
  ASSUME SnapshotInv, NEW r \in Runs, Hosting(r) \/ Running(r)
  PROVE  /\ CallInv'
         /\ \A q \in Runs : JobInv(q)' /\ HostInv(q)' /\ ListedInv(q)'
<1>1. CASE CreateVolume(r)
  <2>1. /\ host'[r] = [host[r] EXCEPT !.volume = TRUE]
        /\ \A q \in Runs \ {r} : host'[q] = host[q]
        /\ UNCHANGED <<run, job, store, pc, poll>>
    BY <1>1, OfRun DEF CreateVolume, SnapshotTypeOK, Host
  <2>2. /\ host'[r].claim = host[r].claim
        /\ host'[r].pod = host[r].pod
        /\ host'[r].volume = TRUE
        /\ host'[r].lost = host[r].lost
    BY <2>1, OfRun, FieldTypes DEF HostType
  <2>3. host[r].claim = "none"
    BY <1>1 DEF CreateVolume
  <2>4. JobInv(r)' /\ HostInv(r)'
    BY <2>1, <2>2, <2>3, OfRun DEF JobInv, HostInv, Exported
  <2>5. ListedInv(r)'
    BY <2>1, <2>2, <2>3, OfRun DEF JobInv, HostInv, ListedInv, Exported, poll
  <2>6. ASSUME visited = r PROVE CallInv'
    BY <2>1, <2>2, <2>3, <2>6, OfRun DEF HostInv, ListedInv, CallInv, poll
  <2> QED
    BY <2>1, <2>4, <2>5, <2>6, OtherRuns
<1>2. CASE CreateClaim(r)
  <2>1. /\ host'[r] = [host[r] EXCEPT !.claim = "bound"]
        /\ \A q \in Runs \ {r} : host'[q] = host[q]
        /\ UNCHANGED <<run, job, store, pc, poll>>
    BY <1>2, OfRun DEF CreateClaim, SnapshotTypeOK, Host
  <2>2. /\ host'[r].claim = "bound"
        /\ host'[r].pod = host[r].pod
        /\ host'[r].volume = host[r].volume
        /\ host'[r].lost = host[r].lost
    BY <2>1, OfRun, FieldTypes DEF HostType
  <2>3. host[r].claim = "none"
    BY <1>2 DEF CreateClaim
  <2>4. JobInv(r)' /\ HostInv(r)'
    BY <2>1, <2>2, <2>3, OfRun DEF JobInv, HostInv, Exported
  <2>5. ListedInv(r)'
    BY <2>1, <2>2, <2>3, OfRun DEF JobInv, HostInv, ListedInv, Exported, poll
  <2>6. ASSUME visited = r PROVE CallInv'
    BY <2>1, <2>2, <2>3, <2>6, OfRun DEF HostInv, ListedInv, CallInv, poll
  <2> QED
    BY <2>1, <2>4, <2>5, <2>6, OtherRuns
<1>3. CASE PodStarts(r)
  <2>1. /\ host'[r] = [host[r] EXCEPT !.pod = "running"]
        /\ \A q \in Runs \ {r} : host'[q] = host[q]
        /\ UNCHANGED <<run, job, store, pc, poll>>
    BY <1>3, OfRun DEF PodStarts, SnapshotTypeOK, Host
  <2>2. /\ host'[r].claim = host[r].claim
        /\ host'[r].pod = "running"
        /\ host'[r].volume = host[r].volume
        /\ host'[r].lost = host[r].lost
    BY <2>1, OfRun, FieldTypes DEF HostType
  <2>3. host[r].claim = "bound"
    BY <1>3 DEF PodStarts
  <2>4. JobInv(r)' /\ HostInv(r)'
    BY <2>1, <2>2, <2>3, OfRun DEF JobInv, HostInv, Exported
  <2>5. ListedInv(r)'
    BY <2>1, <2>2, <2>3, OfRun DEF JobInv, HostInv, ListedInv, Exported, poll
  <2>6. ASSUME visited = r PROVE CallInv'
    BY <2>1, <2>2, <2>3, <2>6, OfRun DEF HostInv, ListedInv, CallInv, poll
  <2> QED
    BY <2>1, <2>4, <2>5, <2>6, OtherRuns
<1>4. CASE PodEnds(r)
  <2>1. /\ host'[r] = [host[r] EXCEPT !.pod = "ended"]
        /\ \A q \in Runs \ {r} : host'[q] = host[q]
        /\ UNCHANGED <<run, job, store, pc, poll>>
    BY <1>4, OfRun DEF PodEnds, SnapshotTypeOK, Host
  <2>2. /\ host'[r].claim = host[r].claim
        /\ host'[r].pod = "ended"
        /\ host'[r].volume = host[r].volume
        /\ host'[r].lost = host[r].lost
    BY <2>1, OfRun, FieldTypes DEF HostType
  <2>3. host[r].pod = "running" /\ run[r].over
    BY <1>4 DEF PodEnds
  <2>4. JobInv(r)' /\ HostInv(r)'
    BY <2>1, <2>2, <2>3, OfRun DEF JobInv, HostInv, Exported
  <2>5. ListedInv(r)'
    BY <2>1, <2>2, <2>3, OfRun DEF JobInv, HostInv, ListedInv, Exported, poll
  <2>6. ASSUME visited = r PROVE CallInv'
    BY <2>1, <2>2, <2>3, <2>6, OfRun DEF HostInv, ListedInv, CallInv, poll
  <2> QED
    BY <2>1, <2>4, <2>5, <2>6, OtherRuns
<1>5. CASE HostTornDown(r)
  <2>1. /\ host'[r] = [host[r] EXCEPT !.pod = "none"]
        /\ \A q \in Runs \ {r} : host'[q] = host[q]
        /\ UNCHANGED <<run, job, store, pc, poll>>
    BY <1>5, OfRun DEF HostTornDown, SnapshotTypeOK, Host
  <2>2. /\ host'[r].claim = host[r].claim
        /\ host'[r].pod = "none"
        /\ host'[r].volume = host[r].volume
        /\ host'[r].lost = host[r].lost
    BY <2>1, OfRun, FieldTypes DEF HostType
  <2>3. host[r].claim = "released"
    BY <1>5 DEF HostTornDown
  <2>4. JobInv(r)' /\ HostInv(r)'
    BY <2>1, <2>2, <2>3, OfRun DEF JobInv, HostInv, Exported
  <2>5. ListedInv(r)'
    BY <2>1, <2>2, <2>3, OfRun DEF JobInv, HostInv, ListedInv, Exported, poll
  <2>6. ASSUME visited = r PROVE CallInv'
    BY <2>1, <2>2, <2>3, <2>6, OfRun DEF HostInv, ListedInv, CallInv, poll
  <2> QED
    BY <2>1, <2>4, <2>5, <2>6, OtherRuns
<1>6. CASE Works(r)
  <2>1. /\ run'[r] = [run[r] EXCEPT !.work = run[r].work + 1, !.session = "executing"]
        /\ \A q \in Runs \ {r} : run'[q] = run[q]
        /\ UNCHANGED <<host, job, store, pc, poll>>
    BY <1>6, OfRun DEF Works, SnapshotTypeOK
  <2>2. /\ run'[r].work = run[r].work + 1
        /\ run'[r].failed = run[r].failed
        /\ run'[r].over = run[r].over
        /\ run'[r].session = "executing"
    BY <2>1, OfRun, FieldTypes DEF RunType
  <2>3. host[r].pod = "running"
    BY <1>6 DEF Works, Alive
  <2>4. JobInv(r)' /\ HostInv(r)'
    BY <2>1, <2>2, <2>3, OfRun DEF JobInv, HostInv, Exported
  <2>5. ListedInv(r)'
    BY <2>1, <2>2, <2>3, OfRun DEF JobInv, HostInv, ListedInv, Exported, poll
  <2>6. ASSUME visited = r PROVE CallInv'
    BY <2>1, <2>2, <2>3, <2>6, OfRun DEF HostInv, ListedInv, CallInv, poll
  <2> QED
    BY <2>1, <2>4, <2>5, <2>6, OtherRuns
<1>7. CASE RunStepFails(r)
  <2>1. /\ run'[r] = [run[r] EXCEPT !.failed = TRUE, !.session = "executing"]
        /\ \A q \in Runs \ {r} : run'[q] = run[q]
        /\ UNCHANGED <<host, job, store, pc, poll>>
    BY <1>7, OfRun DEF RunStepFails, SnapshotTypeOK
  <2>2. /\ run'[r].work = run[r].work
        /\ run'[r].failed = TRUE
        /\ run'[r].over = run[r].over
        /\ run'[r].session = "executing"
    BY <2>1, OfRun, FieldTypes DEF RunType
  <2>3. host[r].pod = "running"
    BY <1>7 DEF RunStepFails, Alive
  <2>4. JobInv(r)' /\ HostInv(r)'
    BY <2>1, <2>2, <2>3, OfRun DEF JobInv, HostInv, Exported
  <2>5. ListedInv(r)'
    BY <2>1, <2>2, <2>3, OfRun DEF JobInv, HostInv, ListedInv, Exported, poll
  <2>6. ASSUME visited = r PROVE CallInv'
    BY <2>1, <2>2, <2>3, <2>6, OfRun DEF HostInv, ListedInv, CallInv, poll
  <2> QED
    BY <2>1, <2>4, <2>5, <2>6, OtherRuns
<1>8. CASE Finishes(r)
  <2>1. /\ run'[r] = [run[r] EXCEPT !.over = TRUE, !.session = "terminal"]
        /\ \A q \in Runs \ {r} : run'[q] = run[q]
        /\ UNCHANGED <<host, job, store, pc, poll>>
    BY <1>8, OfRun DEF Finishes, SnapshotTypeOK
  <2>2. /\ run'[r].work = run[r].work
        /\ run'[r].failed = run[r].failed
        /\ run'[r].over = TRUE
        /\ run'[r].session = "terminal"
    BY <2>1, OfRun, FieldTypes DEF RunType
  <2>3. host[r].pod = "running"
    BY <1>8 DEF Finishes, Alive
  <2>4. JobInv(r)' /\ HostInv(r)'
    BY <2>1, <2>2, <2>3, OfRun DEF JobInv, HostInv, Exported
  <2>5. ListedInv(r)'
    BY <2>1, <2>2, <2>3, OfRun DEF JobInv, HostInv, ListedInv, Exported, poll
  <2>6. ASSUME visited = r PROVE CallInv'
    BY <2>1, <2>2, <2>3, <2>6, OfRun DEF HostInv, ListedInv, CallInv, poll
  <2> QED
    BY <2>1, <2>4, <2>5, <2>6, OtherRuns
<1>9. CASE PodLost(r)
  <2>1. PICK p \in {"none", "ended"} :
           host' = [host EXCEPT ![r] = [host[r] EXCEPT !.pod = p, !.lost = host[r].lost + 1]]
    BY <1>9 DEF PodLost, Host
  <2>2. /\ host'[r] = [host[r] EXCEPT !.pod = p, !.lost = host[r].lost + 1]
        /\ \A q \in Runs \ {r} : host'[q] = host[q]
        /\ UNCHANGED <<run, job, store, pc, poll>>
    BY <1>9, <2>1, OfRun DEF PodLost, SnapshotTypeOK
  <2>3. /\ host'[r].claim = host[r].claim /\ host'[r].pod = p
        /\ host'[r].volume = host[r].volume /\ host'[r].lost # 0
    BY <2>2, OfRun, FieldTypes DEF HostType
  <2>4. host[r].pod = "running"
    BY <1>9 DEF PodLost
  <2>5. JobInv(r)' /\ HostInv(r)'
    BY <2>2, <2>3, <2>4, OfRun DEF JobInv, HostInv, Exported
  <2>6. ListedInv(r)'
    BY <2>2, <2>3, <2>4, OfRun DEF JobInv, HostInv, ListedInv, Exported, poll
  <2>7. ASSUME visited = r PROVE CallInv'
    BY <2>2, <2>3, <2>4, <2>7, OfRun DEF HostInv, ListedInv, CallInv, poll
  <2> QED
    BY <2>2, <2>5, <2>6, <2>7, OtherRuns
<1> QED
  BY <1>1, <1>2, <1>3, <1>4, <1>5, <1>6, <1>7, <1>8, <1>9 DEF Hosting, Running

\* A finished job that expires leaves what it exported.
LEMMA InvExpires ==
  ASSUME SnapshotInv, NEW r \in Runs, JobExpires(r)
  PROVE  /\ CallInv'
         /\ \A q \in Runs : JobInv(q)' /\ HostInv(q)' /\ ListedInv(q)'
<1>1. /\ job'[r] = NoJob
      /\ \A q \in Runs \ {r} : job'[q] = job[q]
      /\ UNCHANGED <<host, run, store, pc, poll>>
  BY OfRun DEF JobExpires, SnapshotTypeOK
<1>2. JobInv(r)' /\ HostInv(r)'
  BY <1>1, OfRun DEF JobInv, HostInv, Exported, NoJob
<1>3. ListedInv(r)'
  BY <1>1, OfRun DEF ListedInv, Exported, NoJob, poll
<1>4. CallInv'
  BY <1>1, OfRun DEF CallInv, poll
<1> QED
  BY <1>1, <1>2, <1>3, <1>4, OtherRuns

\* When the world stands still, what holds of it does.
LEMMA SameWorld ==
  ASSUME SnapshotInv, UNCHANGED cluster, NEW r \in Runs
  PROVE  JobInv(r)' /\ HostInv(r)'
  BY OfRun DEF JobInv, HostInv, Exported, cluster

\* The three lists of a poll: what has to be true of them is true when they are made.
LEMMA InvLists ==
  ASSUME SnapshotInv, ListJobs \/ ListClaims \/ \E r \in Runs : ListPods(r)
  PROVE  /\ CallInv'
         /\ \A q \in Runs : JobInv(q)' /\ HostInv(q)' /\ ListedInv(q)'
<1>1. CASE ListJobs
  <2>1. ASSUME NEW q \in Runs PROVE ListedInv(q)'
    BY <1>1, OfRun DEF ListJobs, JobInv, HostInv, ListedInv, Exported, cluster
  <2>2. CallInv'
    BY <1>1 DEF ListJobs, CallInv
  <2> QED
    BY <1>1, <2>1, <2>2, SameWorld DEF ListJobs
<1>2. CASE ListClaims
  <2>1. ASSUME NEW q \in Runs PROVE ListedInv(q)'
    <3>1. host[q].claim \in {"none", "bound", "released"}
      BY OfRun, FieldTypes DEF HostType
    <3> QED
      BY <1>2, <3>1, OfRun DEF ListClaims, JobInv, HostInv, ListedInv, Exported, cluster
  <2>2. CallInv'
    BY <1>2 DEF ListClaims, CallInv
  <2> QED
    BY <1>2, <2>1, <2>2, SameWorld DEF ListClaims
<1>3. ASSUME NEW r \in Runs, ListPods(r)
      PROVE  CallInv' /\ \A q \in Runs : JobInv(q)' /\ HostInv(q)' /\ ListedInv(q)'
  <2>1. ASSUME NEW q \in Runs PROVE ListedInv(q)'
    BY <1>3, OfRun DEF ListPods, ListedInv, Exported, cluster, AfterListPods
  <2>2. /\ pc = "visit" /\ r \in todo /\ visited' = r /\ pc' = AfterListPods(r)
        /\ UNCHANGED <<cluster, jobs, claims>>
    BY <1>3 DEF ListPods
  <2>3. pc' = "create" => jobs[r] = "none" /\ host[r].claim = "bound"
    BY <2>2, OfRun DEF AfterListPods, ListedInv
  <2>4. pc' \in {"release", "pods", "volume", "delete", "mark"}
           => /\ jobs[r] = "succeeded" /\ host[r].pod # "running"
              /\ pc' \notin {"delete", "mark"}
              /\ pc' = "pods" => r \notin claims
    BY <2>2 DEF AfterListPods, RemainingPods
  <2>5. host[r].pod \in {"none", "running", "ended"}
        /\ host[r].claim \in {"none", "bound", "released"}
    BY OfRun, FieldTypes DEF HostType
  <2>6. pc' = "release" /\ host[r].lost = 0 => run[r].over
    BY <2>2, <2>4, <2>5, OfRun DEF HostInv, ListedInv
  <2>7. CallInv'
    BY <2>2, <2>3, <2>4, <2>6, OfRun DEF CallInv, ListedInv, cluster
  <2> QED
    BY <2>1, <2>2, <2>7, SameWorld
<1> QED
  BY <1>1, <1>2, <1>3

\* The calls of a poll act on what is still true of the run they are for.
LEMMA InvCalls ==
  ASSUME SnapshotInv,
         \/ CreateExporter \/ ReleaseHost \/ DeletePods \/ PvcExists \/ PvcAbsent
         \/ DeletePvc \/ MarkCleanup
  PROVE  /\ CallInv'
         /\ \A q \in Runs : JobInv(q)' /\ HostInv(q)' /\ ListedInv(q)'
<1>1. PICK r \in Runs : r = visited
  BY DEF SnapshotInv, SnapshotTypeOK, CreateExporter, ReleaseHost, DeletePods, PvcExists,
         PvcAbsent, DeletePvc, MarkCleanup, At
<1>2. JobInv(r) /\ HostInv(r) /\ ListedInv(r) /\ CallInv /\ SnapshotTypeOK
  BY <1>1, OfRun
<1>3. UNCHANGED poll
  BY DEF CreateExporter, ReleaseHost, DeletePods, PvcExists, PvcAbsent, DeletePvc,
         MarkCleanup, Continues
<1>4. SUFFICES ASSUME pc # "idle" /\ pc # "claims" /\ pc' # "idle" /\ pc' # "claims"
      PROVE /\ CallInv'
            /\ \A q \in Runs : JobInv(q)' /\ HostInv(q)' /\ ListedInv(q)'
  BY DEF CreateExporter, ReleaseHost, DeletePods, PvcExists, PvcAbsent, DeletePvc,
         MarkCleanup, Continues, At
\* The other runs.
<1>5. ASSUME NEW q \in Runs, q # r PROVE JobInv(q)' /\ HostInv(q)' /\ ListedInv(q)'
  <2>1. host'[q] = host[q] /\ run' = run /\ job'[q] = job[q] /\ store'[q] = store[q]
    BY <1>1, <1>2, <1>5 DEF SnapshotTypeOK, CreateExporter, ReleaseHost, DeletePods, PvcExists,
                      PvcAbsent, DeletePvc, MarkCleanup, cluster
  <2> QED
    BY <1>3, <1>4, <2>1, OfRun DEF JobInv, HostInv, ListedInv, Exported, poll
<1> SUFFICES JobInv(r)' /\ HostInv(r)' /\ ListedInv(r)' /\ CallInv'
  BY <1>5
<1>6. CASE CreateExporter
  <2>1. /\ pc = "create" /\ pc' = "visit" /\ UNCHANGED <<host, run, store>>
        /\ job'[r].state = "active" /\ job'[r].at = "reading"
    BY <1>1, <1>2, <1>6 DEF CreateExporter, SnapshotTypeOK, At, Continues
  <2> QED
    BY <1>1, <1>2, <1>3, <2>1 DEF JobInv, HostInv, ListedInv, CallInv, Exported, poll
<1>7. CASE ReleaseHost
  <2>1. /\ pc = "release" /\ pc' \in {"visit", "volume"} /\ UNCHANGED <<run, job, store>>
        /\ host'[r] = [host[r] EXCEPT !.claim = "released"]
    BY <1>1, <1>2, <1>7 DEF ReleaseHost, SnapshotTypeOK, At, Continues
  <2>2. /\ host'[r].claim = "released" /\ host'[r].pod = host[r].pod
        /\ host'[r].volume = host[r].volume /\ host'[r].lost = host[r].lost
    BY <1>1, <1>2, <2>1, FieldTypes DEF HostType
  <2> QED
    BY <1>1, <1>2, <1>3, <2>1, <2>2 DEF JobInv, HostInv, ListedInv, CallInv, Exported, poll
<1>8. CASE DeletePods
  <2>1. /\ pc = "pods" /\ pc' = "visit" /\ UNCHANGED <<run, store>>
        /\ job'[r] = [job[r] EXCEPT !.pod = FALSE]
        /\ host'[r] = [host[r] EXCEPT !.pod = IF host[r].pod = "ended" THEN "none"
                                               ELSE host[r].pod]
    BY <1>1, <1>2, <1>8 DEF DeletePods, SnapshotTypeOK, At, Continues
  <2>2. /\ job'[r].state = job[r].state /\ job'[r].at = job[r].at
        /\ job'[r].copy = job[r].copy /\ host'[r].claim = host[r].claim
        /\ host'[r].volume = host[r].volume /\ host'[r].lost = host[r].lost
    BY <1>1, <1>2, <2>1, FieldTypes DEF HostType, JobType
  <2>3. host'[r].pod # "ended"
    BY <1>1, <1>2, <2>1, FieldTypes DEF HostType
  <2> QED
    BY <1>1, <1>2, <1>3, <2>1, <2>2, <2>3
       DEF JobInv, HostInv, ListedInv, CallInv, Exported, poll
<1>9. CASE PvcExists \/ PvcAbsent
  <2>1. /\ pc = "volume" /\ pc' \in {"visit", "delete", "mark"} /\ UNCHANGED cluster
        /\ pc' = "mark" => ~host[r].volume
    BY <1>1, <1>9 DEF PvcExists, PvcAbsent, At, Continues
  <2> QED
    <3>1. UNCHANGED <<host, run, job, store>>
      BY <2>1 DEF cluster
    <3>2. JobInv(r)' /\ HostInv(r)'
      BY <2>1, SameWorld
    <3>3. ListedInv(r)'
      BY <1>2, <1>3, <1>4, <3>1 DEF ListedInv, Exported, poll
    <3>4. CallInv'
      BY <1>1, <1>2, <1>3, <2>1, <3>1 DEF CallInv, poll
    <3> QED
      BY <3>2, <3>3, <3>4
<1>10. CASE DeletePvc
  <2>1. /\ pc = "delete" /\ pc' = "mark" /\ UNCHANGED <<run, job, store>>
        /\ host'[r] = [host[r] EXCEPT !.volume = FALSE]
    BY <1>1, <1>2, <1>10 DEF DeletePvc, SnapshotTypeOK, At, Continues
  <2>2. /\ host'[r].claim = host[r].claim /\ host'[r].pod = host[r].pod
        /\ ~host'[r].volume /\ host'[r].lost = host[r].lost
    BY <1>1, <1>2, <2>1, FieldTypes DEF HostType
  <2> QED
    BY <1>1, <1>2, <1>3, <2>1, <2>2 DEF JobInv, HostInv, ListedInv, CallInv, Exported, poll
<1>11. CASE MarkCleanup
  <2>1. /\ pc = "mark" /\ pc' = "visit" /\ UNCHANGED <<host, run, job>>
        /\ store'[r] = [store[r] EXCEPT !.record = "cleanup_completed"]
    BY <1>1, <1>2, <1>11 DEF MarkCleanup, SnapshotTypeOK, At, Continues
  <2>2. /\ store'[r].archive = store[r].archive /\ store'[r].manifest = store[r].manifest
        /\ store'[r].record = "cleanup_completed"
    BY <1>1, <1>2, <2>1, FieldTypes DEF StoreType
  <2> QED
    BY <1>1, <1>2, <1>3, <2>1, <2>2 DEF JobInv, HostInv, ListedInv, CallInv, Exported, poll
<1> QED
  BY <1>6, <1>7, <1>8, <1>9, <1>10, <1>11

\* A poll that ends, or that a failing call ends, leaves nothing to be relied on.
LEMMA InvPollEnds ==
  ASSUME SnapshotInv, PollDone \/ MarkFails \/ PollFails
  PROVE  /\ CallInv'
         /\ \A q \in Runs : JobInv(q)' /\ HostInv(q)' /\ ListedInv(q)'
<1>1. /\ UNCHANGED <<cluster, poll>> /\ pc' \in {"idle", "visit"}
      /\ pc' = "visit" => pc \notin {"idle", "claims"}
  BY DEF PollDone, MarkFails, PollFails, Continues, At, cluster, poll
<1>2. ASSUME NEW q \in Runs PROVE ListedInv(q)'
  BY <1>1, OfRun DEF ListedInv, Exported, cluster, poll
<1>3. CallInv'
  BY <1>1 DEF CallInv
<1> QED
  BY <1>1, <1>2, <1>3, SameWorld

\* The invariant holds at the start.
LEMMA SnapshotInvInit == SnapshotInit => SnapshotInv
<1> SUFFICES ASSUME SnapshotInit PROVE SnapshotInv
  OBVIOUS
<1>1. ASSUME NEW r \in Runs PROVE JobInv(r) /\ HostInv(r) /\ ListedInv(r)
  BY DEF SnapshotInit, JobInv, HostInv, ListedInv, NoJob
<1> QED
  BY <1>1, TypeInit DEF SnapshotInit, SnapshotInv, CallInv

\* Every step keeps it.
LEMMA SnapshotInvNext == SnapshotInv /\ [SnapshotNext]_snapshotVars => SnapshotInv'
<1> SUFFICES ASSUME SnapshotInv, [SnapshotNext]_snapshotVars PROVE SnapshotInv'
  OBVIOUS
<1>1. SnapshotTypeOK'
  BY TypeNext DEF SnapshotInv
<1>2. CASE SnapshotNext
  BY <1>1, <1>2, InvExport, InvWorld, InvExpires, InvLists, InvCalls, InvPollEnds
     DEF SnapshotNext, Reconcile, SnapshotInv
<1>3. CASE UNCHANGED snapshotVars
  <2>1. ASSUME NEW q \in Runs PROVE ListedInv(q)'
    BY <1>3, OfRun DEF ListedInv, Exported, snapshotVars, cluster, poll
  <2>2. CallInv'
    BY <1>3 DEF SnapshotInv, CallInv, snapshotVars, cluster, poll
  <2> QED
    BY <1>1, <1>3, <2>1, <2>2, SameWorld DEF SnapshotInv, snapshotVars
<1> QED
  BY <1>2, <1>3

\* What the invariant says of a released host, of a session recorded as cleaned up
\* and of a live run.
LEMMA SnapshotInvSafe ==
  SnapshotInv => DeleteAfterExport /\ CleanupTruthful /\ LiveRunKeepsHost
<1> SUFFICES ASSUME SnapshotInv
    PROVE  DeleteAfterExport /\ CleanupTruthful /\ LiveRunKeepsHost
  OBVIOUS
<1>1. ASSUME NEW r \in Runs, Alive(r), host[r].lost = 0 PROVE host[r].claim = "bound"
  <2>1. host[r].claim \in {"none", "bound", "released"}
    BY OfRun, FieldTypes DEF HostType
  <2> QED
    BY <1>1, <2>1, OfRun DEF Alive, HostInv
<1> QED
  BY <1>1, OfRun DEF DeleteAfterExport, CleanupTruthful, LiveRunKeepsHost, HostInv

\* However exports fail, jobs expire and polls break off: a host is taken down only
\* after an archive, its manifest and a session record are in S3 (392-406).
THEOREM NothingLost == SnapshotSpec => []DeleteAfterExport
  BY SnapshotInvInit, SnapshotInvNext, SnapshotInvSafe, PTL DEF SnapshotSpec

\* A session is recorded as cleaned up only when its volume is gone (419-420, 434-455).
THEOREM CleanupIsTrue == SnapshotSpec => []CleanupTruthful
  BY SnapshotInvInit, SnapshotInvNext, SnapshotInvSafe, PTL DEF SnapshotSpec

\* The controller infers that a run is over from the absence of pods; for a run that
\* never lost its pod the inference is right, stale lists included (349-406).
THEOREM HostsKept == SnapshotSpec => []LiveRunKeepsHost
  BY SnapshotInvInit, SnapshotInvNext, SnapshotInvSafe, PTL DEF SnapshotSpec

\* For any number of runs, polls and failures: nothing is taken down before it is
\* exported, and no record says cleaned up before it is (392-455).
THEOREM TakenDownSafely == SnapshotSpec => []TakenDownInOrder
<1>1. DeleteAfterExport /\ CleanupTruthful => TakenDownInOrder
  BY DEF TakenDownInOrder
<1> QED
  BY <1>1, NothingLost, CleanupIsTrue, PTL

=============================================================================
