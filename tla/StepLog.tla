------------------------------- MODULE StepLog -------------------------------
\* The activity log of one step: what the runtimes' dispatchers, the live chunks
\* of the Codex CLI and the orchestrator's fallback send to the sink, and what the
\* ingestion service stores of it under (attempt, sequence).  A rework in the same
\* run counts the attempt up; a resumed run, a new life, starts at attempt 1 again.
EXTENDS Naturals, Sequences, FiniteSets, SequencesExt

CONSTANTS Kinds,       \* what the runtime reports
          MaxLines,    \* bound: lines of output of one execution
          MaxAttempts, \* bound: executions of the step in one life
          MaxLives,    \* bound: processes that work on the run
          MaxExecutions, \* bound: executions in all
          ChunkLines,  \* LOG_CHUNK_MAX_BYTES, in lines
          FileChunkLines, \* the fallback's 4 KB, in lines
          MaxFaults    \* bound: posts that fail

ASSUME KindsAssumption == Kinds \subseteq {"structured", "live", "silent"}
ASSUME BoundsAssumption == /\ {MaxLines, MaxAttempts, MaxLives, MaxExecutions, ChunkLines,
                               FileChunkLines} \subseteq Nat \ {0}
                           /\ MaxFaults \in Nat

VARIABLES
  kind,     \* activity is dispatched, stdout is sent as it comes, or neither
  life,     \* the process that works on the run
  attempt,  \* the attempt that runs, or ran last
  phase,    \* "running", "fallback", "idle" or "exited"
  lines,    \* lines that executions have written to their stdout log
  writer,   \* the sender of each execution's chunks
  late,     \* posts given up by the client that the service may still handle
  rows,     \* run_logs
  faults,
  lost      \* lines dropped after the retry, or with the process (history)

vars == <<kind, life, attempt, phase, lines, writer, late, rows, faults, lost>>

Executions == (1 .. MaxLives) \X (1 .. MaxAttempts)
Now == <<life, attempt>>
RetryCount == 1
NoPost == [chunk |-> <<>>, sequence |-> 0, tries |-> 0]

\* createActivityDispatcher: chain holds the flushes that wait, timer is "none",
\* "set" or "fired"; waiting holds the chunks of the other senders.  flushFinal is
\* called as soon as runStep has its promise: its finally awaits no result.
NewWriter == [buffer |-> <<>>, timer |-> "none", chain |-> <<TRUE>>, sequence |-> 0,
              waiting |-> <<>>, post |-> NoPost]

Init ==
  /\ kind \in Kinds
  /\ life = 1 /\ attempt = 1
  /\ phase = "running"
  /\ lines = [x \in Executions |-> 0]
  /\ writer = [x \in Executions |-> NewWriter]
  /\ late = {}
  /\ rows = {}
  /\ faults = 0
  /\ lost = {}

\* The dispatchers of the attempts before live on beside the one that runs.
Alive(x) == x[1] = life /\ phase # "exited"
Posting(x) == writer[x].post # NoPost
Of(x, chunk) == {<<x, n>> : n \in ToSet(chunk)}

-----------------------------------------------------------------------------
\* The senders.

\* emit, once the callback has returned: a full buffer is flushed, else the timer
\* is started unless there is one.
Emit(w, line) ==
  LET grown == [w EXCEPT !.buffer = Append(@, line)]
  IN  IF Len(grown.buffer) >= ChunkLines
        THEN [grown EXCEPT !.chain = Append(@, FALSE)]
        ELSE [grown EXCEPT !.timer = IF @ = "none" THEN "set" ELSE @]

\* queueLiveStdoutChunk: stdout as it comes, numbered at once.
Queue(w, line) == [w EXCEPT !.waiting = Append(@, [chunk |-> <<line>>, sequence |-> w.sequence]),
                            !.sequence = @ + 1]

\* The agent writes a line.
AgentWrites ==
  /\ phase = "running" /\ lines[Now] < MaxLines
  /\ lines' = [lines EXCEPT ![Now] = @ + 1]
  /\ writer' = [writer EXCEPT ![Now] = CASE kind = "structured" -> Emit(@, lines[Now] + 1)
                                         [] kind = "live"       -> Queue(@, lines[Now] + 1)
                                         [] OTHER               -> @]
  /\ UNCHANGED <<kind, life, attempt, phase, late, rows, faults, lost>>

\* LOG_CHUNK_FLUSH_INTERVAL_MS
TimerFires(x) ==
  /\ Alive(x) /\ writer[x].timer = "set"
  /\ writer' = [writer EXCEPT ![x].timer = "fired", ![x].chain = Append(@, FALSE)]
  /\ UNCHANGED <<kind, life, attempt, phase, lines, late, rows, faults, lost>>

MutTakenSameNumber(w) == [w EXCEPT !.post = [chunk |-> w.buffer, sequence |-> w.sequence, tries |-> 1],
                                   !.buffer = <<>>, !.timer = "none"]
MutTakenTimerLeft(w) == [w EXCEPT !.post = [chunk |-> w.buffer, sequence |-> w.sequence, tries |-> 1],
                                  !.sequence = @ + 1, !.buffer = <<>>]
\* A flush up to its await of postLog: the buffer is taken and emptied, and the
\* number with it.
Taken(w) == [w EXCEPT !.post = [chunk |-> w.buffer, sequence |-> w.sequence, tries |-> 1],
                      !.sequence = @ + 1, !.buffer = <<>>, !.timer = "none"]

\* One link of flushChain.
Flush(x) ==
  LET rest == [writer[x] EXCEPT !.chain = Tail(@)]
  IN  /\ Alive(x) /\ writer[x].chain # <<>> /\ ~Posting(x)
      /\ writer' = [writer EXCEPT ![x] = IF rest.buffer = <<>> THEN [rest EXCEPT !.timer = "none"]
                                                                ELSE Taken(rest)]
      /\ UNCHANGED <<kind, life, attempt, phase, lines, late, rows, faults, lost>>

\* One link of liveLogChain, or one turn of the fallback's loop.
PostWaiting(x) ==
  LET next == Head(writer[x].waiting)
  IN  /\ Alive(x) /\ writer[x].waiting # <<>> /\ ~Posting(x)
      /\ writer' = [writer EXCEPT ![x].waiting = Tail(@),
                                  ![x].post = [chunk |-> next.chunk, sequence |-> next.sequence,
                                               tries |-> 1]]
      /\ UNCHANGED <<kind, life, attempt, phase, lines, late, rows, faults, lost>>

-----------------------------------------------------------------------------
\* The sink.

Row(x) == [key |-> <<x[2], writer[x].post.sequence>>, by |-> x, chunk |-> writer[x].post.chunk]

\* INSERT ... ON CONFLICT (run, step, attempt, sequence, stream) DO NOTHING
Stored(row) == IF \E r \in rows : r.key = row.key THEN rows ELSE rows \cup {row}

\* The finally of a flush: lines that came meanwhile start the timer.
Posted(w) == [w EXCEPT !.post = NoPost,
                       !.timer = IF @ = "none" /\ w.buffer # <<>> THEN "set" ELSE @]

Delivered(x) ==
  /\ Alive(x) /\ Posting(x)
  /\ rows' = Stored(Row(x))
  /\ writer' = [writer EXCEPT ![x] = Posted(@)]
  /\ UNCHANGED <<kind, life, attempt, phase, lines, late, faults, lost>>

Again(tries) == tries <= RetryCount

\* postWithRetry: once more, then the chunk is dropped; the fallback stops there.
Fails(x) ==
  LET w == writer[x]
  IN  /\ Alive(x) /\ Posting(x) /\ faults < MaxFaults
      /\ faults' = faults + 1
      /\ IF Again(w.post.tries)
           THEN /\ writer' = [writer EXCEPT ![x].post.tries = @ + 1]
                /\ UNCHANGED lost
           ELSE LET unsent == IF phase = "fallback" /\ x = Now THEN w.waiting ELSE <<>>
                    kept   == IF unsent = <<>> THEN w.waiting ELSE <<>>
                IN  /\ writer' = [writer EXCEPT ![x] = [Posted(w) EXCEPT !.waiting = kept]]
                    /\ lost' = lost \cup Of(x, w.post.chunk)
                                    \cup UNION {Of(x, c.chunk) : c \in ToSet(unsent)}

\* The service answers with an error: the rate limit, or a database that is down.
Refused(x) == Fails(x) /\ UNCHANGED <<kind, life, attempt, phase, lines, late, rows>>

\* EVENT_SINK_TIMEOUT_MS: the client gives up, the service may go on.
TimesOut(x) ==
  /\ Fails(x)
  /\ late' = late \cup {Row(x)}
  /\ UNCHANGED <<kind, life, attempt, phase, lines, rows>>
LateHandled(row, handled) ==
  /\ row \in late
  /\ late' = late \ {row}
  /\ rows' = IF handled THEN Stored(row) ELSE rows
  /\ UNCHANGED <<kind, life, attempt, phase, lines, writer, faults, lost>>

-----------------------------------------------------------------------------
\* The orchestrator.

\* postFallbackActivityLog: the stdout log of the attempt in chunks, from 0.
Least(m, n) == IF m < n THEN m ELSE n
FileChunks(n) ==
  [i \in 1 .. (n + FileChunkLines - 1) \div FileChunkLines |->
     [sequence |-> i - 1,
      chunk |-> [j \in 1 .. Least(FileChunkLines, n - (i - 1) * FileChunkLines) |->
                   (i - 1) * FileChunkLines + j]]]

\* runStep returns, for the Codex CLI once its live chunks are sent.
\* runtimeActivityCount = 0: nothing was dispatched.
StepSucceeds ==
  /\ phase = "running"
  /\ kind = "live" => writer[Now].waiting = <<>> /\ ~Posting(Now)
  /\ IF kind # "structured" \/ lines[Now] = 0
       THEN /\ phase' = "fallback"
            /\ writer' = [writer EXCEPT ![Now].waiting = FileChunks(lines[Now])]
       ELSE phase' = "idle" /\ UNCHANGED writer
  /\ UNCHANGED <<kind, life, attempt, lines, late, rows, faults, lost>>

StepFails ==
  /\ phase = "running"
  /\ phase' = "idle"
  /\ UNCHANGED <<kind, life, attempt, lines, writer, late, rows, faults, lost>>

FallbackEnds ==
  /\ phase = "fallback"
  /\ writer[Now].waiting = <<>> /\ ~Posting(Now)
  /\ phase' = "idle"
  /\ UNCHANGED <<kind, life, attempt, lines, writer, late, rows, faults, lost>>

\* A rework, or the retry after the quality gate.
Retries ==
  /\ phase = "idle" /\ attempt < MaxAttempts /\ life + attempt <= MaxExecutions
  /\ attempt' = attempt + 1
  /\ phase' = "running"
  /\ UNCHANGED <<kind, life, lines, writer, late, rows, faults, lost>>

Pending(x) == LET w == writer[x]
              IN  Of(x, w.buffer) \cup Of(x, w.post.chunk)
                    \cup UNION {Of(x, c.chunk) : c \in ToSet(w.waiting)}

\* process.exit of a failed run, or a kill: what has not been sent is lost; a post
\* that is under way may arrive.
Exits ==
  /\ phase # "exited"
  /\ phase' = "exited"
  /\ lost' = lost \cup UNION {Pending(x) : x \in Executions}
  /\ late' = late \cup {Row(x) : x \in {y \in Executions : Posting(y)}}
  /\ writer' = [x \in Executions |-> [NewWriter EXCEPT !.chain = <<>>]]
  /\ UNCHANGED <<kind, life, attempt, lines, rows, faults>>

\* resumeTask in a new process: reworkCounts starts over.
Resumes ==
  /\ phase = "exited" /\ life < MaxLives /\ life + attempt <= MaxExecutions
  /\ life' = life + 1 /\ attempt' = 1
  /\ phase' = "running"
  /\ writer' = [writer EXCEPT ![<<life + 1, 1>>] = NewWriter]
  /\ UNCHANGED <<kind, lines, late, rows, faults, lost>>

-----------------------------------------------------------------------------
Next ==
  \/ AgentWrites
  \/ \E x \in Executions :
       TimerFires(x) \/ Flush(x) \/ PostWaiting(x) \/ Delivered(x) \/ Refused(x) \/ TimesOut(x)
  \/ \E row \in late, handled \in BOOLEAN : LateHandled(row, handled)
  \/ StepSucceeds \/ StepFails \/ FallbackEnds \/ Retries
  \/ Exits \/ Resumes

\* Timers fire, chains go on, and a post is answered or given up.
Fairness ==
  \A x \in Executions :
    /\ WF_vars(TimerFires(x))
    /\ WF_vars(Flush(x))
    /\ WF_vars(PostWaiting(x))
    /\ WF_vars(Delivered(x) \/ Refused(x) \/ TimesOut(x))

Spec == Init /\ [][Next]_vars /\ Fairness
=============================================================================
