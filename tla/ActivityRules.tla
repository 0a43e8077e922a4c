--------------------------- MODULE ActivityRules ----------------------------
\* What the runtimes make of what an agent says while it works: which of its tool calls
\* the guardrails stop, which activities are reported, and what it used.
\* A command, a path or a tool is a name, "" where there is none.
EXTENDS Integers, Sequences, FiniteSets, TLC, SequencesExt, FiniteSetsExt

FirstOf(a, b) == IF a # "" THEN a ELSE b

-----------------------------------------------------------------------------
\* evaluateGuardrail.  Guards are [commands, allow, deny]; commands and paths stand for
\* what the patterns match, and a path outside the workspace is in Outside, wherever the
\* links that lead there begin.
CONSTANT Outside
CommandAllowed(command, guards) == command \notin guards.commands
PathAllowed(path, guards) ==
  /\ path \notin Outside
  /\ guards.allow # {} => path \in guards.allow
  /\ path \notin guards.deny
EvaluateGuardrail(guards, call) ==
  \/ guards = <<>>
  \/ IF call.command # "" THEN CommandAllowed(call.command, guards[1])
     ELSE call.path # "" => PathAllowed(call.path, guards[1])
\* the calls that are stopped, of which the first one is reported
Violations(guards, calls) == SelectSeq(calls, LAMBDA c : ~EvaluateGuardrail(guards, c))

Call(tool, command, path) == [tool |-> tool, command |-> command, path |-> path]
Activity(call) ==
  CASE call.command # "" -> [kind |-> "agent_command_run", tool |-> call.tool, of |-> call.command]
    [] OTHER -> IF call.path # "" THEN [kind |-> "agent_file_edit", tool |-> call.tool, of |-> call.path]
                ELSE [kind |-> "agent_tool_call", tool |-> call.tool, of |-> ""]
Thought(kind) == [kind |-> "agent_thinking", tool |-> "", of |-> kind]
Blocked(call) == [kind |-> "agent_guardrail_block", tool |-> call.tool, of |-> FirstOf(call.command, call.path)]

-----------------------------------------------------------------------------
\* A message of Claude is [type, content, inner, tool, command, path, session, tokens,
\* cost]: content and inner, those of its own and of the message in it, are [list, blocks],
\* a list of blocks or one that stands by itself; a block is [type, tool, input, own],
\* with what the call names in its input or itself.
NoContent == [list |-> FALSE, blocks |-> <<>>]
Thinking == {"thinking", "reasoning"}
ToolUses == {"tool_use", "server_tool_use"}
\* extractEventsFromContentArray
BlockActivity(b) ==
  CASE b.type \in Thinking -> <<Thought(b.type)>>
    [] OTHER -> IF b.type \in ToolUses \/ b.tool # ""
                THEN <<Activity(Call(FirstOf(b.tool, b.type), FirstOf(b.own.command, b.input.command),
                                     FirstOf(b.own.path, b.input.path)))>>
                ELSE <<>>
BlockActivities(blocks) == FlattenSeq([i \in DOMAIN blocks |-> BlockActivity(blocks[i])])
\* extractActivityEventsFromSdkMessage
MessageActivities(m) ==
  (IF m.type \in Thinking THEN <<Thought(m.type)>> ELSE <<>>)
    \o BlockActivities(m.content.blocks) \o BlockActivities(m.inner.blocks)
    \o (IF m.tool # "" THEN <<Activity(Call(m.tool, m.command, m.path))>> ELSE <<>>)
\* extractClaudeToolCalls: what the guardrails are asked about
BlockCalls(b) ==
  IF b.type # "tool_use" \/ FirstOf(b.input.command, b.input.path) = "" THEN <<>>
  ELSE <<Call(b.tool, b.input.command, b.input.path)>>
Examined(m) ==
  CASE m.inner.list -> m.inner.blocks
    [] OTHER -> IF m.content.list THEN m.content.blocks ELSE <<>>
MessageCalls(m) ==
  LET blocks == Examined(m)
  IN  FlattenSeq([i \in DOMAIN blocks |-> BlockCalls(blocks[i])])
        \o (IF FirstOf(m.command, m.path) # "" THEN <<Call(m.tool, m.command, m.path)>> ELSE <<>>)

\* runSdk of Claude: a message is looked at before anything is made of it.
NoTurn == [told |-> <<>>, session |-> "", result |-> <<>>, items |-> <<>>, response |-> "", stopped |-> FALSE]
ClaudeTakes(guards, s, m) ==
  LET bad == Violations(guards, MessageCalls(m))
  IN  CASE s.stopped -> s
        [] OTHER -> IF bad # <<>> THEN [s EXCEPT !.told = Append(@, Blocked(bad[1])), !.stopped = TRUE]
                    ELSE [s EXCEPT !.told = @ \o MessageActivities(m), !.session = FirstOf(m.session, @),
                                   !.result = IF m.type = "result" THEN <<m>> ELSE @]
ClaudeSdk(guards, messages) == FoldLeft(LAMBDA s, m : ClaudeTakes(guards, s, m), NoTurn, messages)

Denied(guards, a) == ~EvaluateGuardrail(guards, Call(a.tool, IF a.kind = "agent_command_run" THEN a.of ELSE "",
                                                     IF a.kind = "agent_file_edit" THEN a.of ELSE ""))
\* The guardrails read of a message its own call and, in the list of blocks of the message
\* in it or else in its own, the tool uses with what their input names (437-463).  What is
\* reported is read from all blocks, of every type that names a tool, and from the block
\* before its input (735, 783-790).
AsksAbout(b) == b.type = "tool_use" /\ FirstOf(b.own.command, b.own.path) = ""
NotAskedAbout(m) ==
  SelectSeq(m.content.blocks \o m.inner.blocks, LAMBDA b : ~(AsksAbout(b) /\ b \in ToSet(Examined(m))))
\* The agent is stopped at the first call the guardrails deny of those they are asked about,
\* at no other, and is reported once as stopped, with nothing after it.  What is reported
\* as done although they deny it was named where they are not asked.
GuardedTrue(guards, messages, turn) ==
  LET calls  == FlattenSeq([i \in DOMAIN messages |-> MessageCalls(messages[i])])
      blocks == SelectSeq(turn.told, LAMBDA a : a.kind = "agent_guardrail_block")
  IN  /\ \A i \in DOMAIN turn.told : Denied(guards, turn.told[i]) =>
           \E j \in DOMAIN messages : turn.told[i] \in ToSet(BlockActivities(NotAskedAbout(messages[j])))
      /\ turn.stopped <=> Violations(guards, calls) # <<>>
      /\ turn.stopped => blocks = <<Blocked(Violations(guards, calls)[1])>> /\ Last(turn.told) = blocks[1]
      /\ ~turn.stopped => blocks = <<>>

-----------------------------------------------------------------------------
\* runLocalStreaming of Claude.  The output is read in chunks of pieces [of, part, whole]:
\* parts 1 to 3 of the line of message of, where 2 and 3 are the bytes of one character in
\* what its calls name, and the ends of lines.  A line is a message when all of it is there.
EndOfLine == [of |-> 0, part |-> 0, whole |-> TRUE]
\* chunk.toString(): each chunk is decoded alone, so that a character it cuts is lost.
Decoded(chunk) ==
  [k \in DOMAIN chunk |->
     IF (chunk[k].part = 2 /\ k = Len(chunk)) \/ (chunk[k].part = 3 /\ k = 1)
     THEN [chunk[k] EXCEPT !.whole = FALSE] ELSE chunk[k]]
Complete(line, messages) ==
  /\ Len(line) = 3 /\ line[1].of \in DOMAIN messages
  /\ \A k \in 1 .. 3 : line[k].of = line[1].of /\ line[k].part = k
Garbled(a) == IF a.kind \in {"agent_command_run", "agent_file_edit"} THEN [a EXCEPT !.of = "garbled"] ELSE a
AsRead(activities, whole) == IF whole THEN activities ELSE [k \in DOMAIN activities |-> Garbled(activities[k])]
ReadsLine(s, line, messages, activities) ==
  CASE ~Complete(line, messages) -> s
    [] OTHER -> LET m == messages[line[1].of]
                IN  [s EXCEPT !.session = FirstOf(m.session, @),
                              !.tokens = IF m.type = "result" THEN m.tokens ELSE @,
                              !.cost = IF m.type = "result" /\ m.cost >= 0 THEN m.cost ELSE @,
                              !.told = IF activities
                                       THEN @ \o AsRead(MessageActivities(m), \A k \in 1 .. 3 : line[k].whole) ELSE @]
ReadsPiece(s, piece, messages) ==
  IF piece = EndOfLine THEN [ReadsLine(s, s.line, messages, TRUE) EXCEPT !.line = <<>>]
  ELSE [s EXCEPT !.line = Append(@, piece)]
MutReadsChunk(s, chunk, messages) ==
  FoldLeft(LAMBDA t, piece : ReadsPiece(t, piece, messages), [s EXCEPT !.line = <<>>], Decoded(chunk))
\* the data handler: what follows the last line is kept for the next chunk
ReadsChunk(s, chunk, messages) ==
  FoldLeft(LAMBDA t, piece : ReadsPiece(t, piece, messages), s, Decoded(chunk))
\* finish: the rest is the final result's line, whose activities are not reported
NothingRead == [line |-> <<>>, session |-> "", tokens |-> 0, cost |-> -1, told |-> <<>>]
Streamed(chunks, messages) ==
  LET read == FoldLeft(LAMBDA s, chunk : ReadsChunk(s, chunk, messages), NothingRead, chunks)
  IN  [ReadsLine(read, read.line, messages, FALSE) EXCEPT !.line = <<>>]
\* However the output was cut into chunks, the session, the tokens and the cost are those
\* of the messages, whether or not the last line ends, and every activity is reported; but
\* only where no cut goes through a character is it reported with what it was of.
StreamTrue(chunks, messages, ends, read) ==
  LET results  == SelectSeq(messages, LAMBDA m : m.type = "result")
      charged  == SelectSeq(results, LAMBDA m : m.cost >= 0)
      named    == SelectSeq(messages, LAMBDA m : m.session # "")
      ended    == IF ends THEN messages ELSE SubSeq(messages, 1, Len(messages) - 1)
      unbroken(i) == \A k \in DOMAIN chunks : ~(Last(chunks[k]).of = i /\ Last(chunks[k]).part = 2)
  IN  /\ read.session = IF named = <<>> THEN "" ELSE Last(named).session
      /\ read.tokens = IF results = <<>> THEN 0 ELSE Last(results).tokens
      /\ read.cost = IF charged = <<>> THEN -1 ELSE Last(charged).cost
      /\ read.told = FlattenSeq([i \in DOMAIN ended |-> AsRead(MessageActivities(ended[i]), unbroken(i))])

-----------------------------------------------------------------------------
\* An event of a Codex turn is [type, item, tokens], an item [id, type, command, paths,
\* path, tool, text].
\* extractSdkGuardrailToolCalls
ItemCalls(item) ==
  CASE item.type = "command_execution" -> IF item.command = "" THEN <<>> ELSE <<Call("command_execution", item.command, "")>>
    [] item.type = "file_change" -> [i \in DOMAIN item.paths |-> Call("file_change", "", item.paths[i])]
    [] OTHER -> <<>>
\* extractSdkActivityEvents
ItemActivities(item) ==
  CASE item.type = "file_change" -> [i \in DOMAIN item.paths |-> Activity(Call("", "", item.paths[i]))]
    [] OTHER -> IF FirstOf(FirstOf(item.command, item.path), item.tool) # ""
                THEN <<Activity(Call(item.tool, item.command, item.path))>>
                ELSE IF item.type \in {"thought", "reasoning"} THEN <<Thought(item.type)>> ELSE <<>>
\* consumeSdkStreamedTurn: an item stands where it was first heard of, as last told.
WithItem(items, item) ==
  LET at == {i \in DOMAIN items : items[i].id = item.id}
  IN  IF at = {} THEN Append(items, item) ELSE [items EXCEPT ![Min(at)] = item]
CodexTakes(guards, s, e) ==
  IF s.stopped THEN s
  ELSE CASE e.type = "turn.completed" -> [s EXCEPT !.result = <<e.tokens>>]
    [] e.type \in {"turn.failed", "error"} -> [s EXCEPT !.stopped = TRUE, !.items = <<>>]
    [] OTHER ->
       LET bad == IF e.type = "item.started" THEN Violations(guards, ItemCalls(e.item)) ELSE <<>>
           t   == [s EXCEPT !.items = WithItem(@, e.item),
                            !.response = IF e.item.type = "agent_message" THEN FirstOf(e.item.text, @) ELSE @]
       IN  IF bad = <<>> THEN t
           ELSE [t EXCEPT !.told = Append(@, Blocked(bad[1])), !.items = <<>>, !.stopped = TRUE]
\* captureSdkTurnTelemetry: the activities are reported once the turn is over
CodexSdk(guards, events) ==
  LET turn == FoldLeft(LAMBDA s, e : CodexTakes(guards, s, e), NoTurn, events)
  IN  IF turn.stopped THEN turn
      ELSE [turn EXCEPT !.told = FlattenSeq([i \in DOMAIN turn.items |-> ItemActivities(turn.items[i])])]
\* A Codex turn stops for what is started only, and says at its end what its items became.
CodexTrue(guards, events, turn) ==
  LET started == SelectSeq(events, LAMBDA e : e.type = "item.started")
      items   == SelectSeq(events, LAMBDA e : e.type \in {"item.started", "item.updated", "item.completed"})
      fails   == \E i \in DOMAIN events : events[i].type \in {"turn.failed", "error"}
      blocks  == SelectSeq(turn.told, LAMBDA a : a.kind = "agent_guardrail_block")
      final(i) == \A j \in DOMAIN items : j > i => items[j].item.id # items[i].item.id
  IN  /\ ~fails => (turn.stopped <=> \E i \in DOMAIN started : Violations(guards, ItemCalls(started[i].item)) # <<>>)
      /\ Len(blocks) <= 1 /\ (blocks # <<>> => turn.stopped /\ turn.told = blocks)
      /\ ~turn.stopped => \A i \in DOMAIN items :
           ToSet(ItemActivities(items[i].item)) \subseteq ToSet(turn.told) \/ ~final(i)
      /\ ~turn.stopped => ToSet(turn.told) = UNION {ToSet(ItemActivities(items[i].item)) : i \in {i \in DOMAIN items : final(i)}}

-----------------------------------------------------------------------------
\* parseTokenUsage, extractProcessUsage, parseRuntimeId: a line of the output of a process
\* is [json, tokens, used, thread], tokens those of its usage and used the legacy field, -1
\* where it has none, thread what a thread.started line names.
LineUsage(l) == CASE ~l.json -> -1 [] OTHER -> IF l.tokens > 0 THEN l.tokens ELSE l.used
ParseTokenUsage(lines, word) ==
  LET with == SelectSeq(lines, LAMBDA l : LineUsage(l) >= 0)
  IN  IF with = <<>> THEN word ELSE FoldLeft(LAMBDA n, l : n + LineUsage(l), 0, with)
ParseRuntimeId(codex, lines) ==
  LET with == SelectSeq(lines, LAMBDA l : l.json /\ l.thread # "")
  IN  IF ~codex \/ with = <<>> THEN "" ELSE Head(with).thread
ExtractProcessUsage(lines) ==
  LET with == SelectSeq(lines, LAMBDA l : l.json /\ l.tokens >= 0) IN IF with = <<>> THEN -1 ELSE Last(with).tokens
\* What a step is charged is never less than what its record says it used, and a run is
\* known by the thread its output names first.
UsageTrue(codex, lines, word) ==
  /\ ParseTokenUsage(lines, word) >= ExtractProcessUsage(lines)
  /\ codex => \A i \in DOMAIN lines : lines[i].json /\ lines[i].thread # "" => ParseRuntimeId(codex, lines) # ""
=============================================================================
