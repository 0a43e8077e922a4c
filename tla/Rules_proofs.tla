----------------------------- MODULE Rules_proofs -----------------------------
\* Proofs about a page of the monitor that watches a run, for any order of its messages, and
\* about what the program decides from one input: the polls of a pull request, the rate
\* limiter, the ingestion service and the intake of webhooks, for any inputs of any length.
EXTENDS Rules, SequenceTheorems, FiniteSetTheorems, WellFoundedInduction, TLAPS

-----------------------------------------------------------------------------
\* A page that watches a run: types.

Ordinals == Nat \ {0}
EventsFor(r) == {r} \X Ordinals
AskType == [key : Nat, run : Runs, status : Seq([Runs -> Nat]), events : Seq(Seq(Runs \X Ordinals))]
MessageType == ({"event"} \X (Runs \X Ordinals)) \cup ({"runs"} \X [Runs -> Nat])
AnyClient == Clients \cup {""}
PageType == [client : AnyClient, run : Runs, key : Nat, status : [Runs -> Nat],
             events : Seq(Runs \X Ordinals), timer : BOOLEAN]
StreamType == [open : BOOLEAN, offset : [Runs -> Nat], last : {<<>>} \cup (Runs \X Ordinals),
               queue : Seq(MessageType)]
FeedType ==
  /\ log \in [Runs -> Nat]
  /\ page \in PageType
  /\ stream \in StreamType
  /\ asks \in Seq(AskType)

\* The requests a page may have made: an answer it takes is of the run it shows.
AskFor(client, key, run) ==
  {a \in AskType : /\ a.events # NoAnswer => a.events[1] \in Seq(EventsFor(a.run))
                   /\ a.key <= key
                   /\ (client = "detail" => a.key = key) => a.run = run}
\* The database's cursor is at a row there is, and its rows are whole.
ReadInv ==
  /\ stream.last # <<>> => stream.last[2] <= Lines(log[stream.last[1]])
  /\ backend = "db" => \A r \in Runs : /\ log[r] = 2 * Lines(log[r])
                                       /\ stream.offset[r] = 2 * Lines(stream.offset[r])
\* What a page shows, has asked for and will hear is of its run.
PageInv ==
  /\ page.events \in Seq(EventsFor(page.run))
  /\ asks \in Seq(AskFor(page.client, page.key, page.run))
  /\ page.client = "detail" => stream.queue \in Seq({"event"} \X EventsFor(page.run))
FeedInv == FeedType /\ ReadInv /\ PageInv

-----------------------------------------------------------------------------
\* Sequences.

\* An element taken out leaves a sequence over the same set.
LEMMA Removed ==
  ASSUME NEW S, NEW s \in Seq(S), NEW i \in DOMAIN s
  PROVE  RemoveAt(s, i) \in Seq(S)
<1>1. i \in 1 .. Len(s) /\ Len(s) \in Nat BY LenProperties
<1>2. SubSeq(s, 1, i - 1) \in Seq(S) BY <1>1, SubSeqProperties
<1>3. SubSeq(s, i + 1, Len(s)) \in Seq(S) BY <1>1, SubSeqProperties
<1> QED BY <1>2, <1>3, ConcatProperties DEF RemoveAt

\* An element of one set put in the place of another.
LEMMA Replaced ==
  ASSUME NEW S, NEW s \in Seq(S), NEW i \in DOMAIN s, NEW e \in S
  PROVE  [s EXCEPT ![i] = e] \in Seq(S)
BY ExceptSeq, LenProperties

\* The events from one on are a sequence of events of the run; it has a last one if the
\* first is there.
LEMMA EventsFrom ==
  ASSUME NEW r \in Runs, log \in [Runs -> Nat], NEW from \in Ordinals
  PROVE  LET new == SubSeq(EventsOf(r), from, Content[r])
         IN  /\ new \in Seq(EventsFor(r))
             /\ from <= Lines(log[r]) => Last(new) = <<r, Lines(log[r])>> /\ Lines(log[r]) \in Ordinals
<1> DEFINE n == Lines(log[r])
           new == SubSeq(EventsOf(r), from, n)
<1>1. n \in Nat /\ Content[r] = n /\ from \in Nat /\ from >= 1 BY DEF Lines, Content, Ordinals
<1>2. \A k \in 1 .. n : EventsOf(r)[k] = <<r, k>> /\ EventsOf(r)[k] \in EventsFor(r)
  BY <1>1 DEF EventsOf, EventsFor, Ordinals
<1> HIDE DEF n
<1>3. /\ new \in Seq(EventsFor(r))
      /\ Len(new) = IF from <= n THEN n - from + 1 ELSE 0
      /\ \A i \in 1 .. n - from + 1 : new[i] = EventsOf(r)[from + i - 1]
  BY <1>1, <1>2, SubSeqProperties
<1>4. ASSUME from <= n PROVE Last(new) = <<r, n>> /\ n \in Ordinals
  <2>1. n - from + 1 \in 1 .. n - from + 1 /\ from + (n - from + 1) - 1 = n /\ n \in 1 .. n BY <1>1, <1>4
  <2>2. new[n - from + 1] = EventsOf(r)[n] BY <1>3, <2>1
  <2>3. Last(new) = <<r, n>> BY <1>2, <1>3, <1>4, <2>1, <2>2 DEF Last
  <2> QED BY <1>1, <1>4, <2>3 DEF Ordinals
<1> QED BY <1>1, <1>3, <1>4 DEF n

-----------------------------------------------------------------------------
\* The actions.

\* A request the page makes now.
LEMMA AskNow ==
  ASSUME FeedInv
  PROVE  Ask \in AskType /\ Ask \in AskFor(page.client, page.key, page.run)
<1>1. page \in PageType BY DEF FeedInv, FeedType
<1>2. Ask.events = NoAnswer /\ Ask.key = page.key /\ Ask.run = page.run BY DEF Ask
<1>3. Ask \in AskType
  <2>1. NoAnswer \in Seq([Runs -> Nat]) /\ NoAnswer \in Seq(Seq(Runs \X Ordinals)) BY EmptySeq DEF NoAnswer
  <2>2. page.key \in Nat /\ page.run \in Runs BY <1>1 DEF PageType
  <2> DEFINE Statuses1 == Seq([Runs -> Nat])
             Events1 == Seq(Seq(Runs \X Ordinals))
  <2>3. NoAnswer \in Statuses1 /\ NoAnswer \in Events1 BY <2>1
  <2>4. AskType = [key : Nat, run : Runs, status : Statuses1, events : Events1] BY DEF AskType
  <2> HIDE DEF Statuses1, Events1
  <2> QED BY <2>2, <2>3, <2>4 DEF Ask
<1>4. page.key <= page.key
  <2>1. page.key \in Nat BY <1>1 DEF PageType
  <2> QED BY <2>1
<1> QED BY <1>2, <1>3, <1>4 DEF AskFor

\* And asks for it.
LEMMA AskMade ==
  ASSUME FeedInv
  PROVE  Append(asks, Ask) \in Seq(AskType) /\ Append(asks, Ask) \in Seq(AskFor(page.client, page.key, page.run))
<1>1. asks \in Seq(AskType) /\ asks \in Seq(AskFor(page.client, page.key, page.run))
  BY Zenon DEF FeedInv, FeedType, PageInv
<1>2. Ask \in AskType /\ Ask \in AskFor(page.client, page.key, page.run) BY AskNow
<1>3. Append(asks, Ask) \in Seq(AskType) BY <1>1, <1>2, AppendProperties
<1>4. Append(asks, Ask) \in Seq(AskFor(page.client, page.key, page.run)) BY <1>1, <1>2, AppendProperties
<1> QED BY <1>3, <1>4, Zenon

\* What the database's cursor is before depends on the log only by what is whole.
LEMMA ReadKept ==
  ASSUME FeedInv, stream'.last \in {<<>>, stream.last},
         stream'.offset = stream.offset \/ stream'.offset = log \/ stream'.offset = Unread,
         log' = log, backend' = backend
  PROVE  ReadInv'
<1>1. CASE backend = "db"
  <2>1. \A r \in Runs : Unread[r] = 2 * Lines(Unread[r]) BY DEF Unread, Lines
  <2>2. \A r \in Runs : log[r] = 2 * Lines(log[r]) /\ stream.offset[r] = 2 * Lines(stream.offset[r])
    BY <1>1 DEF FeedInv, ReadInv
  <2>3. \A r \in Runs : stream'.offset[r] = 2 * Lines(stream'.offset[r]) BY <2>1, <2>2
  <2> QED BY <2>2, <2>3 DEF FeedInv, ReadInv, Lines
<1>2. CASE backend # "db" BY <1>2 DEF FeedInv, ReadInv, Lines
<1> QED BY <1>1, <1>2

\* A run writes, or has an event stored: who listens gets it.
LEMMA AppendsFeed ==
  ASSUME FeedInv, NEW r \in Runs, Appends(r)
  PROVE  FeedInv'
<1>1. /\ log' = [log EXCEPT ![r] = IF backend = "file" THEN @ + 1 ELSE @ + 2]
      /\ UNCHANGED <<backend, asks, page, faults>>
  BY DEF Appends
<1>2. log \in [Runs -> Nat] /\ stream \in StreamType /\ page \in PageType BY DEF FeedInv, FeedType
<1>3. log' \in [Runs -> Nat] BY <1>1, <1>2
<1>4. \A q \in Runs : Lines(log[q]) <= Lines(log'[q])
  <2> TAKE q \in Runs
  <2>1. log[q] \in Nat /\ log'[q] \in Nat /\ log[q] <= log'[q] BY <1>1, <1>2, <1>3
  <2> QED BY <2>1 DEF Lines
<1>5. backend = "db" => \A q \in Runs : log'[q] = 2 * Lines(log'[q])
  <2> SUFFICES ASSUME backend = "db", NEW q \in Runs PROVE log'[q] = 2 * Lines(log'[q]) OBVIOUS
  <2>1. log[q] \in Nat /\ log[q] = 2 * Lines(log[q]) BY <1>2 DEF FeedInv, ReadInv
  <2>2. log'[q] = log[q] \/ log'[q] = log[q] + 2 BY <1>1, <1>2
  <2> QED BY <2>1, <2>2 DEF Lines
<1>6. \A q \in Runs : Lines(log[q]) \in Nat /\ Lines(log'[q]) \in Nat BY <1>2, <1>3 DEF Lines
<1>7. CASE UNCHANGED stream
  <2>1. ReadInv'
    <3>1. stream.last # <<>> => stream.last \in Runs \X Ordinals BY <1>2 DEF StreamType
    <3>2. stream.last # <<>> => stream.last[2] <= Lines(log'[stream.last[1]])
      BY <1>4, <1>6, <3>1 DEF FeedInv, ReadInv, Ordinals
    <3> QED BY <1>1, <1>5, <1>7, <3>2 DEF FeedInv, ReadInv, Lines
  <2> QED BY <1>1, <1>3, <1>7, <2>1 DEF FeedInv, FeedType, PageInv
<1>8. CASE backend = "redis" /\ r \in Watched /\ stream' = [stream EXCEPT !.queue = Append(@, <<"event", <<r, Lines(log'[r])>>>>)]
  <2> DEFINE m == <<"event", <<r, Lines(log'[r])>>>>
  <2>1. Lines(log'[r]) \in Ordinals
    <3>1. log[r] \in Nat /\ log'[r] = log[r] + 2 BY <1>1, <1>2, <1>8
    <3> QED BY <3>1 DEF Lines, Ordinals
  <2>2. m \in MessageType BY <2>1 DEF MessageType
  <2>3. page.client = "detail" => m \in {"event"} \X EventsFor(page.run)
    <3>1. page.client # "list" => r = page.run BY <1>8 DEF Watched
    <3> QED BY <2>1, <3>1 DEF EventsFor
  <2> HIDE DEF m
  <2>4. stream.queue \in Seq(MessageType) BY <1>2 DEF StreamType
  <2>5. Append(stream.queue, m) \in Seq(MessageType) BY <2>2, <2>4, AppendProperties
  <2>6. stream' = [stream EXCEPT !.queue = Append(stream.queue, m)] BY <1>2, <1>8 DEF m, StreamType
  <2>7. stream' \in StreamType /\ stream'.queue = Append(stream.queue, m) BY <1>2, <2>5, <2>6 DEF StreamType
  <2>8. page.client = "detail" => stream'.queue \in Seq({"event"} \X EventsFor(page.run))
    BY <2>3, <2>7, AppendProperties DEF FeedInv, PageInv
  <2>9. backend # "db" /\ stream'.last = stream.last BY <1>2, <1>8, <2>6 DEF StreamType
  <2>10. ReadInv'
    <3>1. stream.last # <<>> => stream.last \in Runs \X Ordinals BY <1>2 DEF StreamType
    <3>2. stream.last # <<>> => stream.last[2] <= Lines(log'[stream.last[1]])
      BY <1>4, <1>6, <3>1 DEF FeedInv, ReadInv, Ordinals
    <3> QED BY <1>1, <2>9, <3>2 DEF ReadInv, Lines
  <2> QED BY <1>1, <1>3, <2>7, <2>8, <2>10 DEF FeedInv, FeedType, PageInv
<1> QED BY <1>7, <1>8 DEF Appends

\* What the server has read anew are events of the run.
LEMMA Queued ==
  ASSUME FeedInv, NEW r \in Runs, r \in Watched, NEW new \in Seq(EventsFor(r))
  PROVE  LET more == [i \in DOMAIN new |-> <<"event", new[i]>>]
         IN  /\ stream.queue \o more \in Seq(MessageType)
             /\ page.client = "detail" => stream.queue \o more \in Seq({"event"} \X EventsFor(page.run))
<1> DEFINE more == [i \in DOMAIN new |-> <<"event", new[i]>>]
<1>1. Len(new) \in Nat /\ DOMAIN new = 1 .. Len(new) /\ \A i \in 1 .. Len(new) : new[i] \in EventsFor(r)
  BY LenProperties, ElementOfSeq
<1>2. more \in [1 .. Len(new) -> {"event"} \X EventsFor(r)] BY <1>1
<1>3. more \in Seq({"event"} \X EventsFor(r)) BY <1>1, <1>2, SeqDef
<1> HIDE DEF more
<1>4. {"event"} \X EventsFor(r) \subseteq MessageType BY DEF MessageType, EventsFor
<1>5. more \in Seq(MessageType) BY <1>3, <1>4, SeqMonotonic
<1>6. stream.queue \in Seq(MessageType) BY DEF FeedInv, FeedType, StreamType
<1>7. page.client = "detail" => r = page.run BY DEF Watched
<1> QED BY <1>3, <1>5, <1>6, <1>7, ConcatProperties DEF more, FeedInv, PageInv

\* The server looks at the file.
LEMMA NoticesFeed ==
  ASSUME FeedInv, NEW r \in Runs, NoticesFile(r)
  PROVE  FeedInv'
<1> DEFINE from == (stream.offset[r] + 1) \div 2 + 1
           new == SubSeq(EventsOf(r), from, Content[r])
<1>1. /\ backend = "file" /\ r \in Watched
      /\ stream' = [stream EXCEPT !.queue = @ \o Noticed(r), !.offset[r] = log[r]]
      /\ UNCHANGED <<backend, log, asks, page, faults>>
  BY DEF NoticesFile
<1>2. log \in [Runs -> Nat] /\ stream \in StreamType BY DEF FeedInv, FeedType
<1>3. from \in Ordinals
  <2>1. stream.offset[r] \in Nat BY <1>2 DEF StreamType
  <2> QED BY <2>1 DEF Ordinals
<1>4. new \in Seq(EventsFor(r)) BY <1>2, <1>3, EventsFrom
<1> HIDE DEF from
<1>5. Noticed(r) = [i \in DOMAIN new |-> <<"event", new[i]>>] BY DEF Noticed, from
<1> HIDE DEF new
<1>6. /\ stream.queue \o Noticed(r) \in Seq(MessageType)
      /\ page.client = "detail" => stream.queue \o Noticed(r) \in Seq({"event"} \X EventsFor(page.run))
  BY <1>1, <1>4, <1>5, Queued
<1>7. /\ stream' \in StreamType /\ stream'.last = stream.last /\ stream'.queue = stream.queue \o Noticed(r)
  BY <1>1, <1>2, <1>6 DEF StreamType
<1>8. ReadInv' BY <1>1, <1>7 DEF FeedInv, ReadInv, Lines
<1> QED BY <1>1, <1>6, <1>7, <1>8 DEF FeedInv, FeedType, PageInv

\* The server asks the database.
LEMMA PollsFeed ==
  ASSUME FeedInv, NEW r \in Runs, PollsDatabase(r)
  PROVE  FeedInv'
<1> DEFINE from == IF stream.last # <<>> /\ stream.last[1] = r THEN stream.last[2] ELSE Lines(stream.offset[r]) + 1
           new == SubSeq(EventsOf(r), from, Content[r])
           more == [i \in DOMAIN new |-> <<"event", new[i]>>]
<1>1. /\ backend = "db" /\ r \in Watched
      /\ log[r] > stream.offset[r] \/ (stream.last # <<>> /\ stream.last[1] = r)
      /\ stream' = [stream EXCEPT !.queue = @ \o more, !.offset[r] = log[r], !.last = Last(new)]
      /\ UNCHANGED <<backend, log, asks, page, faults>>
  BY DEF PollsDatabase
<1>2. log \in [Runs -> Nat] /\ stream \in StreamType /\ stream.offset \in [Runs -> Nat]
      /\ stream.last \in {<<>>} \cup (Runs \X Ordinals)
  BY DEF FeedInv, FeedType, StreamType
<1>3. from \in Ordinals /\ from <= Lines(log[r])
  <2>1. CASE stream.last # <<>> /\ stream.last[1] = r
    BY <1>2, <2>1 DEF FeedInv, ReadInv, Ordinals
  <2>2. CASE ~(stream.last # <<>> /\ stream.last[1] = r)
    <3>1. log[r] > stream.offset[r] /\ log[r] \in Nat /\ stream.offset[r] \in Nat BY <1>1, <1>2, <2>2
    <3>2. log[r] = 2 * Lines(log[r]) /\ stream.offset[r] = 2 * Lines(stream.offset[r])
      BY <1>1 DEF FeedInv, ReadInv
    <3>3. Lines(log[r]) \in Nat /\ Lines(stream.offset[r]) \in Nat BY <3>1 DEF Lines
    <3>4. from = Lines(stream.offset[r]) + 1 BY <2>2
    <3> QED BY <3>1, <3>2, <3>3, <3>4 DEF Ordinals
  <2> QED BY <2>1, <2>2
<1> HIDE DEF from
<1>4. new \in Seq(EventsFor(r)) /\ Last(new) = <<r, Lines(log[r])>> /\ Lines(log[r]) \in Ordinals
  BY <1>2, <1>3, EventsFrom
<1> HIDE DEF new
<1>5. /\ stream.queue \o more \in Seq(MessageType)
      /\ page.client = "detail" => stream.queue \o more \in Seq({"event"} \X EventsFor(page.run))
  BY <1>1, <1>4, Queued
<1> HIDE DEF more
<1>6. /\ stream' \in StreamType /\ stream'.last = <<r, Lines(log[r])>>
      /\ stream'.queue = stream.queue \o more /\ stream'.offset = [stream.offset EXCEPT ![r] = log[r]]
  <2> DEFINE q == stream.queue \o more
             l == <<r, Lines(log[r])>>
             o == [stream.offset EXCEPT ![r] = log[r]]
             Queues == Seq(MessageType)
             Lasts == {<<>>} \cup (Runs \X Ordinals)
  <2>1. l \in Lasts /\ q \in Queues /\ o \in [Runs -> Nat] BY <1>2, <1>4, <1>5
  <2>2. stream' = [stream EXCEPT !.queue = q, !.offset = o, !.last = l] BY <1>1, <1>2, <1>4 DEF StreamType
  <2>3. StreamType = [open : BOOLEAN, offset : [Runs -> Nat], last : Lasts, queue : Queues] BY DEF StreamType
  <2> HIDE DEF q, l, o, Queues, Lasts
  <2>4. stream' \in StreamType /\ stream'.last = l /\ stream'.queue = q /\ stream'.offset = o
    BY <1>2, <2>1, <2>2, <2>3
  <2> QED BY <2>4 DEF q, l, o
<1>7. ReadInv'
  <2>1. Lines(log[r]) <= Lines(log[r]) BY <1>4 DEF Ordinals
  <2>2. stream'.last[2] = Lines(log[r]) /\ stream'.last[1] = r BY <1>6
  <2>3. \A q \in Runs : stream'.offset[q] = 2 * Lines(stream'.offset[q])
    <3>1. \A q \in Runs : log[q] = 2 * Lines(log[q]) /\ stream.offset[q] = 2 * Lines(stream.offset[q])
      BY <1>1 DEF FeedInv, ReadInv
    <3> QED BY <1>2, <1>6, <3>1
  <2> QED BY <1>1, <2>1, <2>2, <2>3 DEF FeedInv, ReadInv, Lines
<1> QED BY <1>1, <1>5, <1>6, <1>7 DEF FeedInv, FeedType, PageInv

\* The list of runs that a stream tells.
LEMMA ContentType ==
  ASSUME FeedInv
  PROVE  Content \in [Runs -> Nat] /\ Unread \in [Runs -> Nat] /\ <<"runs", Content>> \in MessageType
<1>1. \A r \in Runs : Lines(log[r]) \in Nat BY DEF FeedInv, FeedType, Lines
<1> QED BY <1>1 DEF Content, Unread, MessageType

\* A stream that is open and one that is not.
LEMMA StreamTypes ==
  ASSUME FeedInv
  PROVE  /\ Opened \in StreamType /\ Opened.last = <<>> /\ Opened.offset = log
         /\ page.client = "detail" => Opened.queue = <<>>
         /\ Closed \in StreamType /\ Closed.last = <<>> /\ Closed.offset = Unread /\ Closed.queue = <<>>
         /\ [Closed EXCEPT !.open = TRUE, !.offset = log] \in StreamType
         /\ [Closed EXCEPT !.open = TRUE, !.offset = log].last = <<>>
         /\ [Closed EXCEPT !.open = TRUE, !.offset = log].queue = <<>>
         /\ [Closed EXCEPT !.open = TRUE, !.offset = log].offset = log
<1>1. log \in [Runs -> Nat] /\ Unread \in [Runs -> Nat] /\ <<"runs", Content>> \in MessageType
  BY ContentType DEF FeedInv, FeedType
<1>2. <<>> \in Seq(MessageType) BY EmptySeq
<1>3. <<<<"runs", Content>>>> \in Seq(MessageType)
  <2>1. <<<<"runs", Content>>>> = Append(<<>>, <<"runs", Content>>) OBVIOUS
  <2> QED BY <1>1, <1>2, <2>1, AppendProperties
<1>4. Opened \in StreamType BY <1>1, <1>2, <1>3 DEF Opened, StreamType
<1>5. Closed \in StreamType BY <1>1, <1>2 DEF Closed, StreamType
<1>6. [Closed EXCEPT !.open = TRUE, !.offset = log] \in StreamType BY <1>1, <1>5 DEF StreamType
<1> QED BY <1>4, <1>5, <1>6 DEF Opened, Closed

\* The stream breaks, and is opened again.
LEMMA BreaksFeed ==
  ASSUME FeedInv, StreamBreaks \/ Reconnects
  PROVE  FeedInv'
<1>1. UNCHANGED <<backend, log, asks, page>> /\ stream' \in {Closed, Opened}
      /\ (stream' = Opened => page.client # "detail")
  BY DEF StreamBreaks, Reconnects, Closed, Opened
<1>2. stream' \in StreamType /\ stream'.last = <<>> /\ (stream'.offset = log \/ stream'.offset = Unread)
  BY <1>1, StreamTypes
<1>3. ReadInv' BY <1>1, <1>2, ReadKept
<1>4. page.client = "detail" => stream'.queue \in Seq({"event"} \X EventsFor(page.run))
  BY <1>1, StreamTypes, EmptySeq
<1> QED BY <1>1, <1>2, <1>3, <1>4 DEF FeedInv, FeedType, PageInv

\* The server tells what runs there are, to pages that show more than one.
LEMMA TellsFeed ==
  ASSUME FeedInv, TellsRuns
  PROVE  FeedInv'
<1>1. /\ page.client # "detail" /\ stream' = [stream EXCEPT !.queue = Append(@, <<"runs", Content>>)]
      /\ UNCHANGED <<backend, log, asks, page, faults>>
  BY DEF TellsRuns
<1>2. stream \in StreamType BY DEF FeedInv, FeedType
<1>3. Append(stream.queue, <<"runs", Content>>) \in Seq(MessageType)
  BY <1>2, ContentType, AppendProperties DEF StreamType
<1>4. stream' \in StreamType /\ stream'.last = stream.last /\ stream'.offset = stream.offset
  BY <1>1, <1>2, <1>3 DEF StreamType
<1>5. ReadInv' BY <1>1, <1>4, ReadKept
<1> QED BY <1>1, <1>4, <1>5 DEF FeedInv, FeedType, PageInv

\* What a step that leaves the server and its stream alone has to show.
LEMMA PageChanged ==
  ASSUME FeedInv, UNCHANGED <<backend, log, stream>>, page' \in PageType, asks' \in Seq(AskType),
         page'.events \in Seq(EventsFor(page'.run)), asks' \in Seq(AskFor(page'.client, page'.key, page'.run)),
         page'.client = page.client, page'.run = page.run
  PROVE  FeedInv'
<1>1. ReadInv' BY DEF FeedInv, ReadInv, Lines
<1>2. FeedType' BY DEF FeedInv, FeedType
<1>3. PageInv' BY DEF FeedInv, PageInv
<1> QED BY <1>1, <1>2, <1>3 DEF FeedInv

\* The page asks again, by its timers.
LEMMA RefreshesFeed ==
  ASSUME FeedInv, TimerFires \/ Refreshes
  PROVE  FeedInv'
<1>1. page \in PageType /\ page.events \in Seq(EventsFor(page.run)) BY DEF FeedInv, FeedType, PageInv
<1>2. /\ UNCHANGED <<backend, log, stream>> /\ asks' = Append(asks, Ask)
      /\ page' \in {page, [page EXCEPT !.timer = FALSE]}
  BY DEF TimerFires, Refreshes, Sends
<1>3. page' \in PageType /\ page'.events = page.events /\ page'.client = page.client
      /\ page'.run = page.run /\ page'.key = page.key
  BY <1>1, <1>2 DEF PageType
<1>4. asks' \in Seq(AskType) /\ asks' \in Seq(AskFor(page'.client, page'.key, page'.run))
  BY <1>2, <1>3, AskMade
<1> QED BY <1>1, <1>2, <1>3, <1>4, PageChanged

\* A message arrives: the detail page shows it and asks, the list shows or asks, and v3
\* sets its timer.
LEMMA HearsFeed ==
  ASSUME FeedInv, Hears
  PROVE  FeedInv'
<1> DEFINE message == Head(stream.queue)
<1>1. /\ page \in PageType /\ page.events \in Seq(EventsFor(page.run)) /\ stream \in StreamType
      /\ stream.queue \in Seq(MessageType) /\ asks \in Seq(AskType)
      /\ asks \in Seq(AskFor(page.client, page.key, page.run))
  BY DEF FeedInv, FeedType, PageInv, StreamType
<1>2. /\ stream.queue # <<>> /\ stream' = [stream EXCEPT !.queue = Tail(@)]
      /\ HearsDetail(message) \/ HearsList(message) \/ HearsV3
  BY DEF Hears
<1>3. Tail(stream.queue) \in Seq(MessageType) /\ message \in MessageType BY <1>1, <1>2, HeadTailProperties
<1>4. page.client = "detail" => /\ Tail(stream.queue) \in Seq({"event"} \X EventsFor(page.run))
                                /\ message \in {"event"} \X EventsFor(page.run)
  BY <1>2, HeadTailProperties DEF FeedInv, PageInv
<1> HIDE DEF message
<1>5. stream' \in StreamType /\ stream'.queue = Tail(stream.queue) /\ stream'.last = stream.last
      /\ stream'.offset = stream.offset
  BY <1>1, <1>2, <1>3 DEF StreamType
<1>6. ASSUME UNCHANGED <<backend, log>>, page' \in PageType, page'.events \in Seq(EventsFor(page.run)),
             page'.client = page.client, page'.run = page.run, page'.key = page.key,
             asks' = asks \/ asks' = Append(asks, Ask)
      PROVE  FeedInv'
  <2>1. asks' \in Seq(AskType) /\ asks' \in Seq(AskFor(page.client, page.key, page.run))
    BY <1>1, <1>6, AskMade
  <2>2. ReadInv' BY <1>5, <1>6, ReadKept
  <2>3. FeedType' BY <1>5, <1>6, <2>1 DEF FeedInv, FeedType
  <2>4. PageInv' BY <1>4, <1>5, <1>6, <2>1 DEF PageInv
  <2> QED BY <2>2, <2>3, <2>4 DEF FeedInv
<1>7. CASE HearsDetail(message)
  <2>1. /\ page.client = "detail" /\ page' = [page EXCEPT !.events = Append(@, message[2])]
        /\ asks' = Append(asks, Ask) /\ UNCHANGED <<backend, log>>
    BY <1>7 DEF HearsDetail, Sends
  <2>2. message[2] \in EventsFor(page.run) BY <1>4, <2>1
  <2>3. Append(page.events, message[2]) \in Seq(EventsFor(page.run)) BY <1>1, <2>2, AppendProperties
  <2>4. EventsFor(page.run) \subseteq Runs \X Ordinals BY <1>1 DEF EventsFor, PageType
  <2>5. Append(page.events, message[2]) \in Seq(Runs \X Ordinals) BY <2>3, <2>4, SeqMonotonic
  <2> DEFINE es == Append(page.events, message[2])
             Es == Seq(Runs \X Ordinals)
  <2>6. page' = [page EXCEPT !.events = es] /\ es \in Es BY <1>1, <2>1, <2>5 DEF PageType
  <2>7. PageType = [client : AnyClient, run : Runs, key : Nat, status : [Runs -> Nat],
                    events : Es, timer : BOOLEAN] BY DEF PageType
  <2> HIDE DEF es, Es
  <2>8. page' \in PageType /\ page'.events = es /\ page'.client = page.client /\ page'.run = page.run
        /\ page'.key = page.key
    BY <1>1, <2>6, <2>7
  <2>9. page'.events \in Seq(EventsFor(page.run)) BY <2>3, <2>8 DEF es
  <2> QED BY <1>6, <2>1, <2>8, <2>9
<1>8. CASE HearsList(message)
  <2>1. CASE message[1] = "runs"
    <3>1. page' = [page EXCEPT !.status = message[2]] /\ asks' = asks /\ UNCHANGED <<backend, log>>
      BY <1>8, <2>1 DEF HearsList, Sends
    <3>2. message[2] \in [Runs -> Nat] BY <1>3, <2>1 DEF MessageType
    <3>3. page' \in PageType /\ page'.events = page.events /\ page'.client = page.client
          /\ page'.run = page.run /\ page'.key = page.key
      BY <1>1, <3>1, <3>2 DEF PageType
    <3> QED BY <1>1, <1>6, <3>1, <3>3
  <2>2. CASE message[1] # "runs"
    <3>1. asks' = Append(asks, Ask) /\ UNCHANGED <<backend, log, page>>
      BY <1>8, <2>2 DEF HearsList, Sends
    <3> QED BY <1>1, <1>6, <3>1
  <2> QED BY <2>1, <2>2
<1>9. CASE HearsV3
  <2>1. page' = [page EXCEPT !.timer = TRUE] /\ asks' = asks /\ UNCHANGED <<backend, log>>
    BY <1>9 DEF HearsV3, Sends
  <2>2. page' \in PageType /\ page'.events = page.events /\ page'.client = page.client
        /\ page'.run = page.run /\ page'.key = page.key
    BY <1>1, <2>1 DEF PageType
  <2> QED BY <1>1, <1>6, <2>1, <2>2
<1> QED BY <1>2, <1>7, <1>8, <1>9

\* A request under way.
LEMMA AskAt ==
  ASSUME FeedInv, NEW i \in DOMAIN asks
  PROVE  asks[i] \in AskType /\ asks[i] \in AskFor(page.client, page.key, page.run)
<1>1. i \in 1 .. Len(asks) BY LenProperties DEF FeedInv, FeedType
<1>2. asks[i] \in AskType BY <1>1, ElementOfSeq DEF FeedInv, FeedType
<1>3. asks[i] \in AskFor(page.client, page.key, page.run) BY <1>1, ElementOfSeq DEF FeedInv, PageInv
<1> QED BY <1>2, <1>3

\* The server answers one of the two requests.
LEMMA AnswersFeed ==
  ASSUME FeedInv, NEW i \in DOMAIN asks, AnswersRun(i) \/ AnswersEvents(i)
  PROVE  FeedInv'
<1> DEFINE a == asks[i]
           For == AskFor(page.client, page.key, page.run)
           Statuses1 == Seq([Runs -> Nat])
           Events1 == Seq(Seq(Runs \X Ordinals))
<1>1. /\ page \in PageType /\ page.events \in Seq(EventsFor(page.run))
      /\ asks \in Seq(AskType) /\ asks \in Seq(For)
  BY DEF FeedInv, FeedType, PageInv
<1>2. a \in AskType /\ a \in For BY AskAt
<1>3. UNCHANGED <<backend, log, stream, page>> BY DEF AnswersRun, AnswersEvents, Sends
<1>4. AskType = [key : Nat, run : Runs, status : Statuses1, events : Events1] BY DEF AskType
<1>5. ASSUME NEW b, asks' = [asks EXCEPT ![i] = b], b \in AskType, b \in For PROVE FeedInv'
  <2> HIDE DEF For
  <2>1. asks' \in Seq(AskType) BY <1>1, <1>5, Replaced
  <2>2. asks' \in Seq(For) BY <1>1, <1>5, Replaced
  <2>3. asks' \in Seq(AskFor(page'.client, page'.key, page'.run)) BY <1>3, <2>2 DEF For
  <2> QED BY <1>1, <1>3, <2>1, <2>3, PageChanged
<1>6. CASE AnswersRun(i)
  <2> DEFINE s == <<About(a.run)>>
             b == [a EXCEPT !.status = s]
  <2>1. asks' = [asks EXCEPT ![i] = b] BY <1>6 DEF AnswersRun, Sends
  <2>2. s \in Statuses1
    <3>1. a.run \in Runs BY <1>2, <1>4
    <3>2. About(a.run) \in [Runs -> Nat] BY <3>1, ContentType DEF About
    <3>3. s = Append(<<>>, About(a.run)) /\ <<>> \in Seq([Runs -> Nat]) BY EmptySeq
    <3> QED BY <3>2, <3>3, AppendProperties
  <2> HIDE DEF s, Statuses1, Events1
  <2>3. b \in AskType /\ b.key = a.key /\ b.run = a.run /\ b.events = a.events BY <1>2, <1>4, <2>2
  <2>4. b \in For BY <1>2, <2>3 DEF AskFor
  <2> HIDE DEF b
  <2> QED BY <1>5, <2>1, <2>3, <2>4
<1>7. CASE AnswersEvents(i)
  <2> DEFINE e == EventsOf(a.run)
             s == <<e>>
             b == [a EXCEPT !.events = s]
  <2>1. asks' = [asks EXCEPT ![i] = b] BY <1>7 DEF AnswersEvents, Sends
  <2>2. a.run \in Runs BY <1>2, <1>4
  <2>3. e \in Seq(EventsFor(a.run))
    <3>1. Content[a.run] \in Nat BY <2>2, ContentType
    <3>2. e \in [1 .. Content[a.run] -> EventsFor(a.run)] BY <3>1 DEF EventsOf, EventsFor, Ordinals
    <3> QED BY <3>1, <3>2, SeqDef
  <2>4. EventsFor(a.run) \subseteq Runs \X Ordinals BY <2>2 DEF EventsFor
  <2>5. e \in Seq(Runs \X Ordinals) BY <2>3, <2>4, SeqMonotonic
  <2>6. s \in Events1
    <3>1. s = Append(<<>>, e) /\ <<>> \in Seq(Seq(Runs \X Ordinals)) BY EmptySeq
    <3> HIDE DEF e
    <3> QED BY <2>5, <3>1, AppendProperties
  <2>7. s[1] = e OBVIOUS
  <2> HIDE DEF s, e, Statuses1, Events1
  <2>8. b \in AskType /\ b.key = a.key /\ b.run = a.run /\ b.events = s BY <1>2, <1>4, <2>6
  <2>9. b \in For BY <1>2, <2>3, <2>7, <2>8 DEF AskFor
  <2> HIDE DEF b
  <2> QED BY <1>5, <2>1, <2>8, <2>9
<1> QED BY <1>6, <1>7

\* An answer arrives: it is shown if it is of the run the page is about.
LEMMA ArrivesFeed ==
  ASSUME FeedInv, NEW i \in DOMAIN asks, Arrives(i) \/ RequestFails(i)
  PROVE  FeedInv'
<1> DEFINE a == asks[i]
           For == AskFor(page.client, page.key, page.run)
<1>1. /\ page \in PageType /\ page.events \in Seq(EventsFor(page.run))
      /\ asks \in Seq(AskType) /\ asks \in Seq(For)
  BY DEF FeedInv, FeedType, PageInv
<1>2. a \in AskType /\ a \in For BY AskAt
<1>3. /\ UNCHANGED <<backend, log, stream>> /\ asks' = RemoveAt(asks, i)
      /\ \/ page' = page
         \/ /\ NoAnswer \notin {a.status, a.events} /\ Current(a)
            /\ page' = [page EXCEPT !.status = a.status[1], !.events = a.events[1]]
  BY DEF Arrives, RequestFails, Sends
<1>4. asks' \in Seq(AskType) BY <1>1, <1>3, Removed
<1>5. asks' \in Seq(For)
  <2> HIDE DEF For
  <2> QED BY <1>1, <1>3, Removed
<1>6. CASE page' = page BY <1>1, <1>3, <1>4, <1>5, <1>6, PageChanged
<1>7. CASE /\ NoAnswer \notin {a.status, a.events} /\ Current(a)
           /\ page' = [page EXCEPT !.status = a.status[1], !.events = a.events[1]]
  <2> DEFINE s == a.status[1]
             e == a.events[1]
             Es == Seq(Runs \X Ordinals)
  <2>1. s \in [Runs -> Nat]
    <3>1. a.status \in Seq([Runs -> Nat]) /\ a.status # <<>> BY <1>2, <1>7 DEF AskType, NoAnswer
    <3>2. Len(a.status) \in Nat \ {0} BY <3>1, EmptySeq
    <3>3. 1 \in 1 .. Len(a.status) BY <3>2
    <3> QED BY <3>1, <3>3, ElementOfSeq
  <2>2. a.run = page.run /\ e \in Seq(EventsFor(page.run))
    BY <1>2, <1>7 DEF AskFor, Current, NoAnswer
  <2>3. EventsFor(page.run) \subseteq Runs \X Ordinals BY <1>1 DEF EventsFor, PageType
  <2>4. e \in Es BY <2>2, <2>3, SeqMonotonic
  <2>5. page' = [page EXCEPT !.status = s, !.events = e] BY <1>7
  <2>6. PageType = [client : AnyClient, run : Runs, key : Nat, status : [Runs -> Nat],
                    events : Es, timer : BOOLEAN] BY DEF PageType
  <2> HIDE DEF a, s, e, Es
  <2>7. page' \in PageType /\ page'.events = e /\ page'.client = page.client /\ page'.run = page.run
        /\ page'.key = page.key
    BY <1>1, <2>1, <2>4, <2>5, <2>6
  <2> QED BY <1>3, <1>4, <1>5, <2>2, <2>7, PageChanged
<1> QED BY <1>3, <1>6, <1>7

\* The detail page goes to another run: what it has asked for before is not for it.
LEMMA SwitchesFeed ==
  ASSUME FeedInv, NEW r \in Runs, Switches(r)
  PROVE  FeedInv'
<1> DEFINE b == [Ask EXCEPT !.key = page.key + 1, !.run = r]
           For == AskFor(page.client, page.key + 1, r)
<1>1. /\ page \in PageType /\ asks \in Seq(AskType) /\ asks \in Seq(AskFor(page.client, page.key, page.run))
  BY DEF FeedInv, FeedType, PageInv
<1>2. /\ page.client = "detail" /\ UNCHANGED <<backend, log>>
      /\ page' = [page EXCEPT !.run = r, !.key = @ + 1, !.status = Unread, !.events = <<>>]
      /\ stream' = [Closed EXCEPT !.open = TRUE, !.offset = log]
      /\ asks' = Append(asks, b)
  BY DEF Switches
<1>3. /\ stream' \in StreamType /\ stream'.last = <<>> /\ stream'.queue = <<>> /\ stream'.offset = log
  BY <1>2, StreamTypes
<1>4. ReadInv' BY <1>2, <1>3, ReadKept
<1> DEFINE Es == Seq(Runs \X Ordinals)
<1>5. PageType = [client : AnyClient, run : Runs, key : Nat, status : [Runs -> Nat],
                  events : Es, timer : BOOLEAN] /\ <<>> \in Es BY EmptySeq DEF PageType
<1> HIDE DEF Es
<1>6. page' \in PageType /\ page'.events = <<>> /\ page'.client = page.client /\ page'.run = r
      /\ page'.key = page.key + 1
  <2>1. page.key \in Nat /\ page.client \in AnyClient /\ page.timer \in BOOLEAN /\ Unread \in [Runs -> Nat]
    BY <1>1, <1>5, ContentType
  <2> DEFINE nothing == <<>>
  <2>2. page' = [client |-> page.client, run |-> r, key |-> page.key + 1, status |-> Unread,
                 events |-> nothing, timer |-> page.timer]
    BY <1>1, <1>2, <1>5
  <2>3. nothing \in Es BY <1>5
  <2> HIDE DEF nothing
  <2>4. page' \in PageType
    <3>1. page.key + 1 \in Nat BY <2>1
    <3>2. Unread \in [Runs -> Nat] /\ r \in Runs BY <2>1
    <3> DEFINE k == page.key + 1
               st == [Runs -> Nat]
    <3> HIDE DEF k, st
    <3>3. k \in Nat /\ Unread \in st BY <3>1, <3>2 DEF k, st
    <3>4. page' = [client |-> page.client, run |-> r, key |-> k, status |-> Unread,
                   events |-> nothing, timer |-> page.timer] BY <2>2 DEF k
    <3>5. PageType = [client : AnyClient, run : Runs, key : Nat, status : st,
                      events : Es, timer : BOOLEAN] BY <1>5 DEF st
    <3> QED BY <2>1, <2>3, <3>2, <3>3, <3>4, <3>5
  <2>5. page'.events = nothing /\ page'.client = page.client /\ page'.run = r /\ page'.key = page.key + 1
    BY <2>2
  <2> QED BY <2>4, <2>5 DEF nothing
<1>7. b \in AskType /\ b.key = page.key + 1 /\ b.run = r /\ b.events = NoAnswer
  <2> DEFINE Statuses1 == Seq([Runs -> Nat])
             Events1 == Seq(Seq(Runs \X Ordinals))
  <2>1. AskType = [key : Nat, run : Runs, status : Statuses1, events : Events1] BY DEF AskType
  <2>2. page.key \in Nat BY <1>1 DEF PageType
  <2>3. Ask \in AskType /\ Ask.events = NoAnswer BY AskNow DEF Ask
  <2> DEFINE k == page.key + 1
  <2>4. k \in Nat BY <2>2
  <2> HIDE DEF Statuses1, Events1, k
  <2>5. [Ask EXCEPT !.key = k, !.run = r] \in AskType BY <2>1, <2>3, <2>4
  <2>6. /\ [Ask EXCEPT !.key = k, !.run = r].key = k /\ [Ask EXCEPT !.key = k, !.run = r].run = r
        /\ [Ask EXCEPT !.key = k, !.run = r].events = Ask.events
    BY <2>1, <2>3
  <2> QED BY <2>3, <2>5, <2>6 DEF k
<1> HIDE DEF b
<1>8. page.key \in Nat BY <1>1 DEF PageType
<1>9. b \in For BY <1>7, <1>8 DEF AskFor
<1>10. AskFor(page.client, page.key, page.run) \subseteq For
  <2> SUFFICES ASSUME NEW x \in AskFor(page.client, page.key, page.run) PROVE x \in For OBVIOUS
  <2>1. x \in AskType /\ x.key <= page.key /\ x.key \in Nat
        /\ (x.events # NoAnswer => x.events[1] \in Seq(EventsFor(x.run)))
    BY DEF AskFor, AskType
  <2>2. x.key <= page.key + 1 /\ x.key # page.key + 1 BY <1>8, <2>1
  <2> QED BY <1>2, <2>1, <2>2 DEF AskFor
<1> HIDE DEF For
<1>11. asks' \in Seq(AskType) BY <1>1, <1>2, <1>7, AppendProperties
<1>12. asks \in Seq(For) BY <1>1, <1>10, SeqMonotonic
<1>13. asks' \in Seq(For) BY <1>2, <1>9, <1>12, AppendProperties
<1>14. FeedType' BY <1>2, <1>3, <1>6, <1>11 DEF FeedInv, FeedType
<1>15. PageInv'
  <2>1. asks' \in Seq(AskFor(page'.client, page'.key, page'.run)) BY <1>6, <1>13 DEF For
  <2>2. page'.events \in Seq(EventsFor(page'.run)) BY <1>6, EmptySeq
  <2>3. stream'.queue \in Seq({"event"} \X EventsFor(page'.run)) BY <1>3, EmptySeq
  <2> QED BY <2>1, <2>2, <2>3 DEF PageInv
<1> QED BY <1>4, <1>14, <1>15 DEF FeedInv

-----------------------------------------------------------------------------
\* A page at first, and no page.
LEMMA FeedAtFirst == FeedInit \/ FeedOff => FeedInv
<1> SUFFICES ASSUME FeedInit \/ FeedOff PROVE FeedInv OBVIOUS
<1>1. log \in [Runs -> Nat] /\ Unread \in [Runs -> Nat]
  <2>1. Unread \in [Runs -> Nat] BY DEF Unread
  <2>2. CASE FeedInit BY <2>1, <2>2 DEF FeedInit
  <2>3. CASE FeedOff BY <2>1, <2>3 DEF FeedOff
  <2> QED BY <2>1, <2>2, <2>3
<1>2. \A r \in Runs : log[r] \in {0, 2} /\ log[r] = 2 * Lines(log[r])
  <2>1. \A r \in Runs : log[r] \in {0, 2} BY DEF FeedInit, FeedOff, Unread
  <2>2. 0 = 2 * Lines(0) /\ 2 = 2 * Lines(2) BY DEF Lines
  <2> QED BY <2>1, <2>2
<1>3. <<>> \in Seq(Runs \X Ordinals) /\ <<>> \in Seq(EventsFor(1)) /\ <<>> \in Seq(AskType)
      /\ <<>> \in Seq(MessageType) /\ <<>> \in Seq({"event"} \X EventsFor(1))
  BY EmptySeq
<1>4. page \in PageType /\ page.run = 1 /\ page.key = 1 /\ page.events = <<>>
  <2> DEFINE Es == Seq(Runs \X Ordinals)
  <2>1. PageType = [client : AnyClient, run : Runs, key : Nat, status : [Runs -> Nat],
                    events : Es, timer : BOOLEAN] BY DEF PageType
  <2>2. <<>> \in Es BY <1>3
  <2> HIDE DEF Es
  <2>3. 1 \in Runs BY PagesAssumption
  <2>4. CASE FeedInit
    <3>1. page \in [client : Clients, run : {1}, key : {1}, status : {Unread}, events : {<<>>}, timer : {FALSE}]
      BY <2>4 DEF FeedInit
    <3> DEFINE nothing == <<>>
    <3>2. page = [client |-> page.client, run |-> 1, key |-> 1, status |-> Unread, events |-> nothing, timer |-> FALSE]
          /\ page.client \in AnyClient
      BY <3>1 DEF AnyClient
    <3>3. nothing \in Es BY <2>2
    <3> HIDE DEF nothing
    <3>4. page \in PageType
      <4>1. PICK c \in AnyClient : page = [client |-> c, run |-> 1, key |-> 1, status |-> Unread,
                                          events |-> nothing, timer |-> FALSE]
        BY <3>2
      <4> QED BY <1>1, <2>1, <2>3, <3>3, <4>1
    <3>5. page.run = 1 /\ page.key = 1 /\ page.events = nothing BY <3>2
    <3> QED BY <3>4, <3>5 DEF nothing
  <2>5. CASE FeedOff
    <3> DEFINE nothing == <<>>
    <3>1. \E c \in AnyClient : page = [client |-> c, run |-> 1, key |-> 1, status |-> Unread,
                                     events |-> nothing, timer |-> FALSE]
      BY <2>5, Zenon DEF FeedOff, AnyClient
    <3>2. nothing \in Es BY <2>2
    <3> HIDE DEF nothing
    <3>3. page \in PageType /\ page.run = 1 /\ page.key = 1 /\ page.events = nothing
      BY <1>1, <2>1, <2>3, <3>1, <3>2
    <3> QED BY <3>3 DEF nothing
  <2> QED BY <2>4, <2>5
<1>5. Content \in [Runs -> Nat]
  <2>1. \A r \in Runs : Lines(log[r]) \in Nat BY <1>1 DEF Lines
  <2> QED BY <2>1 DEF Content
<1>6. /\ stream \in StreamType /\ stream.last = <<>> /\ (stream.offset = log \/ stream.offset = Unread)
      /\ (page.client = "detail" => stream.queue = <<>>)
  <2>1. <<<<"runs", Content>>>> \in Seq(MessageType)
    <3>1. <<"runs", Content>> \in MessageType BY <1>5 DEF MessageType
    <3>2. <<<<"runs", Content>>>> = Append(<<>>, <<"runs", Content>>) OBVIOUS
    <3> QED BY <1>3, <3>1, <3>2, AppendProperties
  <2> DEFINE Queues == Seq(MessageType)
  <2>2. StreamType = [open : BOOLEAN, offset : [Runs -> Nat], last : {<<>>} \cup (Runs \X Ordinals),
                      queue : Queues] BY DEF StreamType
  <2>3. <<>> \in Queues /\ <<<<"runs", Content>>>> \in Queues BY <1>3, <2>1
  <2> HIDE DEF Queues
  <2>4. Opened \in StreamType /\ Opened.last = <<>> /\ Opened.offset = log
        /\ (page.client = "detail" => Opened.queue = <<>>)
    BY <1>1, <2>2, <2>3 DEF Opened
  <2>5. Closed \in StreamType /\ Closed.last = <<>> /\ Closed.offset = Unread /\ Closed.queue = <<>>
    BY <1>1, <2>2, <2>3 DEF Closed
  <2> QED BY <2>4, <2>5 DEF FeedInit, FeedOff
<1>7. ReadInv
  <2>1. \A r \in Runs : Unread[r] = 2 * Lines(Unread[r]) BY DEF Unread, Lines
  <2>2. \A r \in Runs : stream.offset[r] = 2 * Lines(stream.offset[r]) BY <1>2, <1>6, <2>1
  <2> QED BY <1>2, <1>6, <2>2 DEF ReadInv
<1>8. asks \in Seq(AskType) /\ asks \in Seq(AskFor(page.client, page.key, page.run))
  <2>1. CASE asks = <<>> BY <2>1, EmptySeq
  <2>2. CASE asks = <<Ask>>
    <3>1. Ask \in AskType
      <4> DEFINE Statuses1 == Seq([Runs -> Nat])
                 Events1 == Seq(Seq(Runs \X Ordinals))
      <4>1. AskType = [key : Nat, run : Runs, status : Statuses1, events : Events1] BY DEF AskType
      <4>2. NoAnswer \in Statuses1 /\ NoAnswer \in Events1 BY EmptySeq DEF NoAnswer
      <4> HIDE DEF Statuses1, Events1
      <4> QED BY <1>4, <4>1, <4>2, PagesAssumption DEF Ask
    <3>2. Ask.key = page.key /\ Ask.run = page.run /\ Ask.events = NoAnswer BY DEF Ask
    <3>3. Ask \in AskFor(page.client, page.key, page.run) BY <1>4, <3>1, <3>2 DEF AskFor
    <3>4. asks = Append(<<>>, Ask) BY <2>2
    <3>5. <<>> \in Seq(AskType) /\ <<>> \in Seq(AskFor(page.client, page.key, page.run)) BY EmptySeq
    <3>6. asks \in Seq(AskType) BY <3>1, <3>4, <3>5, AppendProperties
    <3>7. asks \in Seq(AskFor(page.client, page.key, page.run)) BY <3>3, <3>4, <3>5, AppendProperties
    <3> QED BY <3>6, <3>7, Zenon
  <2> QED BY <2>1, <2>2 DEF FeedInit, FeedOff
<1>9. FeedType BY <1>1, <1>4, <1>6, <1>8 DEF FeedType
<1>10. PageInv
  <2>1. page.events \in Seq(EventsFor(page.run)) BY <1>4, EmptySeq
  <2>2. page.client = "detail" => stream.queue \in Seq({"event"} \X EventsFor(page.run)) BY <1>6, EmptySeq
  <2> QED BY <1>8, <2>1, <2>2 DEF PageInv
<1> QED BY <1>7, <1>9, <1>10 DEF FeedInv

\* FeedInv is inductive.
LEMMA FeedNextInv == FeedInv /\ (FeedNext \/ UNCHANGED feedVars) => FeedInv'
<1> SUFFICES ASSUME FeedInv, FeedNext \/ UNCHANGED feedVars PROVE FeedInv' OBVIOUS
<1>1. CASE UNCHANGED feedVars
  <2>1. FeedType' BY <1>1 DEF FeedInv, FeedType, feedVars
  <2>2. ReadInv' BY <1>1 DEF FeedInv, ReadInv, feedVars, Lines
  <2>3. PageInv' BY <1>1 DEF FeedInv, PageInv, feedVars
  <2> QED BY <2>1, <2>2, <2>3 DEF FeedInv
<1>2. ASSUME NEW r \in Runs, Appends(r) PROVE FeedInv' BY <1>2, AppendsFeed
<1>3. ASSUME NEW r \in Runs, NoticesFile(r) PROVE FeedInv' BY <1>3, NoticesFeed
<1>4. ASSUME NEW r \in Runs, PollsDatabase(r) PROVE FeedInv' BY <1>4, PollsFeed
<1>5. ASSUME NEW r \in Runs, Switches(r) PROVE FeedInv' BY <1>5, SwitchesFeed
<1>6. CASE TellsRuns BY <1>6, TellsFeed
<1>7. CASE Hears BY <1>7, HearsFeed
<1>8. CASE TimerFires \/ Refreshes BY <1>8, RefreshesFeed
<1>9. CASE StreamBreaks \/ Reconnects BY <1>9, BreaksFeed
<1>10. ASSUME NEW i \in DOMAIN asks, AnswersRun(i) \/ AnswersEvents(i) PROVE FeedInv' BY <1>10, AnswersFeed
<1>11. ASSUME NEW i \in DOMAIN asks, Arrives(i) \/ RequestFails(i) PROVE FeedInv' BY <1>11, ArrivesFeed
<1> QED BY <1>1, <1>2, <1>3, <1>4, <1>5, <1>6, <1>7, <1>8, <1>9, <1>10, <1>11 DEF FeedNext

-----------------------------------------------------------------------------
\* The page as part of the whole.

\* Only a page that watches a run goes on; any other decision leaves it alone.
LEMMA FeedMoves == [Next]_vars => FeedNext \/ UNCHANGED feedVars
BY Zenon DEF Next, vars, Decides, ValidatesPlan, LimitsRate, ServesPosts, SummarisesChecks, WatchesPullRequest,
   TakesHooks, ShowsPage, ListsRuns, ShowsStep, FindsHost, LaunchesRun, StartsDispatch, OwnsVolume, RebuildsRun,
   AsksReview, ChoosesAgent, WarnsOfBudget, PreparesWorkspace, PostsLog, HearsClaude, HearsCodex, ReadsStream,
   CountsTokens, WatchesRun

\* FeedInv holds throughout.
LEMMA FeedInvHolds == Spec => []FeedInv
<1>1. Init => FeedInv BY FeedAtFirst, Zenon DEF Init
<1>2. FeedInv /\ [Next]_vars => FeedInv' BY FeedMoves, FeedNextInv
<1> QED BY <1>1, <1>2, PTL DEF Spec

\* The server, the streams, the requests under way and the page have their types, for any
\* pages, ways to read, numbers of events and bounds.
THEOREM FeedTypeCorrect == Spec => []FeedType
<1>1. FeedInv => FeedType BY DEF FeedInv
<1> QED BY <1>1, FeedInvHolds, PTL

\* useRunDetail, useRuns and v3's refresh: a page shows events of the run it is about only,
\* whatever was asked for before it was gone to and however late that is answered.
THEOREM PagesShowSelected == Spec => []ShowsSelected
<1>1. FeedInv => ShowsSelected
  <2> SUFFICES ASSUME FeedInv, NEW e \in ToSet(page.events) PROVE e[1] = page.run BY DEF ShowsSelected
  <2>1. page.events \in Seq(EventsFor(page.run)) BY DEF FeedInv, PageInv
  <2>2. PICK i \in DOMAIN page.events : e = page.events[i] BY DEF ToSet
  <2>3. e \in EventsFor(page.run) BY <2>1, <2>2, LenProperties, ElementOfSeq
  <2> QED BY <2>3 DEF EventsFor
<1> QED BY <1>1, FeedInvHolds, PTL

-----------------------------------------------------------------------------
\* What is decided of an input.

\* Every input is one of those of its kind.
IsInput(s) ==
  \/ s \in PlanSubjects \/ s \in RateSubjects \/ s \in Posts
  \/ s \in CheckSubjects \/ s \in ReviewSubjects
  \/ s \in Hooks \/ s \in Pages \/ s \in Lists \/ s \in Files \/ s \in Hosts
  \/ s \in Launches \/ s \in Starts \/ s \in Owners
  \/ s \in Resumed \/ s \in Reviewed \/ s \in AgentSettings \/ s \in Budgets
  \/ s \in Stacks \/ s \in Logs
  \/ s \in Talks \/ s \in Turns \/ s \in Streams \/ s \in Outputs
  \/ s = Watching

\* What was decided is what the program decides of the input.
Reported ==
  verdict # <<>> =>
    /\ subject.about = "plan" => verdict[1] = Validate(subject.plan, subject.rules)
    /\ subject.about = "rate" => verdict[1] = Allowed(subject.times, subject.env.window, subject.env.limit)
    /\ subject.about = "posts" => verdict[1] = Serves(subject.requests, subject.limits)
    /\ subject.about = "checks" => verdict[1] = CISummary(subject.ci)
    /\ subject.about = "review" => verdict[1] = Polls(subject.answers, subject.reactions)
    /\ subject.about = "hooks" => verdict[1] = Takes(subject.program, subject.raws, subject.requests, subject.tokens)
    /\ subject.about = "launch" => verdict[1] = Launch(subject)
    /\ subject.about = "owner" => verdict[1] = CreateJob(subject.pvc, subject.exists, subject.uid, subject.others)
DecisionInv == IsInput(subject) /\ Reported

\* What of the input its kind decides.
LEMMA InputKinds ==
  ASSUME NEW s, IsInput(s)
  PROVE  /\ s.about = "plan" => s.plan \in Plans /\ s.rules \in RuleLists
         /\ s.about = "rate" => s \in RateSubjects
         /\ s.about = "posts" => s \in Posts
         /\ s.about = "checks" => s.ci \in Summaries
         /\ s.about = "review" => s.answers \in Answers /\ s.reactions \in Reactions
         /\ s.about = "hooks" => s \in Hooks
         /\ s.about = "launch" => s \in Launches
         /\ s.about = "start" => s \in Starts
         /\ s.about = "owner" => s \in Owners
<1>1. s \in PlanSubjects => s.about = "plan" /\ s.plan \in Plans /\ s.rules \in RuleLists BY DEF PlanSubjects
<1>2. s \in RateSubjects => s.about = "rate" BY DEF RateSubjects
<1>3. s \in CheckSubjects => s.about = "checks" /\ s.ci \in Summaries BY DEF CheckSubjects
<1>4. s \in ReviewSubjects => s.about = "review" /\ s.answers \in Answers /\ s.reactions \in Reactions
  BY DEF ReviewSubjects
<1>5. s = Watching => s.about = "watch" BY DEF Watching
<1>6. \/ s \in PlanSubjects \/ s \in RateSubjects \/ s \in CheckSubjects \/ s \in ReviewSubjects \/ s = Watching
      \/ s \in Posts \/ s \in Hooks \/ s \in Launches \/ s \in Starts \/ s \in Owners
      \/ s.about \in {"page", "list", "files", "host", "rebuild", "review step",
                      "agent", "budget", "stack", "log", "talk", "turn", "stream", "output"}
  <2>1. \/ s \in Pages \/ s \in Lists \/ s \in Files \/ s \in Hosts
          => s.about \in {"page", "list", "files", "host"}
    BY ZenonT(30), AboutAssumption
  <2>2. \/ s \in Resumed \/ s \in Reviewed \/ s \in AgentSettings \/ s \in Budgets \/ s \in Stacks \/ s \in Logs
          => s.about \in {"rebuild", "review step", "agent", "budget", "stack", "log"}
    BY ZenonT(30), AboutAssumption
  <2>3. \/ s \in Talks \/ s \in Turns \/ s \in Streams \/ s \in Outputs => s.about \in {"talk", "turn", "stream", "output"}
    BY AboutAssumption
  <2> QED BY <2>1, <2>2, <2>3 DEF IsInput
<1>7. /\ s \in Posts => s.about = "posts"
      /\ s \in Hooks => s.about = "hooks"
      /\ s \in Launches => s.about = "launch"
      /\ s \in Starts => s.about = "start"
      /\ s \in Owners => s.about = "owner"
  BY ZenonT(30), AboutAssumption
<1> QED BY <1>1, <1>2, <1>3, <1>4, <1>5, <1>6, <1>7

\* A rate limiter whose window and limit are configured has those.
LEMMA ConfiguredLimits ==
  ASSUME NEW env, env \in [window : Windows \cup {Undefined}, limit : Limits \cup {Undefined}]
  PROVE  /\ Loaded(DefaultRateLimit, env, <<>>).window = env.window
         /\ Loaded(DefaultRateLimit, env, <<>>).limit = env.limit
<1>1. DOMAIN <<>> = {} OBVIOUS
<1>2. DOMAIN DefaultRateLimit = {"window", "limit"} BY DEF DefaultRateLimit
<1> QED BY <1>1, <1>2 DEF Loaded

\* Each step decides what is asked, or is of a page.
LEMMA DecisionInvNext == DecisionInv /\ [Next]_vars => DecisionInv'
<1> SUFFICES ASSUME DecisionInv, [Next]_vars PROVE DecisionInv' OBVIOUS
<1>1. subject' = subject
  BY DEF Next, vars, Decides, ValidatesPlan, LimitsRate, ServesPosts, SummarisesChecks, WatchesPullRequest, TakesHooks,
         ShowsPage, ListsRuns, ShowsStep, FindsHost, LaunchesRun, StartsDispatch, OwnsVolume, RebuildsRun, AsksReview,
         ChoosesAgent, WarnsOfBudget, PreparesWorkspace, PostsLog, HearsClaude, HearsCodex, ReadsStream, CountsTokens,
         WatchesRun
<1>2. IsInput(subject') BY <1>1 DEF DecisionInv
<1>3. Reported'
  <2>1. CASE UNCHANGED vars BY <2>1 DEF DecisionInv, Reported, vars
  <2>2. CASE LimitsRate
    <3>1. subject.about = "rate" BY <2>2 DEF LimitsRate, Decides
    <3>2. subject.env \in [window : Windows \cup {Undefined}, limit : Limits \cup {Undefined}]
      BY <3>1, InputKinds DEF DecisionInv, RateSubjects
    <3>3. verdict'[1] = Allowed(subject.times, subject.env.window, subject.env.limit)
      BY <2>2, <3>2, ConfiguredLimits DEF LimitsRate, Decides
    <3> QED BY <1>1, <3>1, <3>3 DEF Reported
  <2>10. CASE ValidatesPlan BY <1>1, <2>10 DEF ValidatesPlan, Decides, Reported
  <2>3. CASE ServesPosts BY <1>1, <2>3 DEF ServesPosts, Decides, Reported
  <2>4. CASE SummarisesChecks BY <1>1, <2>4 DEF SummarisesChecks, Decides, Reported
  <2>5. CASE WatchesPullRequest BY <1>1, <2>5 DEF WatchesPullRequest, Decides, Reported
  <2>6. CASE TakesHooks BY <1>1, <2>6 DEF TakesHooks, Decides, Reported
  <2>11. CASE LaunchesRun BY <1>1, <2>11 DEF LaunchesRun, Decides, Reported
  <2>12. CASE OwnsVolume BY <1>1, <2>12 DEF OwnsVolume, Decides, Reported
  <2>7. CASE WatchesRun BY <1>1, <2>7 DEF WatchesRun, DecisionInv, Reported
  <2>8. ASSUME ~ValidatesPlan, ~LimitsRate, ~ServesPosts, ~SummarisesChecks, ~WatchesPullRequest, ~TakesHooks, ~WatchesRun,
               ~LaunchesRun, ~OwnsVolume, Next
        PROVE  subject.about \notin {"plan", "rate", "posts", "checks", "review", "hooks", "launch", "owner"}
    BY <2>8 DEF Next, Decides, ShowsPage, ListsRuns, ShowsStep, FindsHost, StartsDispatch, RebuildsRun, AsksReview,
         ChoosesAgent, WarnsOfBudget, PreparesWorkspace, PostsLog, HearsClaude, HearsCodex, ReadsStream, CountsTokens
  <2>9. ASSUME subject.about \notin {"plan", "rate", "posts", "checks", "review", "hooks", "launch", "owner"} PROVE Reported'
    BY <1>1, <2>9 DEF Reported
  <2> QED BY <2>1, <2>2, <2>3, <2>4, <2>5, <2>6, <2>7, <2>8, <2>9, <2>10, <2>11, <2>12
<1> QED BY <1>2, <1>3 DEF DecisionInv

\* What is decided is always what the program decides of the input.
LEMMA DecisionInvHolds == Spec => []DecisionInv
<1>1. Init => DecisionInv BY DEF Init, DecisionInv, IsInput, Reported
<1> QED BY <1>1, DecisionInvNext, PTL DEF Spec

-----------------------------------------------------------------------------
\* Sets of numbers.  The order of the natural numbers is well-founded: that gives induction.

\* A set of natural numbers that is not empty has a least element.
LEMMA LeastNumber ==
  ASSUME NEW T, T \subseteq Nat, T # {}
  PROVE  \E x \in T : \A y \in T : x <= y
<1>1. IsWellFoundedOn({ss \in Nat \X Nat : ss[1] < ss[2]}, Nat)
  BY NatLessThanWellFounded DEF OpToRel
<1>2. PICK x \in T : \A y \in T : <<y, x>> \notin {ss \in Nat \X Nat : ss[1] < ss[2]}
  BY <1>1, WFMin
<1>3. ASSUME NEW y \in T PROVE x <= y
  <2>1. y \in Nat /\ x \in Nat OBVIOUS
  <2>2. ~(y < x) BY <1>2, <2>1
  <2> QED BY <2>1, <2>2
<1> QED BY <1>3

\* What holds of 0, and of n + 1 when it holds of n, holds of every natural number: T is the
\* set of the numbers it holds of.
LEMMA Induction ==
  ASSUME NEW T, 0 \in T, \A n \in Nat : n \in T => n + 1 \in T
  PROVE  \A n \in Nat : n \in T
<1>1. SUFFICES ASSUME Nat \ T # {} PROVE FALSE OBVIOUS
<1>2. PICK x \in Nat \ T : \A y \in Nat \ T : x <= y
  <2>1. Nat \ T \subseteq Nat OBVIOUS
  <2> QED BY <1>1, <2>1, LeastNumber
<1>3. x # 0 /\ x - 1 \in Nat /\ ~(x <= x - 1) /\ x = (x - 1) + 1
  BY <1>2
<1>4. x - 1 \in T BY <1>2, <1>3
<1> QED BY <1>2, <1>3, <1>4

\* A set of numbers between 1 and n that is not empty has a greatest element, and Max is it.
LEMMA MaxOfBounded ==
  ASSUME NEW n \in Nat, NEW T \in SUBSET (1 .. n), T # {}
  PROVE  Max(T) \in T /\ \A y \in T : Max(T) >= y
<1> DEFINE D == {n - y : y \in T}
<1>1. D \subseteq Nat /\ D # {}
  <2>1. ASSUME NEW y \in T PROVE n - y \in Nat
    <3>1. y \in 1 .. n OBVIOUS
    <3> QED BY <3>1
  <2> QED BY <2>1
<1>2. PICK d \in D : \A e \in D : d <= e BY <1>1, LeastNumber
<1>3. PICK x \in T : d = n - x BY <1>2
<1>4. ASSUME NEW y \in T PROVE x >= y
  <2>1. n - y \in D /\ x \in 1 .. n /\ y \in 1 .. n OBVIOUS
  <2>2. n - x <= n - y BY <1>2, <1>3, <2>1
  <2> QED BY <2>1, <2>2
<1> QED BY <1>3, <1>4 DEF Max

\* The greatest of numbers up to n + 1 is n + 1 where that is one of them.
LEMMA MaxOfPrefix ==
  ASSUME NEW n \in Nat, NEW T \in SUBSET (1 .. n + 1), n + 1 \in T
  PROVE  Max(T) = n + 1
<1>1. n + 1 \in Nat /\ T # {} OBVIOUS
<1>2. Max(T) \in T /\ \A y \in T : Max(T) >= y BY <1>1, MaxOfBounded
<1>3. Max(T) \in 1 .. n + 1 /\ Max(T) >= n + 1 BY <1>2
<1> QED BY <1>3

-----------------------------------------------------------------------------
\* Summaries.

\* A set of numbers that is not empty has a least element, and Min is it.
LEMMA MinOfNumbers ==
  ASSUME NEW T, T \subseteq Nat, T # {}
  PROVE  Min(T) \in T /\ \A y \in T : Min(T) <= y
<1>1. PICK x \in T : \A y \in T : x <= y BY LeastNumber
<1> QED BY <1>1 DEF Min

\* A summary that is green has nothing in it that is not.
LEMMA GreenSummary == ASSUME NEW ci \in SummaryType PROVE GreenOnly(ci, CISummary(ci))
<1> DEFINE combined == CombinedStatus(ci.status)
           checks == CheckRunsStatus(ci.checks)
<1>1. SUFFICES ASSUME CISummary(ci) = "passing"
               PROVE  /\ \A c \in ToSet(ci.checks) : ~Unfinished(c) /\ ~Failed(c)
                      /\ combined \notin {"failing", "pending"}
                      /\ ci.checks # <<>> \/ combined = "passing"
  BY DEF GreenOnly
<1>2. combined \notin {"failing", "pending"} /\ checks \notin {"failing", "pending"}
      /\ (combined = "passing" \/ checks = "passing")
  <2> HIDE DEF combined, checks
  <2>1. CISummary(ci) = IF "failing" \in {combined, checks} THEN "failing"
                        ELSE IF "pending" \in {combined, checks} THEN "pending"
                        ELSE IF "passing" \in {combined, checks} THEN "passing" ELSE "none"
    BY Zenon DEF CISummary, combined, checks
  <2> QED BY <1>1, <2>1
<1>3. ci.checks = <<>> => checks = "none" BY DEF CheckRunsStatus
<1> DEFINE telling == {i \in DOMAIN ci.checks : Unfinished(ci.checks[i]) \/ Failed(ci.checks[i])}
<1>4. telling = {}
  <2>1. CASE ci.checks = <<>> BY <2>1
  <2>2. CASE ci.checks # <<>>
    <3>1. telling # {} => checks \in {"failing", "pending"} BY <2>2 DEF CheckRunsStatus
    <3> QED BY <1>2, <3>1
  <2> QED BY <2>1, <2>2
<1>5. \A c \in ToSet(ci.checks) : ~Unfinished(c) /\ ~Failed(c) BY <1>4 DEF ToSet
<1> QED BY <1>2, <1>3, <1>5

-----------------------------------------------------------------------------
\* A watched pull request, poll after poll.

Kinds ==
  {"ci: urgent", "ci: rework", "ci: attention", "review: urgent", "review: attention", "review: rework",
   "merge: ready", "merge: blocked", "merge: done", "merged"}
WatchType == [watched : BOOLEAN, failures : Nat, rejections : Nat, sent : Seq(Kinds)]
ReactionsType == [ci : ReactionType, review : ReactionType, merge : ReactionType]

\* Something sent changes nothing else.
LEMMA Told ==
  ASSUME NEW w \in WatchType, NEW kind \in Kinds
  PROVE  /\ Tell(w, kind) \in WatchType
         /\ Tell(w, kind).sent = Append(w.sent, kind)
         /\ Tell(w, kind).watched = w.watched /\ Tell(w, kind).failures = w.failures
         /\ Tell(w, kind).rejections = w.rejections
<1>1. Append(w.sent, kind) \in Seq(Kinds) BY AppendProperties DEF WatchType
<1> DEFINE S == Seq(Kinds)
           t == Append(w.sent, kind)
<1>2. t \in S /\ WatchType = [watched : BOOLEAN, failures : Nat, rejections : Nat, sent : S] BY <1>1 DEF WatchType
<1> HIDE DEF S, t
<1>3. Tell(w, kind) = [w EXCEPT !.sent = t] BY DEF Tell, t
<1> QED BY <1>2, <1>3 DEF t

\* A failure is counted and told of, if there is a reaction to it.
CIKind(reaction, failures) ==
  IF failures > reaction.retries THEN "ci: urgent" ELSE IF reaction.automatic THEN "ci: rework" ELSE "ci: attention"

\* So OnCIFailure does.
LEMMA FailureTold ==
  ASSUME NEW w \in WatchType, NEW reaction \in ReactionType
  PROVE  LET v == OnCIFailure(w, reaction)
         IN  /\ v \in WatchType
             /\ reaction = NoReaction => v = w
             /\ reaction # NoReaction =>
                  /\ v.sent = Append(w.sent, CIKind(reaction, w.failures + 1))
                  /\ v.failures = w.failures + 1 /\ v.watched = w.watched /\ v.rejections = w.rejections
<1> DEFINE c == [w EXCEPT !.failures = @ + 1]
<1>1. c \in WatchType /\ c.sent = w.sent /\ c.failures = w.failures + 1 /\ c.watched = w.watched
      /\ c.rejections = w.rejections
  BY DEF WatchType
<1>2. CIKind(reaction, c.failures) \in Kinds BY DEF CIKind, Kinds
<1>3. OnCIFailure(w, reaction) = IF reaction = NoReaction THEN w ELSE Tell(c, CIKind(reaction, c.failures))
  BY DEF OnCIFailure, CIKind
<1> HIDE DEF c
<1> QED BY <1>1, <1>2, <1>3, Told

\* A rejection is counted, and told of unless the comments cannot be had; reworks stop
\* where retries do.
ReviewKinds == {"review: urgent", "review: attention", "review: rework"}

\* So OnChangesRequested does.
LEMMA RejectionTold ==
  ASSUME NEW w \in WatchType, NEW reaction \in ReactionType, NEW a \in AnswerType
  PROVE  LET v == OnChangesRequested(w, reaction, a)
         IN  /\ v \in WatchType
             /\ v.watched = w.watched /\ v.failures = w.failures
             /\ \/ v = w
                \/ /\ v.rejections = w.rejections + 1
                   /\ \/ v.sent = w.sent
                      \/ \E kind \in ReviewKinds :
                           /\ v.sent = Append(w.sent, kind)
                           /\ kind = "review: rework" => w.rejections + 1 <= reaction.retries
<1> DEFINE c == [w EXCEPT !.rejections = @ + 1]
           v == OnChangesRequested(w, reaction, a)
<1>1. c \in WatchType /\ c.sent = w.sent /\ c.failures = w.failures /\ c.watched = w.watched
      /\ c.rejections = w.rejections + 1
  BY DEF WatchType
<1>2. c.rejections \in Nat /\ w.rejections \in Nat /\ reaction.retries \in Nat /\ reaction.automatic \in BOOLEAN
  BY <1>1 DEF WatchType, ReactionType
<1>3. \/ v = w \/ v = c
      \/ \E kind \in ReviewKinds : v = Tell(c, kind) /\ (kind = "review: rework" => ~(c.rejections > reaction.retries))
  <2> HIDE DEF c
  <2>1. OnChangesRequested(w, reaction, a) =
          CASE reaction = NoReaction -> w
            [] reaction # NoReaction /\ c.rejections > reaction.retries -> Tell(c, "review: urgent")
            [] reaction # NoReaction /\ ~(c.rejections > reaction.retries) /\ ~reaction.automatic -> Tell(c, "review: attention")
            [] OTHER -> IF a.fails = "comments" THEN c ELSE Tell(c, "review: rework")
    BY DEF OnChangesRequested, c
  <2>2. CASE reaction = NoReaction BY <2>1, <2>2
  <2>3. CASE reaction # NoReaction /\ c.rejections > reaction.retries
    BY <2>1, <2>3 DEF ReviewKinds
  <2>4. CASE reaction # NoReaction /\ ~(c.rejections > reaction.retries) /\ ~reaction.automatic
    BY <2>1, <2>4 DEF ReviewKinds
  <2>5. CASE reaction # NoReaction /\ ~(c.rejections > reaction.retries) /\ reaction.automatic
    BY <2>1, <2>5 DEF ReviewKinds
  <2> QED BY <2>2, <2>3, <2>4, <2>5
<1> HIDE DEF c, v
<1>4. CASE v = w \/ v = c BY <1>1, <1>4 DEF v
<1>5. ASSUME NEW kind \in ReviewKinds, v = Tell(c, kind), kind = "review: rework" => ~(c.rejections > reaction.retries)
      PROVE  /\ v \in WatchType /\ v.watched = w.watched /\ v.failures = w.failures /\ v.rejections = w.rejections + 1
             /\ v.sent = Append(w.sent, kind)
             /\ kind = "review: rework" => w.rejections + 1 <= reaction.retries
  <2>1. kind \in Kinds BY DEF ReviewKinds, Kinds
  <2>2. /\ Tell(c, kind) \in WatchType /\ Tell(c, kind).sent = Append(c.sent, kind)
        /\ Tell(c, kind).watched = c.watched /\ Tell(c, kind).failures = c.failures
        /\ Tell(c, kind).rejections = c.rejections
    BY <1>1, <2>1, Told
  <2>3. ASSUME kind = "review: rework" PROVE w.rejections + 1 <= reaction.retries
    <3>1. ~(c.rejections > reaction.retries) BY <1>5, <2>3
    <3>2. c.rejections = w.rejections + 1 BY <1>1
    <3> QED BY <1>2, <3>1, <3>2
  <2> QED BY <1>1, <1>5, <2>2, <2>3
<1> QED BY <1>3, <1>4, <1>5 DEF v

\* A merge is announced once, of what may be merged, and then the watch is over.
LEMMA MergeTold ==
  ASSUME NEW w \in WatchType, NEW reaction \in ReactionType, NEW a \in AnswerType
  PROVE  LET v == OnReadyToMerge(w, reaction, a)
         IN  /\ v \in WatchType
             /\ v.failures = w.failures /\ v.rejections = w.rejections
             /\ \/ v = w
                \/ v.watched = w.watched /\ \E kind \in {"merge: ready", "merge: blocked"} : v.sent = Append(w.sent, kind)
                \/ ~v.watched /\ v.sent = Append(w.sent, "merge: done") /\ Mergeable(a)
<1> DEFINE v == OnReadyToMerge(w, reaction, a)
           t == Tell(w, "merge: done")
           d == [t EXCEPT !.watched = FALSE]
<1>1. t \in WatchType /\ t.sent = Append(w.sent, "merge: done") /\ t.failures = w.failures
      /\ t.rejections = w.rejections
  <2>1. "merge: done" \in Kinds BY DEF Kinds
  <2> QED BY <2>1, Told
<1>2. d \in WatchType /\ d.sent = t.sent /\ d.failures = t.failures /\ d.rejections = t.rejections /\ ~d.watched
  <2> HIDE DEF t
  <2> QED BY <1>1 DEF WatchType
<1>3. \/ v = w \/ v = Tell(w, "merge: ready") \/ v = Tell(w, "merge: blocked")
      \/ v = d /\ Mergeable(a)
  <2> HIDE DEF d
  <2>1. v = CASE reaction = NoReaction -> w
              [] reaction # NoReaction /\ ~reaction.automatic -> Tell(w, "merge: ready")
              [] OTHER -> CASE a.fails = "mergeability" -> w
                            [] OTHER -> IF Mergeable(a) THEN d ELSE Tell(w, "merge: blocked")
    BY DEF OnReadyToMerge, d
  <2> HIDE DEF v
  <2>2. reaction.automatic \in BOOLEAN BY DEF ReactionType
  <2> QED BY <2>1, <2>2
<1> HIDE DEF v, d, t
<1>4. CASE v = d /\ Mergeable(a) BY <1>1, <1>2, <1>4 DEF v
<1>5. CASE v = Tell(w, "merge: ready") \/ v = Tell(w, "merge: blocked")
  <2>1. "merge: ready" \in Kinds /\ "merge: blocked" \in Kinds BY DEF Kinds
  <2>2. PICK kind \in {"merge: ready", "merge: blocked"} : v = Tell(w, kind) BY <1>5
  <2>3. /\ Tell(w, kind) \in WatchType /\ Tell(w, kind).sent = Append(w.sent, kind)
        /\ Tell(w, kind).watched = w.watched /\ Tell(w, kind).failures = w.failures
        /\ Tell(w, kind).rejections = w.rejections
    BY <2>1, Told
  <2> QED BY <2>2, <2>3 DEF v
<1> QED BY <1>3, <1>4, <1>5 DEF v

\* How many elements of a sequence are of a set
HowMany(s, T) == Cardinality({i \in DOMAIN s : s[i] \in T})

\* One more where one of the set is appended.
LEMMA HowManyAppended ==
  ASSUME NEW S, NEW s \in Seq(S), NEW e \in S, NEW T
  PROVE  /\ HowMany(s, T) \in Nat
         /\ HowMany(Append(s, e), T) = IF e \in T THEN HowMany(s, T) + 1 ELSE HowMany(s, T)
<1> DEFINE n == Len(s)
           t == Append(s, e)
           old == {i \in DOMAIN s : s[i] \in T}
           new == {i \in DOMAIN t : t[i] \in T}
<1>1. /\ n \in Nat /\ DOMAIN s = 1 .. n /\ DOMAIN t = 1 .. n + 1
      /\ (\A i \in 1 .. n : t[i] = s[i]) /\ t[n + 1] = e
  BY AppendProperties, LenProperties
<1> HIDE DEF n, t
<1>2. IsFiniteSet(old)
  <2>1. old \subseteq 1 .. n BY <1>1
  <2>2. IsFiniteSet(1 .. n) BY <1>1, FS_Interval
  <2> QED BY <2>1, <2>2, FS_Subset
<1>3. Cardinality(old) \in Nat BY <1>2, FS_CardinalityType
<1>4. CASE e \in T
  <2>1. new = old \cup {n + 1} /\ n + 1 \notin old BY <1>1, <1>4
  <2>2. Cardinality(new) = Cardinality(old) + 1 BY <1>2, <2>1, FS_AddElement
  <2> QED BY <1>3, <1>4, <2>2 DEF HowMany, t
<1>5. CASE e \notin T
  <2>1. new = old BY <1>1, <1>5
  <2> QED BY <1>3, <1>5, <2>1 DEF HowMany, t
<1> QED BY <1>4, <1>5

\* How often a kind is in what was sent
Count(sent, kind) == Cardinality({i \in DOMAIN sent : sent[i] = kind})

\* One more where that kind is sent.
LEMMA CountAppended ==
  ASSUME NEW S, NEW s \in Seq(S), NEW e \in S, NEW kind
  PROVE  /\ Count(s, kind) \in Nat
         /\ Count(Append(s, e), kind) = IF e = kind THEN Count(s, kind) + 1 ELSE Count(s, kind)
<1>1. \A q : Count(q, kind) = HowMany(q, {kind})
  <2>1. TAKE q
  <2>2. {i \in DOMAIN q : q[i] = kind} = {i \in DOMAIN q : q[i] \in {kind}} OBVIOUS
  <2> QED BY <2>2 DEF Count, HowMany
<1>2. HowMany(s, {kind}) \in Nat
      /\ HowMany(Append(s, e), {kind}) = IF e \in {kind} THEN HowMany(s, {kind}) + 1 ELSE HowMany(s, {kind})
  BY HowManyAppended
<1>3. e \in {kind} <=> e = kind OBVIOUS
<1> QED BY <1>1, <1>2, <1>3, Zenon

\* A poll that comes as far as the summary.
Observed(w, a) == w.watched /\ a.listed /\ a.state = "open" /\ a.fails \notin {"detect", "state", "ci"}
FoundRed(w, a) == Observed(w, a) /\ CISummary(a.ci) = "failing"
\* What one poll does: to the failures, and then once to the rest.
Reds(w, v, a, reaction) ==
  IF FoundRed(w, a) /\ reaction # NoReaction
    THEN /\ v.sent = Append(w.sent, CIKind(reaction, w.failures + 1))
         /\ v.failures = w.failures + 1 /\ v.watched = w.watched /\ v.rejections = w.rejections
    ELSE v = w
Rest(w, v, a, reaction) ==
  \/ v = w
  \/ /\ v.failures = w.failures
     /\ \/ v.rejections = w.rejections /\ v.sent = w.sent
        \/ v.rejections = w.rejections + 1 /\ v.sent = w.sent
        \/ \E kind \in ReviewKinds : /\ v.rejections = w.rejections + 1
                                     /\ v.sent = Append(w.sent, kind)
                                     /\ kind = "review: rework" => w.rejections + 1 <= reaction.retries
        \/ \E kind \in {"merge: ready", "merge: blocked", "merged"} :
             v.rejections = w.rejections /\ v.sent = Append(w.sent, kind)
        \/ /\ v.rejections = w.rejections /\ v.sent = Append(w.sent, "merge: done")
           /\ ~v.watched /\ Observed(w, a)
           /\ CISummary(a.ci) = "passing" /\ CISummary(a.ciAgain) \notin {"failing", "pending"}
           /\ ReviewDecision(a.reviews, a.requested) = "approved"

\* One poll keeps the types, does nothing to what is no longer watched, and tells in these two steps.
LEMMA PollTold ==
  ASSUME NEW w \in WatchType, NEW a \in AnswerType, NEW reactions \in ReactionsType
  PROVE  /\ CheckRun(w, a, reactions) \in WatchType
         /\ ~w.watched => CheckRun(w, a, reactions) = w
         /\ \E told \in WatchType : /\ Reds(w, told, a, reactions.ci)
                                    /\ Rest(told, CheckRun(w, a, reactions), a, reactions.review)
                                    /\ FoundRed(w, a) \/ told = w
<1> DEFINE ci == CISummary(a.ci)
           review == ReviewDecision(a.reviews, a.requested)
           told == IF ci = "failing" THEN OnCIFailure(w, reactions.ci) ELSE w
           judged == CASE review = "changes_requested" -> OnChangesRequested(told, reactions.review, a)
                       [] review = "approved" /\ ci = "passing" -> OnReadyToMerge(told, reactions.merge, a)
                       [] OTHER -> told
           v == CheckRun(w, a, reactions)
           merged == [Tell(w, "merged") EXCEPT !.watched = FALSE]
           closed == [w EXCEPT !.watched = FALSE]
<1>1. reactions.ci \in ReactionType /\ reactions.review \in ReactionType /\ reactions.merge \in ReactionType
  BY DEF ReactionsType
<1>2. a.state \in {"open", "merged", "closed"} BY DEF AnswerType
<1>3. merged \in WatchType /\ merged.sent = Append(w.sent, "merged") /\ merged.failures = w.failures
      /\ merged.rejections = w.rejections
  <2>1. "merged" \in Kinds BY DEF Kinds
  <2>2. /\ Tell(w, "merged") \in WatchType /\ Tell(w, "merged").sent = Append(w.sent, "merged")
        /\ Tell(w, "merged").failures = w.failures /\ Tell(w, "merged").rejections = w.rejections
    BY <2>1, Told
  <2> DEFINE t == Tell(w, "merged")
  <2> HIDE DEF t
  <2>3. merged = [t EXCEPT !.watched = FALSE] BY DEF t
  <2>4. t \in WatchType /\ t.sent = Append(w.sent, "merged") /\ t.failures = w.failures /\ t.rejections = w.rejections
    BY <2>2 DEF t
  <2> QED BY <2>3, <2>4 DEF WatchType
<1>4. closed \in WatchType /\ closed.sent = w.sent /\ closed.failures = w.failures /\ closed.rejections = w.rejections
  BY DEF WatchType
<1>5. v = IF ~w.watched \/ ~a.listed \/ a.fails \in {"detect", "state"} THEN w
          ELSE CASE a.state = "merged" -> merged
                 [] a.state = "closed" -> closed
                 [] a.state = "open" -> CASE a.fails = "ci" -> w [] a.fails = "reviews" -> told [] OTHER -> judged
  BY DEF CheckRun
<1>6. told \in WatchType /\ (ci # "failing" => told = w)
      /\ (ci = "failing" => told = OnCIFailure(w, reactions.ci))
  BY <1>1, FailureTold
<1> HIDE DEF v, merged, closed, told, judged
<1>7. CASE ~Observed(w, a)
  <2>1. v = w \/ v = merged \/ v = closed BY <1>2, <1>5, <1>7 DEF Observed
  <2>2. Reds(w, w, a, reactions.ci) BY <1>7 DEF Reds, FoundRed
  <2>3. Rest(w, v, a, reactions.review) BY <1>3, <1>4, <2>1 DEF Rest
  <2>4. v \in WatchType BY <1>3, <1>4, <2>1
  <2>5. ~w.watched => v = w BY <1>5
  <2> QED BY <2>2, <2>3, <2>4, <2>5 DEF v
<1>8. CASE Observed(w, a)
  <2>1. v = told \/ v = judged BY <1>2, <1>5, <1>8 DEF Observed
  <2>2. Reds(w, told, a, reactions.ci)
    <3>1. CASE ci = "failing" /\ reactions.ci # NoReaction BY SMTT(30), <1>1, <1>6, <1>8, <3>1, FailureTold DEF Reds, FoundRed
    <3>2. CASE ci # "failing" BY <1>6, <3>2 DEF Reds, FoundRed
    <3>3. CASE ci = "failing" /\ reactions.ci = NoReaction
      <4>1. told = w BY <1>1, <1>6, <3>3, FailureTold
      <4> QED BY <3>3, <4>1 DEF Reds
    <3> QED BY <3>1, <3>2, <3>3
  <2>3. FoundRed(w, a) \/ told = w BY <1>6, <1>8 DEF FoundRed
  <2>4. judged \in WatchType /\ Rest(told, judged, a, reactions.review)
    <3>1. CASE review = "changes_requested"
      <4>1. judged = OnChangesRequested(told, reactions.review, a) BY <3>1 DEF judged
      <4>2. /\ judged \in WatchType
            /\ judged.failures = told.failures
            /\ \/ judged = told
               \/ /\ judged.rejections = told.rejections + 1
                  /\ \/ judged.sent = told.sent
                     \/ \E kind \in ReviewKinds :
                          /\ judged.sent = Append(told.sent, kind)
                          /\ kind = "review: rework" => told.rejections + 1 <= reactions.review.retries
        BY <1>1, <1>6, <4>1, RejectionTold
      <4> QED BY <4>2 DEF Rest
    <3>2. CASE review = "approved" /\ ci = "passing"
      <4>1. judged = OnReadyToMerge(told, reactions.merge, a) BY <3>2 DEF judged
      <4>2. /\ judged \in WatchType
            /\ judged.failures = told.failures /\ judged.rejections = told.rejections
            /\ \/ judged = told
               \/ \E kind \in {"merge: ready", "merge: blocked"} : judged.sent = Append(told.sent, kind)
               \/ ~judged.watched /\ judged.sent = Append(told.sent, "merge: done") /\ Mergeable(a)
        BY <1>1, <1>6, <4>1, MergeTold
      <4>3. told = w BY <1>6, <3>2
      <4>4. Observed(told, a) BY <1>8, <4>3
      <4>5. Mergeable(a) => CISummary(a.ciAgain) \notin {"failing", "pending"} BY DEF Mergeable
      <4> QED BY <3>2, <4>2, <4>4, <4>5 DEF Rest
    <3>3. CASE review # "changes_requested" /\ ~(review = "approved" /\ ci = "passing")
      <4>1. judged = told BY <3>3 DEF judged
      <4> QED BY <1>6, <4>1 DEF Rest
    <3> QED BY <3>1, <3>2, <3>3
  <2>5. v \in WatchType /\ Rest(told, v, a, reactions.review) BY <1>6, <2>1, <2>4 DEF Rest
  <2>6. w.watched BY <1>8 DEF Observed
  <2> QED BY <1>6, <2>2, <2>3, <2>5, <2>6 DEF v
<1> QED BY <1>7, <1>8

PollsBy(g, answers, reactions, n) ==
  /\ g[0] = <<Watch>>
  /\ \A k \in 1 .. n : g[k] = Append(g[k - 1], CheckRun(Last(g[k - 1]), answers[k], reactions))
  /\ Polls(answers, reactions) = g[n]

\* Polls, a fold over the answers, is so: by induction each prefix has a function of its results.
LEMMA PollsUnfolds ==
  ASSUME NEW answers, NEW reactions, NEW n \in Nat, DOMAIN answers = 1 .. n
  PROVE  \E g : PollsBy(g, answers, reactions, n)
<1> DEFINE Op(ws, a) == Append(ws, CheckRun(Last(ws), a, reactions))
           Is(g, k) == g = [T \in SUBSET (1 .. k) |-> IF T = {} THEN <<Watch>> ELSE Op(g[T \ {Max(T)}], answers[Max(T)])]
           All == {k \in Nat : \E g : Is(g, k)}
<1>1. 0 \in All
  <2> DEFINE g0 == [T \in SUBSET (1 .. 0) |-> <<Watch>>]
  <2>1. \A T \in SUBSET (1 .. 0) : T = {} OBVIOUS
  <2>2. Is(g0, 0) BY <2>1
  <2> QED BY <2>2
<1>2. ASSUME NEW k \in Nat, k \in All PROVE k + 1 \in All
  <2>1. PICK g : Is(g, k) BY <1>2
  <2> DEFINE h == [T \in SUBSET (1 .. k + 1) |-> IF k + 1 \in T THEN Op(g[T \ {k + 1}], answers[k + 1]) ELSE g[T]]
  <2> HIDE DEF Op
  <2>2. ASSUME NEW T \in SUBSET (1 .. k + 1)
        PROVE  h[T] = IF T = {} THEN <<Watch>> ELSE Op(h[T \ {Max(T)}], answers[Max(T)])
    <3>1. CASE k + 1 \in T
      <4>1. Max(T) = k + 1 BY <3>1, MaxOfPrefix
      <4>2. T \ {k + 1} \in SUBSET (1 .. k + 1) /\ k + 1 \notin T \ {k + 1} OBVIOUS
      <4>3. h[T \ {k + 1}] = g[T \ {k + 1}] BY <4>2
      <4> QED BY <3>1, <4>1, <4>3
    <3>2. CASE k + 1 \notin T
      <4>1. T \in SUBSET (1 .. k) BY <3>2
      <4>2. h[T] = g[T] BY <3>2
      <4>3. g[T] = IF T = {} THEN <<Watch>> ELSE Op(g[T \ {Max(T)}], answers[Max(T)]) BY <2>1, <4>1
      <4>4. T \ {Max(T)} \in SUBSET (1 .. k + 1) /\ k + 1 \notin T \ {Max(T)} BY <3>2
      <4>5. h[T \ {Max(T)}] = g[T \ {Max(T)}] BY <4>4
      <4> QED BY <4>2, <4>3, <4>5
    <3> QED BY <3>1, <3>2
  <2>3. Is(h, k + 1) BY <2>2
  <2>4. \E x : Is(x, k + 1) BY <2>3
  <2> HIDE DEF Is
  <2> QED BY <2>4
<1>3. n \in All
  <2> HIDE DEF All
  <2> QED BY <1>1, <1>2, Induction
<1>4. PICK f : Is(f, n) BY <1>3, Zenon
<1>5. Polls(answers, reactions) = (CHOOSE g : Is(g, n))[1 .. n]
  BY DEF Polls, FoldLeft, MapThenFoldSet
<1> DEFINE c == CHOOSE g : Is(g, n)
<1>6. Is(c, n) BY <1>4, Zenon
<1> HIDE DEF c, Op
<1> DEFINE e == [k \in 0 .. n |-> c[1 .. k]]
<1>7. e[0] = <<Watch>>
  <2>1. 1 .. 0 = {} /\ {} \in SUBSET (1 .. n) OBVIOUS
  <2> QED BY <1>6, <2>1
<1>8. ASSUME NEW k \in 1 .. n PROVE e[k] = Op(e[k - 1], answers[k])
  <2>1. 1 .. k \in SUBSET (1 .. n) /\ 1 .. k # {} /\ (1 .. k) \ {k} = 1 .. (k - 1) OBVIOUS
  <2>2. Max(1 .. k) = k
    <3>1. k - 1 \in Nat /\ 1 .. k \in SUBSET (1 .. (k - 1) + 1) /\ (k - 1) + 1 \in 1 .. k /\ (k - 1) + 1 = k OBVIOUS
    <3> QED BY <3>1, MaxOfPrefix
  <2>3. c[1 .. k] = Op(c[1 .. (k - 1)], answers[k]) BY <1>6, <2>1, <2>2
  <2> QED BY <2>3
<1>9. Polls(answers, reactions) = e[n] BY <1>5 DEF c
<1> HIDE DEF e
<1> QED BY <1>7, <1>8, <1>9 DEF Op, PollsBy

\* Before each answer and after the last there is a watch: the first is Watch, and each
\* other is what the poll makes of the one before.
LEMMA PollsAre ==
  ASSUME NEW answers \in Seq(AnswerType), NEW reactions \in ReactionsType
  PROVE  LET ws == Polls(answers, reactions)
         IN  /\ ws \in Seq(WatchType) /\ Len(ws) = Len(answers) + 1
             /\ ws[1] = Watch
             /\ \A i \in DOMAIN answers : ws[i + 1] = CheckRun(ws[i], answers[i], reactions)
<1>1. Len(answers) \in Nat /\ DOMAIN answers = 1 .. Len(answers)
      /\ \A i \in DOMAIN answers : answers[i] \in AnswerType
  BY LenProperties, ElementOfSeq
<1> DEFINE n == Len(answers)
<1>2. PICK g : PollsBy(g, answers, reactions, n) BY <1>1, PollsUnfolds
<1>3. Watch \in WatchType
  <2> DEFINE S == Seq(Kinds)
             e == <<>>
  <2>1. e \in S OBVIOUS
  <2>2. Watch = [watched |-> TRUE, failures |-> 0, rejections |-> 0, sent |-> e] BY DEF Watch
  <2>3. WatchType = [watched : BOOLEAN, failures : Nat, rejections : Nat, sent : S] BY DEF WatchType
  <2> HIDE DEF S, e
  <2> QED BY <2>1, <2>2, <2>3
<1> DEFINE Good(k) == /\ g[k] \in Seq(WatchType) /\ Len(g[k]) = k + 1
                      /\ g[k][1] = Watch
                      /\ \A i \in 1 .. k : g[k][i + 1] = CheckRun(g[k][i], answers[i], reactions)
           All == {k \in Nat : k <= n => Good(k)}
<1>4. 0 \in All
  <2>1. <<Watch>> \in Seq(WatchType) /\ Len(<<Watch>>) = 1 /\ <<Watch>>[1] = Watch BY <1>3
  <2>2. 1 .. 0 = {} /\ 0 + 1 = 1 OBVIOUS
  <2> DEFINE b == <<Watch>>
  <2>3. b \in Seq(WatchType) /\ Len(b) = 0 + 1 /\ b[1] = Watch BY <2>1
  <2>4. g[0] = b BY <1>2 DEF PollsBy
  <2> HIDE DEF b
  <2> QED BY <2>2, <2>3, <2>4
<1>5. ASSUME NEW k \in Nat, k \in All PROVE k + 1 \in All
  <2>1. SUFFICES ASSUME k + 1 <= n PROVE Good(k + 1) OBVIOUS
  <2>2. Good(k) /\ k + 1 \in 1 .. n /\ k = (k + 1) - 1 BY <1>1, <1>5, <2>1
  <2> DEFINE w == g[k][k + 1]
             v == CheckRun(w, answers[k + 1], reactions)
  <2>3. Last(g[k]) = w BY <2>2 DEF Last
  <2>4. g[k + 1] = Append(g[k], v) BY <1>2, <2>2, <2>3 DEF PollsBy
  <2>5. DOMAIN g[k] = 1 .. k + 1 BY <2>2, LenProperties
  <2>6. w \in WatchType BY <2>2, <2>5, ElementOfSeq
  <2>7. v \in WatchType BY <1>1, <2>2, <2>6, PollTold
  <2> HIDE DEF v
  <2>8. /\ g[k + 1] \in Seq(WatchType) /\ Len(g[k + 1]) = k + 2
        /\ \A i \in 1 .. k + 1 : g[k + 1][i] = g[k][i]
        /\ g[k + 1][k + 2] = v
    BY <2>2, <2>4, <2>7, AppendProperties
  <2>9. ASSUME NEW i \in 1 .. k + 1 PROVE g[k + 1][i + 1] = CheckRun(g[k + 1][i], answers[i], reactions)
    <3>1. CASE i = k + 1 BY <2>8, <3>1 DEF v
    <3>2. CASE i \in 1 .. k
      <4>1. i + 1 \in 1 .. k + 1 BY <3>2
      <4> QED BY <2>2, <2>8, <3>2, <4>1
    <3> QED BY <3>1, <3>2
  <2>10. g[k + 1][1] = Watch BY SMTT(30), <2>2, <2>8
  <2> QED BY <2>8, <2>9, <2>10
<1>6. n \in All
  <2> HIDE DEF All
  <2> QED BY <1>1, <1>4, <1>5, Induction
<1>7. Good(n) BY <1>1, <1>6
<1>8. Polls(answers, reactions) = g[n] BY <1>2 DEF PollsBy
<1> QED BY <1>1, <1>7, <1>8

\* What was sent of failing checks answers for the failures counted: reworks first, as far
\* as retries allow, and then calls for help.
CIBalance(w, reaction) ==
  LET urgent == Count(w.sent, "ci: urgent")
      rework == Count(w.sent, "ci: rework")
  IN  /\ rework + Count(w.sent, "ci: attention") + urgent = w.failures
      /\ rework <= reaction.retries
      /\ IF w.failures > reaction.retries THEN urgent = w.failures - reaction.retries ELSE urgent = 0
\* Reworks for a review are among the rejections counted, and no more than retries allow.
ReviewBalance(w, reaction) ==
  LET rework == Count(w.sent, "review: rework")
  IN  rework <= w.rejections /\ rework <= reaction.retries
Done(w) == "merge: done" \in ToSet(w.sent)

\* What is counted is a number.
LEMMA Counted ==
  ASSUME NEW w \in WatchType
  PROVE  /\ w.sent \in Seq(Kinds) /\ w.failures \in Nat /\ w.rejections \in Nat /\ w.watched \in BOOLEAN
         /\ \A kind \in Kinds : Count(w.sent, kind) \in Nat
<1>1. w.sent \in Seq(Kinds) /\ w.failures \in Nat /\ w.rejections \in Nat /\ w.watched \in BOOLEAN BY DEF WatchType
<1>2. "merged" \in Kinds BY DEF Kinds
<1> QED BY <1>1, <1>2, CountAppended

\* What is sent changes what was sent of its own kind only.
LEMMA SentCounts ==
  ASSUME NEW w \in WatchType, NEW kind \in Kinds, NEW v, v.sent = Append(w.sent, kind)
  PROVE  /\ \A k \in Kinds : Count(v.sent, k) = IF k = kind THEN Count(w.sent, k) + 1 ELSE Count(w.sent, k)
         /\ Done(v) <=> Done(w) \/ kind = "merge: done"
<1>1. w.sent \in Seq(Kinds) BY Counted
<1>2. \A k \in Kinds : Count(v.sent, k) = IF k = kind THEN Count(w.sent, k) + 1 ELSE Count(w.sent, k)
  BY <1>1, CountAppended
<1>3. ToSet(Append(w.sent, kind)) = ToSet(w.sent) \cup {kind}
  <2> DEFINE n == Len(w.sent)
             t == Append(w.sent, kind)
  <2>1. /\ n \in Nat /\ DOMAIN w.sent = 1 .. n /\ DOMAIN t = 1 .. n + 1
        /\ (\A i \in 1 .. n : t[i] = w.sent[i]) /\ t[n + 1] = kind
    BY <1>1, AppendProperties, LenProperties
  <2> HIDE DEF n, t
  <2>2. ASSUME NEW x \in ToSet(t) PROVE x \in ToSet(w.sent) \cup {kind}
    <3>1. PICK i \in 1 .. n + 1 : x = t[i] BY <2>1 DEF ToSet
    <3>2. CASE i \in 1 .. n BY <2>1, <3>1, <3>2 DEF ToSet
    <3>3. CASE i = n + 1 BY <2>1, <3>1, <3>3
    <3> QED BY <2>1, <3>2, <3>3
  <2>3. ASSUME NEW x \in ToSet(w.sent) \cup {kind} PROVE x \in ToSet(t)
    <3>1. CASE x \in ToSet(w.sent)
      <4>1. PICK i \in 1 .. n : x = w.sent[i] BY <2>1, <3>1 DEF ToSet
      <4>2. i \in 1 .. n + 1 /\ x = t[i] BY <2>1, <4>1
      <4> QED BY <2>1, <4>2 DEF ToSet
    <3>2. CASE x = kind
      <4>1. n + 1 \in 1 .. n + 1 BY <2>1
      <4> QED BY <2>1, <3>2, <4>1 DEF ToSet
    <3> QED BY <3>1, <3>2
  <2> QED BY <2>2, <2>3 DEF t
<1>4. ToSet(v.sent) = ToSet(w.sent) \cup {kind} BY <1>3
<1> DEFINE new == ToSet(v.sent)
           old == ToSet(w.sent)
<1>5. "merge: done" \in new <=> "merge: done" \in old \/ kind = "merge: done"
  <2>1. new = old \cup {kind} BY <1>4
  <2> HIDE DEF new, old
  <2> QED BY <2>1
<1>6. Done(v) <=> Done(w) \/ kind = "merge: done" BY <1>5 DEF Done
<1> QED BY <1>2, <1>6

\* A failure that is told of keeps the balance, one up.
LEMMA RedsBalance ==
  ASSUME NEW w \in WatchType, NEW told \in WatchType, NEW a, NEW reaction \in ReactionType,
         Reds(w, told, a, reaction)
  PROVE  /\ reaction # NoReaction /\ CIBalance(w, reaction) =>
              /\ CIBalance(told, reaction)
              /\ told.failures = IF FoundRed(w, a) THEN w.failures + 1 ELSE w.failures
         /\ \A r \in ReactionType : ReviewBalance(w, r) => ReviewBalance(told, r)
         /\ Done(told) <=> Done(w)
<1>1. CASE told = w /\ ~(FoundRed(w, a) /\ reaction # NoReaction) BY <1>1
<1>2. CASE FoundRed(w, a) /\ reaction # NoReaction
  <2> DEFINE kind == CIKind(reaction, w.failures + 1)
             R(x) == Count(x.sent, "ci: rework")
             A(x) == Count(x.sent, "ci: attention")
             U(x) == Count(x.sent, "ci: urgent")
  <2>1. /\ told.sent = Append(w.sent, kind)
        /\ told.failures = w.failures + 1 /\ told.rejections = w.rejections
    BY <1>2 DEF Reds
  <2>2. kind \in {"ci: urgent", "ci: rework", "ci: attention"}
        /\ (kind = "ci: urgent" <=> w.failures + 1 > reaction.retries)
    BY DEF CIKind
  <2>3. /\ \A k \in Kinds : Count(told.sent, k) = IF k = kind THEN Count(w.sent, k) + 1 ELSE Count(w.sent, k)
        /\ Done(told) <=> Done(w)
    <3>1. kind \in Kinds /\ kind # "merge: done" BY <2>2 DEF Kinds
    <3> HIDE DEF kind
    <3>2. /\ \A k \in Kinds : Count(told.sent, k) = IF k = kind THEN Count(w.sent, k) + 1 ELSE Count(w.sent, k)
          /\ Done(told) <=> Done(w) \/ kind = "merge: done"
      BY <2>1, <3>1, SentCounts, Zenon
    <3> QED BY <3>1, <3>2
  <2> HIDE DEF kind
  <2>4. /\ Count(told.sent, "review: rework") = Count(w.sent, "review: rework")
        /\ R(told) = (IF kind = "ci: rework" THEN R(w) + 1 ELSE R(w))
        /\ A(told) = (IF kind = "ci: attention" THEN A(w) + 1 ELSE A(w))
        /\ U(told) = (IF kind = "ci: urgent" THEN U(w) + 1 ELSE U(w))
    BY <2>2, <2>3 DEF Kinds
  <2>5. w.failures \in Nat /\ reaction.retries \in Nat /\ R(w) \in Nat /\ A(w) \in Nat /\ U(w) \in Nat
    BY Counted DEF Kinds, ReactionType
  <2>6. CIBalance(w, reaction) => CIBalance(told, reaction)
    <3> SUFFICES ASSUME CIBalance(w, reaction) PROVE CIBalance(told, reaction) OBVIOUS
    <3>1. /\ R(w) + A(w) + U(w) = w.failures /\ R(w) <= reaction.retries
          /\ IF w.failures > reaction.retries THEN U(w) = w.failures - reaction.retries ELSE U(w) = 0
      BY DEF CIBalance
    <3>2. /\ R(told) + A(told) + U(told) = told.failures /\ R(told) <= reaction.retries
          /\ IF told.failures > reaction.retries THEN U(told) = told.failures - reaction.retries ELSE U(told) = 0
      <4> HIDE DEF R, A, U
      <4>0. told.failures = w.failures + 1 BY <2>1
      <4>1. CASE kind = "ci: urgent"
        <5>1. w.failures + 1 > reaction.retries BY <2>2, <4>1
        <5>2. R(told) = R(w) /\ A(told) = A(w) /\ U(told) = U(w) + 1 BY <2>4, <4>1
        <5> QED BY <2>5, <3>1, <4>0, <5>1, <5>2
      <4>2. CASE kind # "ci: urgent"
        <5>1. ~(w.failures + 1 > reaction.retries) BY <2>2, <4>2
        <5>2. U(told) = U(w) BY <2>4, <4>2
        <5>3. \/ R(told) = R(w) + 1 /\ A(told) = A(w)
              \/ R(told) = R(w) /\ A(told) = A(w) + 1
          BY <2>2, <2>4, <4>2
        <5> QED BY <2>5, <3>1, <4>0, <5>1, <5>2, <5>3
      <4> QED BY <4>1, <4>2
    <3> QED BY <3>2 DEF CIBalance
  <2> QED BY <1>2, <2>1, <2>3, <2>4, <2>6 DEF ReviewBalance
<1> QED BY <1>1, <1>2 DEF Reds

\* The rest of a poll keeps it as it is, and reworks for a review within what retries allow;
\* it ends with a merge if it announces one.
LEMMA RestBalance ==
  ASSUME NEW w \in WatchType, NEW v \in WatchType, NEW a, NEW reaction \in ReactionType, Rest(w, v, a, reaction)
  PROVE  /\ \A r \in ReactionType : CIBalance(w, r) => CIBalance(v, r)
         /\ v.failures = w.failures
         /\ ReviewBalance(w, reaction) => ReviewBalance(v, reaction)
         /\ Done(v) /\ ~Done(w) =>
              /\ Last(v.sent) = "merge: done" /\ ~v.watched /\ Observed(w, a)
              /\ CISummary(a.ci) = "passing" /\ CISummary(a.ciAgain) \notin {"failing", "pending"}
              /\ ReviewDecision(a.reviews, a.requested) = "approved"
<1> DEFINE V(x) == Count(x.sent, "review: rework")
           C(x) == <<Count(x.sent, "ci: rework"), Count(x.sent, "ci: attention"), Count(x.sent, "ci: urgent")>>
<1>1. /\ w.rejections \in Nat /\ V(w) \in Nat /\ reaction.retries \in Nat
      /\ w.sent \in Seq(Kinds)
  BY Counted DEF Kinds, ReactionType
<1>2. v.failures = w.failures BY DEF Rest
<1>3. ASSUME NEW kind \in Kinds \ {"ci: urgent", "ci: rework", "ci: attention"}, v.sent = Append(w.sent, kind)
      PROVE  /\ C(v) = C(w) /\ V(v) = (IF kind = "review: rework" THEN V(w) + 1 ELSE V(w))
             /\ Done(v) => Done(w) \/ kind = "merge: done"
             /\ Last(v.sent) = kind
  <2>1. /\ \A k \in Kinds : Count(v.sent, k) = IF k = kind THEN Count(w.sent, k) + 1 ELSE Count(w.sent, k)
        /\ Done(v) <=> Done(w) \/ kind = "merge: done"
    BY <1>3, SentCounts
  <2>2. Last(v.sent) = kind
    <3> DEFINE s == w.sent
               t == v.sent
    <3>1. s \in Seq(Kinds) /\ t = Append(s, kind) BY <1>1, <1>3
    <3> HIDE DEF s, t
    <3>2. Len(t) = Len(s) + 1 /\ t[Len(s) + 1] = kind BY ZenonT(30), <3>1, AppendProperties
    <3>3. Last(t) = kind BY <3>2 DEF Last
    <3> QED BY <3>3 DEF t
  <2>3. C(v) = C(w) BY <2>1 DEF Kinds
  <2>4. V(v) = (IF kind = "review: rework" THEN V(w) + 1 ELSE V(w)) BY <2>1 DEF Kinds
  <2> QED BY <2>1, <2>2, <2>3, <2>4
<1>4. ASSUME C(v) = C(w), NEW r \in ReactionType, CIBalance(w, r) PROVE CIBalance(v, r)
  BY <1>2, <1>4 DEF CIBalance
<1> HIDE DEF C
<1>5. ASSUME v.rejections \in {w.rejections, w.rejections + 1}, V(v) = V(w), ReviewBalance(w, reaction)
      PROVE  ReviewBalance(v, reaction)
  <2>1. V(w) <= w.rejections /\ V(w) <= reaction.retries BY <1>5 DEF ReviewBalance
  <2>2. V(v) <= v.rejections /\ V(v) <= reaction.retries
    <3> HIDE DEF V
    <3> QED BY <1>1, <1>5, <2>1
  <2> QED BY <2>2 DEF ReviewBalance
<1>6. CASE v.sent = w.sent /\ v.rejections \in {w.rejections, w.rejections + 1}
  BY <1>2, <1>4, <1>5, <1>6 DEF Done, C
<1>7. ASSUME NEW kind \in ReviewKinds, v.rejections = w.rejections + 1, v.sent = Append(w.sent, kind),
             kind = "review: rework" => w.rejections + 1 <= reaction.retries
      PROVE  /\ C(v) = C(w) /\ (Done(v) => Done(w))
             /\ ReviewBalance(w, reaction) => ReviewBalance(v, reaction)
  <2>1. kind \in Kinds \ {"ci: urgent", "ci: rework", "ci: attention"} /\ kind # "merge: done" BY DEF ReviewKinds, Kinds
  <2>2. C(v) = C(w) /\ V(v) = (IF kind = "review: rework" THEN V(w) + 1 ELSE V(w)) /\ (Done(v) => Done(w))
    BY <1>3, <1>7, <2>1
  <2>3. ASSUME V(w) <= w.rejections, V(w) <= reaction.retries
        PROVE  V(v) <= v.rejections /\ V(v) <= reaction.retries
    <3> HIDE DEF V
    <3>0. v.rejections = w.rejections + 1 /\ w.rejections \in Nat /\ V(w) \in Nat /\ reaction.retries \in Nat
      BY <1>1, <1>7
    <3>1. CASE kind = "review: rework"
      <4>1. V(v) = V(w) + 1 BY <2>2, <3>1
      <4>2. w.rejections + 1 <= reaction.retries BY <1>7, <3>1
      <4> QED BY <2>3, <3>0, <4>1, <4>2
    <3>2. CASE kind # "review: rework"
      <4>1. V(v) = V(w) BY <2>2, <3>2
      <4> QED BY <2>3, <3>0, <4>1
    <3> QED BY <3>1, <3>2
  <2> QED BY <2>2, <2>3 DEF ReviewBalance
<1>8. ASSUME NEW kind \in {"merge: ready", "merge: blocked", "merged"}, v.rejections = w.rejections,
             v.sent = Append(w.sent, kind)
      PROVE  C(v) = C(w) /\ (Done(v) => Done(w)) /\ V(v) = V(w)
  <2>1. kind \in Kinds \ {"ci: urgent", "ci: rework", "ci: attention"} /\ kind \notin {"merge: done", "review: rework"}
    BY DEF Kinds
  <2> QED BY <1>3, <1>8, <2>1
<1>9. ASSUME v.rejections = w.rejections, v.sent = Append(w.sent, "merge: done")
      PROVE  C(v) = C(w) /\ V(v) = V(w) /\ Last(v.sent) = "merge: done"
  <2>1. "merge: done" \in Kinds \ {"ci: urgent", "ci: rework", "ci: attention"} BY DEF Kinds
  <2> QED BY <1>3, <1>9, <2>1
<1> HIDE DEF V
<1>10. \/ v.sent = w.sent /\ v.rejections \in {w.rejections, w.rejections + 1}
       \/ \E kind \in ReviewKinds : /\ v.rejections = w.rejections + 1
                                    /\ v.sent = Append(w.sent, kind)
                                    /\ kind = "review: rework" => w.rejections + 1 <= reaction.retries
       \/ \E kind \in {"merge: ready", "merge: blocked", "merged"} :
            v.rejections = w.rejections /\ v.sent = Append(w.sent, kind)
       \/ /\ v.rejections = w.rejections /\ v.sent = Append(w.sent, "merge: done")
          /\ ~v.watched /\ Observed(w, a)
          /\ CISummary(a.ci) = "passing" /\ CISummary(a.ciAgain) \notin {"failing", "pending"}
          /\ ReviewDecision(a.reviews, a.requested) = "approved"
  BY DEF Rest
<1>11. CASE \E kind \in ReviewKinds : /\ v.rejections = w.rejections + 1
                                      /\ v.sent = Append(w.sent, kind)
                                      /\ kind = "review: rework" => w.rejections + 1 <= reaction.retries
  <2>1. C(v) = C(w) /\ (Done(v) => Done(w)) /\ (ReviewBalance(w, reaction) => ReviewBalance(v, reaction))
    <3>1. PICK kind \in ReviewKinds : /\ v.rejections = w.rejections + 1
                                      /\ v.sent = Append(w.sent, kind)
                                      /\ kind = "review: rework" => w.rejections + 1 <= reaction.retries
      BY <1>11
    <3>2. kind = "review: rework" => w.rejections + 1 <= reaction.retries BY <3>1
    <3>3. v.rejections = w.rejections + 1 /\ v.sent = Append(w.sent, kind) BY <3>1
    <3> QED BY <1>7, <3>2, <3>3, Zenon
  <2> QED BY <1>2, <1>4, <2>1
<1>12. CASE \E kind \in {"merge: ready", "merge: blocked", "merged"} :
              v.rejections = w.rejections /\ v.sent = Append(w.sent, kind)
  BY <1>2, <1>4, <1>5, <1>8, <1>12
<1>13. CASE /\ v.rejections = w.rejections /\ v.sent = Append(w.sent, "merge: done")
            /\ ~v.watched /\ Observed(w, a)
            /\ CISummary(a.ci) = "passing" /\ CISummary(a.ciAgain) \notin {"failing", "pending"}
            /\ ReviewDecision(a.reviews, a.requested) = "approved"
  BY <1>2, <1>4, <1>5, <1>9, <1>13
<1> QED BY <1>6, <1>10, <1>11, <1>12, <1>13

\* The answers that were found red, of the first k
RedUpTo(answers, ws, k) == {i \in 1 .. k : FoundRed(ws[i], answers[i])}
Merged(answers, ws, i) ==
  /\ Observed(ws[i], answers[i]) /\ ~ws[i + 1].watched
  /\ CISummary(answers[i].ci) = "passing"
  /\ CISummary(answers[i].ciAgain) \notin {"failing", "pending"}
  /\ ReviewDecision(answers[i].reviews, answers[i].requested) = "approved"
\* After k polls what was sent is what was found.
SoundUpTo(answers, reactions, ws, k) ==
  LET w == ws[k + 1]
  IN  /\ reactions.ci # NoReaction => /\ CIBalance(w, reactions.ci)
                                      /\ w.failures = Cardinality(RedUpTo(answers, ws, k))
      /\ ReviewBalance(w, reactions.review)
      /\ Done(w) => Last(w.sent) = "merge: done" /\ ~w.watched /\ \E i \in 1 .. k : Merged(answers, ws, i)

\* One poll more keeps it so.
LEMMA SoundPoll ==
  ASSUME NEW n \in Nat, NEW answers, NEW ws, NEW reactions \in ReactionsType, NEW k \in Nat, k < n,
         \A i \in 1 .. n : answers[i] \in AnswerType,
         \A i \in 1 .. n + 1 : ws[i] \in WatchType,
         \A i \in 1 .. n : ws[i + 1] = CheckRun(ws[i], answers[i], reactions),
         SoundUpTo(answers, reactions, ws, k)
  PROVE  SoundUpTo(answers, reactions, ws, k + 1)
<1> DEFINE w == ws[k + 1]
           a == answers[k + 1]
           v == ws[k + 2]
           old == RedUpTo(answers, ws, k)
           new == RedUpTo(answers, ws, k + 1)
<1>1. k + 1 \in 1 .. n /\ k + 1 \in 1 .. n + 1 /\ k + 2 \in 1 .. n + 1 /\ (k + 1) + 1 = k + 2 OBVIOUS
<1>2. w \in WatchType /\ a \in AnswerType /\ v \in WatchType /\ v = CheckRun(w, a, reactions) BY <1>1
<1>3. reactions.ci \in ReactionType /\ reactions.review \in ReactionType BY DEF ReactionsType
<1>4. /\ reactions.ci # NoReaction => CIBalance(w, reactions.ci) /\ w.failures = Cardinality(old)
      /\ ReviewBalance(w, reactions.review)
      /\ Done(w) => Last(w.sent) = "merge: done" /\ ~w.watched /\ \E i \in 1 .. k : Merged(answers, ws, i)
  BY DEF SoundUpTo
<1>5. Cardinality(new) = IF FoundRed(w, a) THEN Cardinality(old) + 1 ELSE Cardinality(old)
  <2>1. IsFiniteSet(old)
    <3>1. old \subseteq 1 .. k BY DEF RedUpTo
    <3>2. IsFiniteSet(1 .. k) BY FS_Interval
    <3> QED BY <3>1, <3>2, FS_Subset
  <2>2. new = (IF FoundRed(w, a) THEN old \cup {k + 1} ELSE old) /\ k + 1 \notin old
    BY <1>1 DEF RedUpTo
  <2> HIDE DEF new, old, w, a
  <2>3. CASE FoundRed(w, a) BY <2>1, <2>2, <2>3, FS_AddElement
  <2>4. CASE ~FoundRed(w, a) BY <2>2, <2>4
  <2> QED BY <2>3, <2>4
<1> HIDE DEF w, a, v, old, new
<1>6. PICK told \in WatchType : /\ Reds(w, told, a, reactions.ci)
                                /\ Rest(told, v, a, reactions.review)
                                /\ FoundRed(w, a) \/ told = w
  BY <1>2, PollTold
<1>7. ~w.watched => v = w BY <1>2, PollTold
<1>8. /\ reactions.ci # NoReaction /\ CIBalance(w, reactions.ci) =>
           /\ CIBalance(told, reactions.ci)
           /\ told.failures = IF FoundRed(w, a) THEN w.failures + 1 ELSE w.failures
      /\ ReviewBalance(w, reactions.review) => ReviewBalance(told, reactions.review)
      /\ Done(told) <=> Done(w)
  BY <1>2, <1>3, <1>6, RedsBalance
<1>9. /\ CIBalance(told, reactions.ci) => CIBalance(v, reactions.ci)
      /\ v.failures = told.failures
      /\ ReviewBalance(told, reactions.review) => ReviewBalance(v, reactions.review)
      /\ Done(v) /\ ~Done(told) =>
           /\ Last(v.sent) = "merge: done" /\ ~v.watched /\ Observed(told, a)
           /\ CISummary(a.ci) = "passing" /\ CISummary(a.ciAgain) \notin {"failing", "pending"}
           /\ ReviewDecision(a.reviews, a.requested) = "approved"
  BY <1>2, <1>3, <1>6, RestBalance
<1>10. reactions.ci # NoReaction => CIBalance(v, reactions.ci) /\ v.failures = Cardinality(new)
  BY <1>4, <1>5, <1>8, <1>9
<1>11. ReviewBalance(v, reactions.review) BY <1>4, <1>8, <1>9
<1>12. ASSUME Done(v)
       PROVE  Last(v.sent) = "merge: done" /\ ~v.watched /\ \E i \in 1 .. k + 1 : Merged(answers, ws, i)
  <2>1. CASE Done(w)
    <3>1. PICK i \in 1 .. k : Merged(answers, ws, i) BY <1>4, <2>1
    <3>2. i \in 1 .. k + 1 OBVIOUS
    <3>3. v = w BY <1>4, <1>7, <2>1
    <3> QED BY <1>4, <2>1, <3>1, <3>2, <3>3
  <2>2. CASE ~Done(w)
    <3>1. /\ Last(v.sent) = "merge: done" /\ ~v.watched /\ Observed(told, a)
          /\ CISummary(a.ci) = "passing" /\ CISummary(a.ciAgain) \notin {"failing", "pending"}
          /\ ReviewDecision(a.reviews, a.requested) = "approved"
      BY <1>8, <1>9, <1>12, <2>2
    <3>2. told = w BY <1>6, <3>1 DEF FoundRed
    <3>3. ws[(k + 1) + 1] = v BY <1>1 DEF v
    <3>4. /\ Observed(w, a) /\ ~v.watched /\ CISummary(a.ci) = "passing"
          /\ CISummary(a.ciAgain) \notin {"failing", "pending"}
          /\ ReviewDecision(a.reviews, a.requested) = "approved"
      BY <3>1, <3>2
    <3>5. Merged(answers, ws, k + 1) BY <3>3, <3>4 DEF Merged, w, a
    <3>6. k + 1 \in 1 .. k + 1 OBVIOUS
    <3> QED BY <3>1, <3>5, <3>6
  <2> QED BY <2>1, <2>2
<1> QED BY <1>1, <1>10, <1>11, <1>12 DEF SoundUpTo, v, new

\* Where nothing was sent or counted, all is balanced.
LEMMA ZeroBalance ==
  ASSUME NEW w, NEW r, r.retries \in Nat, w.failures = 0, w.rejections = 0, \A kind : Count(w.sent, kind) = 0
  PROVE CIBalance(w, r) /\ ReviewBalance(w, r)
<1> DEFINE a == Count(w.sent, "ci: rework")
           b == Count(w.sent, "ci: attention")
           c == Count(w.sent, "ci: urgent")
           d == Count(w.sent, "review: rework")
<1>1. a = 0 /\ b = 0 /\ c = 0 /\ d = 0 BY Zenon
<1> HIDE DEF a, b, c, d
<1>2. /\ a + b + c = w.failures
      /\ a <= r.retries /\ c = 0 /\ ~(w.failures > r.retries)
      /\ d <= w.rejections /\ d <= r.retries
  BY <1>1
<1>3. CIBalance(w, r) BY <1>2, Zenon DEF CIBalance, a, b, c
<1>4. ReviewBalance(w, r) BY <1>2, Zenon DEF ReviewBalance, d
<1> QED BY <1>3, <1>4

\* A watch is sound, whatever the requests of its polls answer.
LEMMA WatchesSound ==
  ASSUME NEW answers \in Seq(AnswerType), NEW reactions \in ReactionsType
  PROVE  WatchSound(answers, reactions, Polls(answers, reactions))
<1> DEFINE ws == Polls(answers, reactions)
           n == Len(answers)
<1>1. n \in Nat /\ DOMAIN answers = 1 .. n /\ \A i \in 1 .. n : answers[i] \in AnswerType
  BY LenProperties, ElementOfSeq
<1>2. /\ ws \in Seq(WatchType) /\ Len(ws) = n + 1 /\ ws[1] = Watch
      /\ \A i \in 1 .. n : ws[i + 1] = CheckRun(ws[i], answers[i], reactions)
  BY <1>1, PollsAre
<1> HIDE DEF ws, n
<1>3. \A i \in 1 .. n + 1 : ws[i] \in WatchType
  <2>1. DOMAIN ws = 1 .. n + 1 BY <1>2, LenProperties
  <2> QED BY <1>2, <2>1, ElementOfSeq
<1> DEFINE All == {k \in Nat : k <= n => SoundUpTo(answers, reactions, ws, k)}
<1>4. 0 \in All
  <2>1. Watch.sent = <<>> /\ Watch.failures = 0 /\ Watch.rejections = 0 BY DEF Watch
  <2>11. Watch.failures = 0 /\ Watch.rejections = 0 BY <2>1
  <2>2. \A kind : Count(Watch.sent, kind) = 0
    <3>1. DOMAIN Watch.sent = {} BY <2>1
    <3>2. \A kind : {i \in DOMAIN Watch.sent : Watch.sent[i] = kind} = {} BY <3>1
    <3> QED BY <3>2, FS_EmptySet DEF Count
  <2>3. ToSet(Watch.sent) = {} BY <2>1 DEF ToSet
  <2>4. \A r \in ReactionType : r.retries \in Nat BY DEF ReactionType
  <2>5. \A r \in ReactionType : CIBalance(Watch, r) /\ ReviewBalance(Watch, r)
    BY <2>2, <2>4, <2>11, ZeroBalance, Zenon
  <2>6. RedUpTo(answers, ws, 0) = {} BY DEF RedUpTo
  <2>7. Cardinality(RedUpTo(answers, ws, 0)) = 0 BY <2>6, FS_EmptySet
  <2>8. reactions.ci \in ReactionType /\ reactions.review \in ReactionType BY DEF ReactionsType
  <2>9. ws[0 + 1] = Watch BY <1>2
  <2>10. SoundUpTo(answers, reactions, ws, 0)
    BY <2>1, <2>3, <2>5, <2>7, <2>8, <2>9 DEF SoundUpTo, Done
  <2> QED BY <2>10
<1>5. ASSUME NEW k \in Nat, k \in All PROVE k + 1 \in All
  <2>1. SUFFICES ASSUME k + 1 <= n PROVE SoundUpTo(answers, reactions, ws, k + 1) OBVIOUS
  <2>2. k < n /\ SoundUpTo(answers, reactions, ws, k) BY <1>1, <1>5, <2>1
  <2> QED BY <1>1, <1>2, <1>3, <2>2, SoundPoll
<1>6. n \in All
  <2> HIDE DEF All
  <2> QED BY <1>1, <1>4, <1>5, Induction
<1>7. SoundUpTo(answers, reactions, ws, n) BY <1>1, <1>6
<1> DEFINE w == ws[n + 1]
           seen == {i \in DOMAIN answers : /\ ws[i].watched /\ answers[i].listed
                                           /\ answers[i].state = "open"
                                           /\ answers[i].fails \notin {"detect", "state", "ci"}}
           red == {i \in seen : CISummary(answers[i].ci) = "failing"}
<1>8. Last(ws) = w BY <1>2 DEF Last
<1>9. red = RedUpTo(answers, ws, n) /\ seen = {i \in 1 .. n : Observed(ws[i], answers[i])}
  BY <1>1 DEF RedUpTo, FoundRed, Observed
<1>10. w \in WatchType BY <1>1, <1>3
<1> HIDE DEF w, seen, red
<1>11. /\ reactions.ci # NoReaction => CIBalance(w, reactions.ci) /\ w.failures = Cardinality(red)
       /\ ReviewBalance(w, reactions.review)
       /\ Done(w) => Last(w.sent) = "merge: done" /\ \E i \in 1 .. n : Merged(answers, ws, i)
  BY <1>7, <1>9 DEF SoundUpTo, w
<1>12. reactions.ci # NoReaction =>
         /\ Count(w.sent, "ci: rework") + Count(w.sent, "ci: attention") + Count(w.sent, "ci: urgent") = Cardinality(red)
         /\ Count(w.sent, "ci: rework") <= reactions.ci.retries
         /\ Cardinality(red) > reactions.ci.retries =>
              Count(w.sent, "ci: urgent") = Cardinality(red) - reactions.ci.retries
  BY <1>11 DEF CIBalance
<1>13. Count(w.sent, "review: rework") <= reactions.review.retries BY <1>11 DEF ReviewBalance
<1>14. "merge: done" \in ToSet(w.sent) =>
         /\ Last(w.sent) = "merge: done"
         /\ \E i \in seen : /\ ~ws[i + 1].watched
                            /\ CISummary(answers[i].ci) = "passing"
                            /\ CISummary(answers[i].ciAgain) \notin {"failing", "pending"}
                            /\ ReviewDecision(answers[i].reviews, answers[i].requested) = "approved"
  BY <1>9, <1>11 DEF Done, Merged
<1>15. WatchSound(answers, reactions, ws)
  BY <1>8, <1>12, <1>13, <1>14 DEF WatchSound, Count, seen, red
<1> QED BY <1>15 DEF ws

\* The lifecycle manager: a summary is green only when everything is, reworks end in a
\* call for help, and a merge is announced only for what may be merged.
THEOREM ReviewsHold == Spec => []ReviewsSound
<1>1. DecisionInv => ReviewsSound
  <2> SUFFICES ASSUME DecisionInv PROVE ReviewsSound OBVIOUS
  <2>1. ASSUME Decided("checks") PROVE GreenOnly(subject.ci, verdict[1])
    <3>1. subject.ci \in SummaryType /\ verdict[1] = CISummary(subject.ci)
      BY <2>1, InputKinds, ReviewsAssumption DEF DecisionInv, Reported, Decided
    <3> QED BY <3>1, GreenSummary
  <2>2. ASSUME Decided("review") PROVE WatchSound(subject.answers, subject.reactions, verdict[1])
    <3>1. /\ subject.answers \in Seq(AnswerType) /\ subject.reactions \in ReactionsType
          /\ verdict[1] = Polls(subject.answers, subject.reactions)
      BY <2>2, InputKinds, ReviewsAssumption DEF DecisionInv, Reported, Decided, ReactionsType
    <3> QED BY <3>1, WatchesSound
  <2> QED BY <2>1, <2>2 DEF ReviewsSound
<1> QED BY <1>1, DecisionInvHolds, PTL

-----------------------------------------------------------------------------
\* The rate limiter, request after request.

Idle == [bucket |-> NoBucket, times |-> <<>>]
Met(s, now, window, limit) ==
  LET b == Consume(s.bucket, now, window, limit)
  IN  [bucket |-> b, times |-> IF b.allowed THEN Append(s.times, now) ELSE s.times]
BucketType == [count : Nat, start : Nat, allowed : BOOLEAN, fresh : BOOLEAN]

\* The limiter, one request after the other
AllowedBy(g, times, window, limit, n) ==
  /\ g[0] = Idle
  /\ \A k \in 1 .. n : g[k] = Met(g[k - 1], times[k], window, limit)
  /\ Allowed(times, window, limit) = g[n].times

\* Allowed, a fold over the times, is so.
LEMMA AllowedUnfolds ==
  ASSUME NEW times, NEW window, NEW limit, NEW n \in Nat, DOMAIN times = 1 .. n
  PROVE  \E g : AllowedBy(g, times, window, limit, n)
<1> DEFINE Op(s, now) == Met(s, now, window, limit)
           Is(g, k) == g = [T \in SUBSET (1 .. k) |-> IF T = {} THEN Idle ELSE Op(g[T \ {Max(T)}], times[Max(T)])]
           All == {k \in Nat : \E g : Is(g, k)}
<1>1. 0 \in All
  <2> DEFINE g0 == [T \in SUBSET (1 .. 0) |-> Idle]
  <2>1. \A T \in SUBSET (1 .. 0) : T = {} OBVIOUS
  <2>2. Is(g0, 0) BY <2>1
  <2> QED BY <2>2
<1>2. ASSUME NEW k \in Nat, k \in All PROVE k + 1 \in All
  <2>1. PICK g : Is(g, k) BY <1>2
  <2> DEFINE h == [T \in SUBSET (1 .. k + 1) |-> IF k + 1 \in T THEN Op(g[T \ {k + 1}], times[k + 1]) ELSE g[T]]
  <2> HIDE DEF Op
  <2>2. ASSUME NEW T \in SUBSET (1 .. k + 1)
        PROVE  h[T] = IF T = {} THEN Idle ELSE Op(h[T \ {Max(T)}], times[Max(T)])
    <3>1. CASE k + 1 \in T
      <4>1. Max(T) = k + 1 BY <3>1, MaxOfPrefix
      <4>2. T \ {k + 1} \in SUBSET (1 .. k + 1) /\ k + 1 \notin T \ {k + 1} OBVIOUS
      <4>3. h[T \ {k + 1}] = g[T \ {k + 1}] BY <4>2
      <4> QED BY <3>1, <4>1, <4>3
    <3>2. CASE k + 1 \notin T
      <4>1. T \in SUBSET (1 .. k) BY <3>2
      <4>2. h[T] = g[T] BY <3>2
      <4>3. g[T] = IF T = {} THEN Idle ELSE Op(g[T \ {Max(T)}], times[Max(T)]) BY <2>1, <4>1
      <4>4. T \ {Max(T)} \in SUBSET (1 .. k + 1) /\ k + 1 \notin T \ {Max(T)} BY <3>2
      <4>5. h[T \ {Max(T)}] = g[T \ {Max(T)}] BY <4>4
      <4> QED BY <4>2, <4>3, <4>5
    <3> QED BY <3>1, <3>2
  <2>3. Is(h, k + 1) BY <2>2
  <2>4. \E x : Is(x, k + 1) BY <2>3
  <2> HIDE DEF Is
  <2> QED BY <2>4
<1>3. n \in All
  <2> HIDE DEF All
  <2> QED BY <1>1, <1>2, Induction
<1>4. PICK f : Is(f, n) BY <1>3, Zenon
<1>5. Allowed(times, window, limit) = (CHOOSE g : Is(g, n))[1 .. n].times
  BY DEF Allowed, Met, Idle, FoldLeft, MapThenFoldSet
<1> DEFINE c == CHOOSE g : Is(g, n)
<1>6. Is(c, n) BY <1>4, Zenon
<1> HIDE DEF c, Op
<1> DEFINE e == [k \in 0 .. n |-> c[1 .. k]]
<1>7. e[0] = Idle
  <2>1. 1 .. 0 = {} /\ {} \in SUBSET (1 .. n) OBVIOUS
  <2> QED BY <1>6, <2>1
<1>8. ASSUME NEW k \in 1 .. n PROVE e[k] = Op(e[k - 1], times[k])
  <2>1. 1 .. k \in SUBSET (1 .. n) /\ 1 .. k # {} /\ (1 .. k) \ {k} = 1 .. (k - 1) OBVIOUS
  <2>2. Max(1 .. k) = k
    <3>1. k - 1 \in Nat /\ 1 .. k \in SUBSET (1 .. (k - 1) + 1) /\ (k - 1) + 1 \in 1 .. k /\ (k - 1) + 1 = k OBVIOUS
    <3> QED BY <3>1, MaxOfPrefix
  <2>3. c[1 .. k] = Op(c[1 .. (k - 1)], times[k]) BY <1>6, <2>1, <2>2
  <2> QED BY <2>3
<1>9. Allowed(times, window, limit) = e[n].times BY <1>5 DEF c
<1> HIDE DEF e
<1> QED BY <1>7, <1>8, <1>9 DEF Op, AllowedBy

\* A bucket that is not fresh, and what was let through while it and those before it were:
\* from no instant on more within a window's length than this.
BucketInv(b, t, window, limit) ==
  /\ b \in BucketType /\ t \in Seq(Nat)
  /\ b.fresh => t = <<>>
  /\ ~b.fresh =>
       /\ b.start \in ToSet(t) /\ 1 <= b.count /\ b.count <= limit
       /\ \A f \in Nat :
            LET many == HowMany(t, f .. f + window - 1)
            IN  /\ b.start < f => many <= b.count - 1
                /\ f <= b.start /\ b.start < f + window => many <= limit - 1 + b.count
                /\ f + window <= b.start => many <= 2 * limit - 1

\* A request that comes at a time no earlier than those before it keeps that.  If it is
\* turned away, the bucket is full and was begun less than a window's length before.
LEMMA RequestMet ==
  ASSUME NEW window \in Nat \ {0}, NEW limit \in Nat \ {0}, NEW now \in Nat,
         NEW b, NEW t, BucketInv(b, t, window, limit), \A a \in ToSet(t) : a <= now
  PROVE  LET c == Consume(b, now, window, limit)
             u == IF c.allowed THEN Append(t, now) ELSE t
         IN  /\ BucketInv(c, u, window, limit)
             /\ ToSet(u) = IF c.allowed THEN ToSet(t) \cup {now} ELSE ToSet(t)
             /\ ~c.allowed => b.start \in ToSet(t) /\ now - b.start < window
<1> DEFINE c == Consume(b, now, window, limit)
           u == Append(t, now)
           Old(f) == HowMany(t, f .. f + window - 1)
           New(f) == HowMany(u, f .. f + window - 1)
<1>1. /\ window \in Nat /\ window >= 1 /\ limit \in Nat /\ limit >= 1 OBVIOUS
<1>2. /\ b.count \in Nat /\ b.start \in Nat /\ b.allowed \in BOOLEAN /\ b.fresh \in BOOLEAN /\ b \in BucketType
      /\ t \in Seq(Nat) /\ (b.fresh => t = <<>>)
  BY DEF BucketInv, BucketType
<1>3. ASSUME ~b.fresh
      PROVE  /\ b.start \in ToSet(t) /\ 1 <= b.count /\ b.count <= limit /\ b.start <= now
             /\ \A f \in Nat :
                  /\ b.start < f => Old(f) <= b.count - 1
                  /\ f <= b.start /\ b.start < f + window => Old(f) <= limit - 1 + b.count
                  /\ f + window <= b.start => Old(f) <= 2 * limit - 1
  BY <1>3 DEF BucketInv
<1> DEFINE Bounded(f, many, count) ==
             /\ b.start < f => many <= count - 1
             /\ f <= b.start /\ b.start < f + window => many <= limit - 1 + count
             /\ f + window <= b.start => many <= 2 * limit - 1
<1>4. u \in Seq(Nat) /\ ToSet(u) = ToSet(t) \cup {now}
  <2> DEFINE n == Len(t)
  <2>1. /\ u \in Seq(Nat) /\ n \in Nat /\ DOMAIN t = 1 .. n /\ DOMAIN u = 1 .. n + 1
        /\ (\A i \in 1 .. n : u[i] = t[i]) /\ u[n + 1] = now
    BY <1>2, AppendProperties, LenProperties
  <2> HIDE DEF n, u
  <2>2. ASSUME NEW x \in ToSet(u) PROVE x \in ToSet(t) \cup {now}
    <3>1. PICK i \in 1 .. n + 1 : x = u[i] BY <2>1 DEF ToSet
    <3>2. CASE i \in 1 .. n BY <2>1, <3>1, <3>2 DEF ToSet
    <3>3. CASE i = n + 1 BY <2>1, <3>1, <3>3
    <3> QED BY <2>1, <3>2, <3>3
  <2>3. ASSUME NEW x \in ToSet(t) \cup {now} PROVE x \in ToSet(u)
    <3>1. CASE x \in ToSet(t)
      <4>1. PICK i \in 1 .. n : x = t[i] BY <2>1, <3>1 DEF ToSet
      <4>2. i \in 1 .. n + 1 /\ x = u[i] BY <2>1, <4>1
      <4> QED BY <2>1, <4>2 DEF ToSet
    <3>2. CASE x = now
      <4>1. n + 1 \in 1 .. n + 1 BY <2>1
      <4> QED BY <2>1, <3>2, <4>1 DEF ToSet
    <3> QED BY <3>1, <3>2
  <2> QED BY <2>1, <2>2, <2>3
<1>5. ASSUME NEW f \in Nat
      PROVE  /\ Old(f) \in Nat /\ New(f) \in Nat
             /\ New(f) = IF f <= now /\ now < f + window THEN Old(f) + 1 ELSE Old(f)
             /\ now < f => Old(f) = 0
  <2> DEFINE T == f .. f + window - 1
  <2>1. now \in T <=> f <= now /\ now < f + window BY <1>1
  <2>2. HowMany(t, T) \in Nat /\ HowMany(u, T) = IF now \in T THEN HowMany(t, T) + 1 ELSE HowMany(t, T)
    <3>1. t \in Seq(Nat) BY <1>2
    <3> HIDE DEF T
    <3> QED BY <3>1, HowManyAppended DEF u
  <2>3. now < f => HowMany(t, T) = 0
    <3> SUFFICES ASSUME now < f PROVE HowMany(t, T) = 0 OBVIOUS
    <3>1. ASSUME NEW i \in DOMAIN t PROVE t[i] \notin T
      <4>1. t[i] \in ToSet(t) BY DEF ToSet
      <4>2. t[i] \in Nat BY <1>2, ElementOfSeq, LenProperties
      <4>3. t[i] <= now BY <4>1
      <4> QED BY <1>1, <4>2, <4>3
    <3> HIDE DEF T
    <3>2. {i \in DOMAIN t : t[i] \in T} = {} BY <3>1
    <3> QED BY <3>2, FS_EmptySet DEF HowMany
  <2> HIDE DEF T, u
  <2> QED BY <2>1, <2>2, <2>3 DEF T
<1> HIDE DEF Old, New, u
<1>6. CASE b.fresh \/ Reached(now - b.start, window)
  <2>1. c = [count |-> 1, start |-> now, allowed |-> TRUE, fresh |-> FALSE] BY <1>6 DEF Consume
  <2>2. /\ c \in BucketType /\ c.count = 1 /\ c.start = now /\ c.allowed /\ ~c.fresh BY <2>1 DEF BucketType
  <2>3. ASSUME NEW f \in Nat
        PROVE  /\ now < f => New(f) <= 1 - 1
               /\ f <= now /\ now < f + window => New(f) <= limit - 1 + 1
               /\ f + window <= now => New(f) <= 2 * limit - 1
    <3>1. CASE b.fresh
      <4>1. Old(f) = 0
        <5>1. DOMAIN t = {} BY <1>2, <3>1
        <5>2. {i \in DOMAIN t : t[i] \in f .. f + window - 1} = {} BY <5>1
        <5> QED BY <5>2, FS_EmptySet DEF HowMany, Old
      <4>2. New(f) = IF f <= now /\ now < f + window THEN 1 ELSE 0 BY <1>5, <4>1
      <4> QED BY <1>1, <4>2
    <3>2. CASE ~b.fresh
      <4>1. now - b.start >= window BY <1>6, <3>2 DEF Reached
      <4>2. b.start + window <= now BY <1>1, <1>2, <4>1
      <4>0. Bounded(f, Old(f), b.count) /\ 1 <= b.count /\ b.count <= limit BY <1>3, <3>2
      <4>5. Old(f) \in Nat /\ b.count \in Nat /\ b.start \in Nat BY <1>2, <1>5
      <4>3. Old(f) <= 2 * limit - 1 BY <1>1, <4>0, <4>5
      <4>4. f <= now /\ now < f + window => Old(f) <= limit - 1
        <5> SUFFICES ASSUME f <= now, now < f + window PROVE Old(f) <= limit - 1 OBVIOUS
        <5>1. b.start < f BY <1>1, <1>2, <4>2
        <5> QED BY <1>1, <4>0, <4>5, <5>1
      <4> QED BY <1>1, <1>5, <4>3, <4>4
    <3> QED BY <1>2, <3>1, <3>2
  <2>4. BucketInv(c, u, window, limit)
    <3>1. now \in ToSet(u) BY <1>4
    <3> QED BY <1>1, <1>4, <2>2, <2>3, <3>1 DEF BucketInv, New
  <2> QED BY <1>4, <2>2, <2>4 DEF u
<1>7. CASE ~(b.fresh \/ Reached(now - b.start, window)) /\ Reached(b.count, limit)
  <2>1. c = [b EXCEPT !.allowed = FALSE] BY <1>7 DEF Consume
  <2>2. c \in BucketType /\ c.count = b.count /\ c.start = b.start /\ ~c.allowed /\ c.fresh = b.fresh
    BY <1>2, <2>1 DEF BucketType
  <2>3. BucketInv(c, t, window, limit) BY <2>2 DEF BucketInv
  <2>4. now - b.start < window BY <1>1, <1>2, <1>7 DEF Reached, Undefined
  <2> QED BY <1>3, <1>7, <2>2, <2>3, <2>4
<1>8. CASE ~(b.fresh \/ Reached(now - b.start, window)) /\ ~Reached(b.count, limit)
  <2>1. c = [b EXCEPT !.count = @ + 1, !.allowed = TRUE] BY <1>8 DEF Consume
  <2>2. c \in BucketType /\ c.count = b.count + 1 /\ c.start = b.start /\ c.allowed /\ ~c.fresh
    <3>1. b \in BucketType /\ ~b.fresh BY <1>2, <1>8
    <3> DEFINE one == b.count + 1
    <3>2. one \in Nat /\ c = [b EXCEPT !.count = one, !.allowed = TRUE] BY <1>2, <2>1
    <3> HIDE DEF c, one
    <3>3. c \in BucketType /\ c.count = one /\ c.start = b.start /\ c.allowed = TRUE /\ c.fresh = b.fresh
      BY <3>1, <3>2 DEF BucketType
    <3> QED BY <3>1, <3>3 DEF one
  <2>3. b.count < limit BY <1>1, <1>2, <1>8 DEF Reached, Undefined
  <2>4. ASSUME NEW f \in Nat
        PROVE  /\ b.start < f => New(f) <= (b.count + 1) - 1
               /\ f <= b.start /\ b.start < f + window => New(f) <= limit - 1 + (b.count + 1)
               /\ f + window <= b.start => New(f) <= 2 * limit - 1
    <3>1. Bounded(f, Old(f), b.count) /\ b.start <= now BY <1>3, <1>8
    <3>2. Old(f) \in Nat /\ b.count \in Nat /\ b.start \in Nat BY <1>2, <1>5
    <3>3. New(f) = IF f <= now /\ now < f + window THEN Old(f) + 1 ELSE Old(f) BY <1>5
    <3> QED BY <1>1, <3>1, <3>2, <3>3
  <2>5. BucketInv(c, u, window, limit)
    <3>1. b.start \in ToSet(u) BY <1>3, <1>4, <1>8
    <3> QED BY <1>1, <1>2, <1>4, <2>2, <2>3, <2>4, <3>1 DEF BucketInv, New
  <2> QED BY <1>4, <2>2, <2>5 DEF u
<1> QED BY <1>6, <1>7, <1>8

\* Over requests that come one after the other, the bounds hold.
LEMMA RatesBounded ==
  ASSUME NEW times \in Seq(Nat), \A i, j \in DOMAIN times : i < j => times[i] <= times[j],
         NEW window \in Nat \ {0}, NEW limit \in Nat \ {0}
  PROVE  RateBounded(times, window, limit, Allowed(times, window, limit))
<1> DEFINE n == Len(times)
           allowed == Allowed(times, window, limit)
<1>1. n \in Nat /\ DOMAIN times = 1 .. n /\ \A i \in 1 .. n : times[i] \in Nat BY LenProperties, ElementOfSeq
<1>2. PICK g : AllowedBy(g, times, window, limit, n) BY <1>1, AllowedUnfolds
<1> HIDE DEF n, allowed
<1> DEFINE Answered(k, i) ==
             times[i] \in ToSet(g[k].times) \/ \E a \in ToSet(g[k].times) : a <= times[i] /\ times[i] - a < window
           Good(k) == /\ BucketInv(g[k].bucket, g[k].times, window, limit)
                      /\ ToSet(g[k].times) \subseteq {times[i] : i \in 1 .. k}
                      /\ \A i \in 1 .. k : Answered(k, i)
           All == {k \in Nat : k <= n => Good(k)}
<1>3. 0 \in All
  <2>1. g[0].bucket = NoBucket /\ g[0].times = <<>> BY <1>2 DEF AllowedBy, Idle
  <2>2. BucketInv(NoBucket, <<>>, window, limit)
    <3>1. NoBucket \in BucketType /\ NoBucket.fresh BY DEF NoBucket, BucketType
    <3> DEFINE e == <<>>
    <3>2. e \in Seq(Nat) /\ e = <<>> OBVIOUS
    <3> QED BY <3>1, <3>2 DEF BucketInv
  <2>3. ToSet(g[0].times) = {} BY <2>1 DEF ToSet
  <2> QED BY <2>1, <2>2, <2>3
<1>4. ASSUME NEW k \in Nat, k \in All PROVE k + 1 \in All
  <2>1. SUFFICES ASSUME k + 1 <= n PROVE Good(k + 1) OBVIOUS
  <2>2. Good(k) /\ k + 1 \in 1 .. n /\ k = (k + 1) - 1 BY <1>1, <1>4, <2>1
  <2> DEFINE now == times[k + 1]
             b == g[k].bucket
             t == g[k].times
             c == Consume(b, now, window, limit)
             u == IF c.allowed THEN Append(t, now) ELSE t
  <2>3. g[k + 1] = Met(g[k], now, window, limit) BY <1>2, <2>2 DEF AllowedBy
  <2>4. g[k + 1].bucket = c /\ g[k + 1].times = u BY <2>3 DEF Met
  <2>5. now \in Nat BY <1>1, <2>2
  <2>6. \A a \in ToSet(t) : a <= now
    <3>1. TAKE a \in ToSet(t)
    <3>2. PICK i \in 1 .. k : a = times[i] BY <2>2
    <3>3. i \in DOMAIN times /\ k + 1 \in DOMAIN times /\ i < k + 1 BY <1>1, <2>2
    <3> QED BY <3>2, <3>3
  <2>7. /\ BucketInv(c, u, window, limit)
        /\ ToSet(u) = IF c.allowed THEN ToSet(t) \cup {now} ELSE ToSet(t)
        /\ ~c.allowed => b.start \in ToSet(t) /\ now - b.start < window
    BY <2>2, <2>5, <2>6, RequestMet
  <2> HIDE DEF c, u, b, t
  <2>8. ToSet(u) \subseteq {times[i] : i \in 1 .. k + 1}
    <3>1. {times[i] : i \in 1 .. k} \subseteq {times[i] : i \in 1 .. k + 1} /\ now \in {times[i] : i \in 1 .. k + 1}
      BY <2>2
    <3>2. ToSet(t) \subseteq {times[i] : i \in 1 .. k} BY <2>2 DEF t
    <3> QED BY <2>7, <3>1, <3>2
  <2>9. ToSet(t) \subseteq ToSet(u) BY <2>7
  <2>10. ASSUME NEW i \in 1 .. k + 1
         PROVE  times[i] \in ToSet(u) \/ \E a \in ToSet(u) : a <= times[i] /\ times[i] - a < window
    <3>1. CASE i \in 1 .. k
      <4>1. times[i] \in ToSet(t) \/ \E a \in ToSet(t) : a <= times[i] /\ times[i] - a < window
        BY <2>2, <3>1 DEF t
      <4> QED BY <2>9, <4>1
    <3>2. CASE i = k + 1 /\ c.allowed BY <2>7, <3>2
    <3>3. CASE i = k + 1 /\ ~c.allowed
      <4>1. b.start \in ToSet(u) /\ b.start <= now /\ now - b.start < window BY <2>6, <2>7, <3>3
      <4> QED BY <3>3, <4>1
    <3> QED BY <3>1, <3>2, <3>3
  <2> QED BY <2>4, <2>7, <2>8, <2>10
<1>5. n \in All
  <2> HIDE DEF All
  <2> QED BY <1>1, <1>3, <1>4, Induction
<1>6. Good(n) BY <1>1, <1>5
<1>7. allowed = g[n].times BY <1>2 DEF AllowedBy, allowed
<1>8. /\ allowed \in Seq(Nat)
      /\ \A i \in 1 .. n :
           times[i] \in ToSet(allowed) \/ \E a \in ToSet(allowed) : a <= times[i] /\ times[i] - a < window
  BY <1>6, <1>7 DEF BucketInv
<1>9. ASSUME NEW f \in Nat PROVE HowMany(allowed, f .. f + window - 1) <= 2 * limit - 1
  <2> DEFINE b == g[n].bucket
             many == HowMany(allowed, f .. f + window - 1)
  <2>1. BucketInv(b, allowed, window, limit) BY <1>6, <1>7
  <2> HIDE DEF b
  <2>2. CASE b.fresh
    <3>1. allowed = <<>> BY <2>1, <2>2 DEF BucketInv
    <3>2. {i \in DOMAIN allowed : allowed[i] \in f .. f + window - 1} = {} BY <3>1
    <3>3. many = 0 BY <3>2, FS_EmptySet DEF HowMany
    <3> QED BY <3>3
  <2>3. CASE ~b.fresh
    <3>1. /\ b.start \in Nat /\ b.count \in Nat /\ b.count <= limit
          /\ b.start < f => many <= b.count - 1
          /\ f <= b.start /\ b.start < f + window => many <= limit - 1 + b.count
          /\ f + window <= b.start => many <= 2 * limit - 1
      BY <2>1, <2>3 DEF BucketInv, BucketType
    <3>2. many \in Nat
      <4>1. 0 \in Nat OBVIOUS
      <4> QED BY <1>8, <4>1, HowManyAppended
    <3> HIDE DEF many
    <3>3. many <= 2 * limit - 1 BY <3>1, <3>2
    <3> QED BY <3>3 DEF many
  <2> QED BY <2>2, <2>3
<1>10. ASSUME NEW i \in 1 .. n
       PROVE  Cardinality({j \in DOMAIN allowed : times[i] <= allowed[j] /\ allowed[j] < times[i] + window}) <= 2 * limit - 1
  <2> DEFINE f == times[i]
  <2>1. f \in Nat BY <1>1
  <2> HIDE DEF f
  <2>2. \A j \in DOMAIN allowed : allowed[j] \in Nat BY <1>8, LenProperties, ElementOfSeq
  <2>3. {j \in DOMAIN allowed : f <= allowed[j] /\ allowed[j] < f + window}
          = {j \in DOMAIN allowed : allowed[j] \in f .. f + window - 1}
    BY <2>1, <2>2
  <2>4. Cardinality({j \in DOMAIN allowed : f <= allowed[j] /\ allowed[j] < f + window}) <= 2 * limit - 1
    BY <1>9, <2>1, <2>3 DEF HowMany
  <2> QED BY <2>4 DEF f
<1> QED BY <1>1, <1>8, <1>10 DEF RateBounded, allowed

-----------------------------------------------------------------------------
\* The ingestion service, request after request.

ServiceShape(s) ==
  /\ DOMAIN s = {"tables", "published", "redis", "buckets", "answers"}
  /\ DOMAIN s.tables = Routes
  /\ s.answers \in Seq(Nat)
\* A request that may write: it has the token, its body is valid, and its run is there.
Admitted(s, r) ==
  /\ r.token = "right"
  /\ \A f \in RequiredFields[r.route] : r.body[f] \in {"ok", "long"}
  /\ r.route = "runs" \/ r.run \in DOMAIN s.tables.runs
\* What becomes of a request: it is refused, or it writes and if it is a new event that is
\* announced, or nobody knows whether it did.
Unannounced(s, v) == v.published = s.published /\ v.redis = s.redis
Effect(s, r, v, code) ==
  LET fresh == r.key \notin DOMAIN s.tables[r.route]
  IN  \/ code \notin {200, 201} /\ v.tables = s.tables /\ Unannounced(s, v)
      \/ /\ Admitted(s, r)
         /\ v.tables = [s.tables EXCEPT ![r.route] = RowsAfter(@, r)]
         /\ \/ r.db = "lost" /\ code = 503 /\ Unannounced(s, v)
            \/ /\ r.route = "events" /\ fresh /\ code = 201
               /\ v.redis = Connects(s.redis, r.redis)
               /\ v.published = IF v.redis = "connected" /\ r.redis THEN Append(s.published, r.key) ELSE s.published
            \/ /\ ~(r.route = "events" /\ fresh) /\ code \in {200, 201} /\ (r.route = "events" => code = 200)
               /\ Unannounced(s, v)
Codes == {200, 201, 401, 403, 413, 422, 429, 503}

\* An answer changes nothing but the answers.
LEMMA Responded ==
  ASSUME NEW s, ServiceShape(s), NEW code \in Nat
  PROVE  LET v == Responds(s, code)
         IN  /\ ServiceShape(v) /\ v.answers = Append(s.answers, code)
             /\ v.tables = s.tables /\ Unannounced(s, v)
<1>1. Append(s.answers, code) \in Seq(Nat) BY AppendProperties DEF ServiceShape
<1> DEFINE t == Append(s.answers, code)
<1>2. Responds(s, code) = [s EXCEPT !.answers = t] BY DEF Responds
<1>3. t \in Seq(Nat) BY <1>1
<1> HIDE DEF t
<1>4. /\ DOMAIN Responds(s, code) = DOMAIN s /\ Responds(s, code).answers = t
      /\ Responds(s, code).tables = s.tables /\ Responds(s, code).published = s.published
      /\ Responds(s, code).redis = s.redis
  BY <1>2 DEF ServiceShape
<1> QED BY <1>3, <1>4 DEF ServiceShape, Unannounced, t

\* What a request has.
LEMMA PostFields ==
  ASSUME NEW route, NEW r \in PostType(route)
  PROVE  /\ r.route = route /\ r.id \in Nat /\ r.key \in STRING /\ r.token \in {"", "basic", "wrong", "right"}
         /\ r.db \in {"up", "down", "lost"} /\ r.redis \in BOOLEAN
         /\ r.body \in [Fields(route) -> {"ok", "long", "bad", ""}]
<1> DEFINE S == {"ok", "long", "bad", ""}
           Q == {"", "basic", "wrong", "right"}
<1>1. r \in [route : {route}, id : Nat, key : STRING, run : STRING, token : Q,
             big : BOOLEAN, object : BOOLEAN, body : [Fields(route) -> S],
             db : {"up", "down", "lost"}, redis : BOOLEAN]
  BY Zenon DEF PostType
<1> HIDE DEF S, Q
<1>2. /\ r.route = route /\ r.id \in Nat /\ r.key \in STRING /\ r.token \in Q
      /\ r.db \in {"up", "down", "lost"} /\ r.redis \in BOOLEAN /\ r.body \in [Fields(route) -> S]
  BY <1>1
<1> QED BY <1>2 DEF S, Q

\* A request that is let through to its body has the right token.
LEMMA TokenRight ==
  ASSUME NEW token, NEW route, NEW r \in PostType(route), token = r.token
  PROVE  /\ AuthAnswer(token) \in {0, 401, 403}
         /\ AuthAnswer(token) = 0 => token = "right"
<1> DEFINE Bad == {"", "basic"}
<1>1. token \in Bad \/ token = "wrong" \/ token = "right" BY PostFields, Zenon
<1>2. "wrong" \notin Bad /\ "right" \notin Bad BY Zenon
<1>3. AuthAnswer(token) = CASE token \in Bad -> 401 [] token = "wrong" -> 403 [] OTHER -> 0
  BY Zenon DEF AuthAnswer
<1> HIDE DEF Bad
<1>4. CASE token \in Bad
  <2>1. token # "wrong" BY <1>2, <1>4
  <2>2. AuthAnswer(token) = 401 BY <1>3, <1>4, <2>1
  <2> QED BY <2>2
<1>5. CASE token = "wrong"
  <2>1. token \notin Bad BY <1>2, <1>5
  <2>2. AuthAnswer(token) = 403 BY <1>3, <1>5, <2>1
  <2> QED BY <2>2
<1>6. CASE token = "right"
  <2>1. token \notin Bad /\ token # "wrong" BY <1>2, <1>6
  <2>2. AuthAnswer(token) = 0 BY <1>3, <2>1
  <2> QED BY <1>6, <2>2
<1> QED BY <1>1, <1>4, <1>5, <1>6

\* A body that is valid has every field that is required.
LEMMA RequiredThere ==
  ASSUME NEW route \in Routes, NEW r \in PostType(route), NEW limited, BodyValid(r, limited),
         NEW f \in RequiredFields[route]
  PROVE  r.body[f] \in {"ok", "long"}
<1>1. r.route = route /\ r.body \in [Fields(route) -> {"ok", "long", "bad", ""}] BY PostFields
<1>2. f \in Fields(route) BY DEF Fields
<1>3. r.body[f] \in {"ok", "long", "bad", ""} BY <1>1, <1>2, Zenon
<1>4. ~FieldRefused(route, f, r.body[f], limited) BY <1>1, <1>2, Zenon DEF BodyValid
<1>5. r.body[f] \notin {"", "bad"} BY <1>4, Zenon DEF FieldRefused
<1> QED BY <1>3, <1>5, Zenon

\* What a request does.
LEMMA Handled ==
  ASSUME NEW s, ServiceShape(s), NEW route \in Routes, NEW r \in PostType(route), NEW limits
  PROVE  LET v == Handles(s, r, limits)
         IN  /\ ServiceShape(v)
             /\ \E code \in Codes : v.answers = Append(s.answers, code) /\ Effect(s, r, v, code)
<1> DEFINE refused == AuthAnswer(r.token)
           bucket == Consume(s.buckets[r.route], 0, 1, limits.rate)
           counted == [s EXCEPT !.buckets[r.route] = bucket]
           v == Handles(s, r, limits)
<1>1. /\ r.route = route /\ r.token \in {"", "basic", "wrong", "right"} /\ r.db \in {"up", "down", "lost"}
      /\ r.redis \in BOOLEAN
  BY PostFields
<1>2. /\ DOMAIN counted = DOMAIN s /\ counted.tables = s.tables /\ counted.published = s.published
      /\ counted.redis = s.redis /\ counted.answers = s.answers
  <2> HIDE DEF bucket
  <2> QED BY DEF ServiceShape
<1>3. ServiceShape(counted) BY <1>2 DEF ServiceShape
<1>4. v = IF refused # 0 THEN Responds(s, refused)
          ELSE IF ~bucket.allowed THEN Responds(counted, 429)
          ELSE IF r.big /\ limits.size THEN Responds(counted, 413)
          ELSE IF ~BodyValid(r, limits.size) THEN Responds(counted, 422) ELSE Writes(counted, r)
  BY DEF Handles
<1>5. refused \in {0, 401, 403} /\ (refused = 0 => r.token = "right") BY <1>1, TokenRight
<1> HIDE DEF refused, bucket, counted, v
<1>6. CASE refused # 0
  <2>1. v = Responds(s, refused) BY <1>4, <1>6
  <2>2. refused \in Nat /\ refused \in Codes /\ refused \notin {200, 201} BY <1>5, <1>6 DEF Codes
  <2>3. /\ ServiceShape(v) /\ v.answers = Append(s.answers, refused)
        /\ v.tables = s.tables /\ Unannounced(s, v)
    BY ZenonT(30), <2>1, <2>2, Responded
  <2>4. Effect(s, r, v, refused) BY <2>2, <2>3 DEF Effect
  <2> QED BY <2>2, <2>3, <2>4 DEF v
<1>7. ASSUME NEW code \in {413, 422, 429, 503}, v = Responds(counted, code)
      PROVE  ServiceShape(v) /\ v.answers = Append(s.answers, code) /\ Effect(s, r, v, code) /\ code \in Codes
  <2>1. code \in Nat /\ code \in Codes /\ code \notin {200, 201} BY DEF Codes
  <2> DEFINE w == Responds(counted, code)
  <2>3. /\ ServiceShape(w) /\ w.answers = Append(counted.answers, code)
        /\ w.tables = counted.tables /\ Unannounced(counted, w)
    BY <1>3, <2>1, Responded
  <2> HIDE DEF w
  <2>2. /\ ServiceShape(v) /\ v.answers = Append(counted.answers, code)
        /\ v.tables = counted.tables /\ Unannounced(counted, v)
    BY <1>7, <2>3 DEF w
  <2> QED BY <1>2, <2>1, <2>2 DEF Effect, Unannounced
<1>8. CASE refused = 0 /\ ~(bucket.allowed /\ ~(r.big /\ limits.size) /\ BodyValid(r, limits.size))
  <2>1. v = Responds(counted, 429) \/ v = Responds(counted, 413) \/ v = Responds(counted, 422) BY <1>4, <1>8
  <2>2. PICK code \in {413, 422, 429, 503} : v = Responds(counted, code) BY <2>1
  <2> QED BY <1>7, <2>2 DEF v
<1>9. CASE refused = 0 /\ BodyValid(r, limits.size) /\ v = Writes(counted, r)
  <2> DEFINE fresh == r.key \notin DOMAIN s.tables[route]
             after == [counted EXCEPT !.tables[r.route] = RowsAfter(@, r)]
  <2>1. v = IF r.db = "down" \/ (r.route # "runs" /\ r.run \notin DOMAIN s.tables.runs) THEN Responds(counted, 503)
            ELSE IF r.db = "lost" THEN Responds(after, 503)
            ELSE CASE r.route = "events" /\ fresh -> Responds(Announced(after, r), 201)
                   [] r.route = "logs" /\ fresh -> Responds(after, 201)
                   [] OTHER -> Responds(after, 200)
    <3> DEFINE new == r.key \notin DOMAIN counted.tables[r.route]
    <3>1. v = IF r.db = "down" \/ (r.route # "runs" /\ r.run \notin DOMAIN counted.tables.runs) THEN Responds(counted, 503)
              ELSE IF r.db = "lost" THEN Responds(after, 503)
              ELSE CASE r.route = "events" /\ new -> Responds(Announced(after, r), 201)
                     [] r.route = "logs" /\ new -> Responds(after, 201)
                     [] OTHER -> Responds(after, 200)
      BY <1>9, Zenon DEF Writes
    <3>2. counted.tables = s.tables /\ r.route = route BY <1>1, <1>2
    <3> HIDE DEF after
    <3>3. new = fresh BY <3>2
    <3> HIDE DEF new, fresh
    <3> QED BY <3>1, <3>2, <3>3
  <2> HIDE DEF fresh
  <2>2. CASE r.db = "down" \/ (r.route # "runs" /\ r.run \notin DOMAIN s.tables.runs)
    <3>1. v = Responds(counted, 503) BY <2>1, <2>2
    <3>2. ServiceShape(v) /\ v.answers = Append(s.answers, 503) /\ Effect(s, r, v, 503) /\ 503 \in Codes BY <1>7, <3>1
    <3> QED BY <3>2 DEF v
  <2>3. CASE ~(r.db = "down" \/ (r.route # "runs" /\ r.run \notin DOMAIN s.tables.runs))
    <3>1. Admitted(s, r)
      <4>1. \A f \in RequiredFields[r.route] : r.body[f] \in {"ok", "long"} BY <1>1, <1>9, RequiredThere
      <4> QED BY <1>5, <1>9, <2>3, <4>1 DEF Admitted
    <3>2. /\ DOMAIN after = DOMAIN s /\ after.tables = [s.tables EXCEPT ![route] = RowsAfter(@, r)]
          /\ after.published = s.published /\ after.redis = s.redis /\ after.answers = s.answers
      BY <1>1, <1>2 DEF ServiceShape
    <3>3. ServiceShape(after) BY <3>2 DEF ServiceShape
    <3> HIDE DEF after
    <3>4. ASSUME NEW code \in {200, 201, 503}, v = Responds(after, code)
          PROVE  /\ ServiceShape(v) /\ v.answers = Append(s.answers, code) /\ code \in Codes
                 /\ v.tables = [s.tables EXCEPT ![r.route] = RowsAfter(@, r)] /\ Unannounced(s, v)
      <4>1. code \in Nat /\ code \in Codes BY DEF Codes
      <4> DEFINE w == Responds(after, code)
      <4>3. /\ ServiceShape(w) /\ w.answers = Append(after.answers, code)
            /\ w.tables = after.tables /\ Unannounced(after, w)
        BY <3>3, <4>1, Responded
      <4> HIDE DEF w
      <4>2. /\ ServiceShape(v) /\ v.answers = Append(after.answers, code)
            /\ v.tables = after.tables /\ Unannounced(after, v)
        BY <3>4, <4>3 DEF w
      <4> QED BY ZenonT(30), <1>1, <3>2, <4>1, <4>2 DEF Unannounced
    <3>5. CASE r.db = "lost"
      <4>1. v = Responds(after, 503) BY <2>1, <2>3, <3>5
      <4>2. Effect(s, r, v, 503) BY <3>1, <3>4, <3>5, <4>1 DEF Effect
      <4> QED BY <3>4, <4>1, <4>2 DEF v
    <3>6. CASE r.db # "lost" /\ r.route = "events" /\ fresh
      <4> DEFINE a == Announced(after, r)
                 redis == Connects(s.redis, r.redis)
                 told == IF redis = "connected" /\ r.redis THEN Append(s.published, r.key) ELSE s.published
      <4>1. v = Responds(a, 201) BY <2>1, <2>3, <3>6
      <4>2. a = [after EXCEPT !.redis = redis, !.published = told] BY <3>2 DEF Announced, ServiceShape
      <4> HIDE DEF a, redis, told
      <4>3. /\ DOMAIN a = DOMAIN s /\ a.tables = after.tables /\ a.answers = s.answers
            /\ a.redis = redis /\ a.published = told
        BY <3>2, <4>2 DEF ServiceShape
      <4>4. ServiceShape(a) BY <3>2, <3>3, <4>3 DEF ServiceShape
      <4>5. /\ ServiceShape(v) /\ v.answers = Append(a.answers, 201)
            /\ v.tables = a.tables /\ Unannounced(a, v)
        <5> DEFINE w == Responds(a, 201)
        <5>1. 201 \in Nat OBVIOUS
        <5>2. /\ ServiceShape(w) /\ w.answers = Append(a.answers, 201)
              /\ w.tables = a.tables /\ Unannounced(a, w)
          BY ZenonT(30), <4>4, <5>1, Responded
        <5> HIDE DEF w
        <5> QED BY <4>1, <5>2 DEF w
      <4>6. v.redis = redis /\ v.published = told BY <4>3, <4>5 DEF Unannounced
      <4>7. v.tables = [s.tables EXCEPT ![r.route] = RowsAfter(@, r)] BY <1>1, <3>2, <4>3, <4>5
      <4>8. r.key \notin DOMAIN s.tables[r.route] BY <1>1, <3>6 DEF fresh
      <4>9. Effect(s, r, v, 201)
        <5>1. v.published = IF v.redis = "connected" /\ r.redis THEN Append(s.published, r.key) ELSE s.published
          BY <4>6 DEF told
        <5>2. v.redis = Connects(s.redis, r.redis) BY <4>6 DEF redis
        <5> QED BY <3>1, <3>6, <4>7, <4>8, <5>1, <5>2, Zenon DEF Effect
      <4>10. 201 \in Codes BY DEF Codes
      <4>11. v.answers = Append(s.answers, 201) BY <4>3, <4>5
      <4> QED BY <4>5, <4>9, <4>10, <4>11 DEF v
    <3>7. CASE r.db # "lost" /\ ~(r.route = "events" /\ fresh)
      <4>1. v = Responds(after, 200) \/ (v = Responds(after, 201) /\ r.route = "logs") 
        <5> DEFINE x == Responds(after, 201)
                   y == Responds(after, 200)
                   z == CASE r.route = "events" /\ fresh -> Responds(Announced(after, r), 201)
                          [] r.route = "logs" /\ fresh -> x [] OTHER -> y
        <5>1. v = z BY <2>1, <2>3, <3>7
        <5> HIDE DEF x, y
        <5>4. (r.route = "logs" /\ fresh => z = x) /\ (~(r.route = "logs" /\ fresh) => z = y) BY <3>7
        <5> HIDE DEF z
        <5>2. CASE r.route = "logs" /\ fresh
          <6>1. v = x BY <5>1, <5>2, <5>4
          <6> QED BY <5>2, <6>1 DEF x
        <5>3. CASE ~(r.route = "logs" /\ fresh)
          <6>1. v = y BY <5>1, <5>3, <5>4
          <6>2. v = Responds(after, 200) BY <6>1 DEF y
          <6> QED BY <6>2
        <5> QED BY <5>2, <5>3
      <4>2. PICK code \in {200, 201, 503} : v = Responds(after, code) /\ code \in {200, 201} /\ (r.route = "events" => code = 200)
        BY <4>1
      <4>3. /\ ServiceShape(v) /\ v.answers = Append(s.answers, code) /\ code \in Codes
            /\ v.tables = [s.tables EXCEPT ![r.route] = RowsAfter(@, r)] /\ Unannounced(s, v)
        BY <3>4, <4>2
      <4>4. ~(r.route = "events" /\ r.key \notin DOMAIN s.tables[r.route]) BY <1>1, <3>7 DEF fresh
      <4>5. Effect(s, r, v, code) BY <3>1, <4>2, <4>3, <4>4 DEF Effect
      <4> QED BY <4>3, <4>5 DEF v
    <3> QED BY <3>5, <3>6, <3>7
  <2> QED BY <2>2, <2>3
<1> QED BY <1>4, <1>6, <1>8, <1>9

\* What a request makes of the rows of its table
Rewritten(rows, new, route, r) ==
  /\ DOMAIN new = DOMAIN rows \cup {r.key}
  /\ \A k \in DOMAIN rows \ {r.key} : new[k] = rows[k]
  /\ r.key \notin DOMAIN rows => new[r.key].id = r.id /\ new[r.key].created = r.id
  /\ r.key \in DOMAIN rows /\ route \in {"events", "logs"} => new = rows
  /\ r.key \in DOMAIN rows /\ route \in {"runs", "steps"} => new[r.key].id = r.id
  /\ r.key \in DOMAIN rows /\ route = "runs" => new[r.key].created = rows[r.key].created

\* That is what it makes of them.
LEMMA RowsChanged ==
  ASSUME NEW rows, NEW route \in Routes, NEW r \in PostType(route)
  PROVE  Rewritten(rows, RowsAfter(rows, r), route, r)
<1> DEFINE row == InsertedRow(r)
           new == RowsAfter(rows, r)
           key == r.key
<1>1. r.route = route BY PostFields
<1>2. route \in {"events", "runs", "steps", "logs"} BY DEF Routes, RequiredFields
<1>3. /\ row.id = r.id /\ row.created = r.id
      /\ [row EXCEPT !.created = rows[key].created].id = r.id
      /\ [row EXCEPT !.created = rows[key].created].created = rows[key].created
  BY DEF InsertedRow
<1>4. new = IF key \in DOMAIN rows /\ r.route \in {"events", "logs"} THEN rows
            ELSE IF key \in DOMAIN rows /\ r.route = "runs"
                   THEN Upserted(rows, key, [row EXCEPT !.created = rows[key].created])
            ELSE Upserted(rows, key, row)
  BY DEF RowsAfter
<1>5. \A x : /\ DOMAIN Upserted(rows, key, x) = DOMAIN rows \cup {key}
             /\ \A k \in DOMAIN rows \ {key} : Upserted(rows, key, x)[k] = rows[k]
             /\ Upserted(rows, key, x)[key] = x
  BY DEF Upserted
<1> HIDE DEF row, new, key
<1>6. CASE key \in DOMAIN rows /\ route \in {"events", "logs"}
  <2>1. new = rows BY <1>1, <1>4, <1>6
  <2> QED BY <1>6, <2>1 DEF new, key, Rewritten
<1>7. CASE key \in DOMAIN rows /\ route = "runs"
  <2> DEFINE kept == [row EXCEPT !.created = rows[key].created]
  <2>1. new = Upserted(rows, key, kept) BY <1>1, <1>4, <1>7
  <2>2. kept.id = r.id /\ kept.created = rows[key].created BY <1>3
  <2> HIDE DEF kept
  <2>3. DOMAIN new = DOMAIN rows \cup {key} /\ (\A k \in DOMAIN rows \ {key} : new[k] = rows[k]) /\ new[key] = kept
    BY <1>5, <2>1
  <2> QED BY <1>7, <2>2, <2>3 DEF new, key, Rewritten
<1>8. CASE key \notin DOMAIN rows \/ route = "steps"
  <2>1. new = Upserted(rows, key, row) BY <1>1, <1>4, <1>8
  <2>2. DOMAIN new = DOMAIN rows \cup {key} /\ (\A k \in DOMAIN rows \ {key} : new[k] = rows[k]) /\ new[key] = row
    BY <1>5, <2>1
  <2> QED BY <1>3, <1>8, <2>2 DEF new, key, Rewritten
<1> QED BY <1>2, <1>6, <1>7, <1>8

\* Of the first k requests, those that wrote a row
Taken(requests, s, route, key, k) ==
  {i \in 1 .. k : s.answers[i] \in {200, 201} /\ requests[i].route = route /\ requests[i].key = key}
RowFrom(requests, row, route, writers) ==
  /\ route \in {"events", "logs"} => row.id = requests[Min(writers)].id
  /\ route \in {"runs", "steps"} => row.id = requests[Max(writers)].id
  /\ route = "runs" => row.created = requests[Min(writers)].id
\* The rows are those of the requests that were taken.
RowsKept(requests, s, k) ==
  (\A i \in 1 .. k : requests[i].db # "lost") =>
    \A route \in Routes : \A key :
      LET writers == Taken(requests, s, route, key, k)
      IN  /\ key \in DOMAIN s.tables[route] <=> writers # {}
          /\ writers # {} => RowFrom(requests, s.tables[route][key], route, writers)
\* Each row is of a request that might write, and there is a run.
RowsAsked(requests, s, k) ==
  \A route \in Routes : \A key \in DOMAIN s.tables[route] :
    /\ DOMAIN s.tables["runs"] # {}
    /\ \E i \in 1 .. k : /\ requests[i].id = s.tables[route][key].id
                         /\ requests[i].token = "right" /\ s.answers[i] \in {200, 201, 503}
                         /\ \A f \in RequiredFields[route] : requests[i].body[f] \in {"ok", "long"}
\* What was announced is there, once, and so is what its sender was told is new.
Announcements(requests, s, k) ==
  /\ s.published \in Seq(STRING) /\ IsInjective(s.published)
  /\ ToSet(s.published) \subseteq DOMAIN s.tables["events"]
  /\ (\A j \in 1 .. k : requests[j].redis) => s.redis \in {"idle", "connected"}
  /\ \A i \in 1 .. k : requests[i].route = "events" /\ s.answers[i] = 201 /\ (\A j \in 1 .. i : requests[j].redis)
                         => requests[i].key \in ToSet(s.published)

\* The service before and after the request k + 1
ServiceStep(requests, s, v, k, code) ==
  /\ k \in Nat /\ code \in Codes
  /\ DOMAIN s.tables = Routes /\ DOMAIN v.tables = Routes
  /\ \A i \in 1 .. k + 1 : requests[i].route \in Routes /\ requests[i] \in PostType(requests[i].route)
  /\ (\A i \in 1 .. k : v.answers[i] = s.answers[i]) /\ v.answers[k + 1] = code
  /\ Effect(s, requests[k + 1], v, code)

\* A request is among those that were taken if it was.
LEMMA TakenGrows ==
  ASSUME NEW requests, NEW s, NEW v, NEW k, NEW code, ServiceStep(requests, s, v, k, code), NEW route, NEW key
  PROVE  LET old == Taken(requests, s, route, key, k)
             r == requests[k + 1]
         IN  /\ Taken(requests, v, route, key, k + 1)
                  = IF code \in {200, 201} /\ r.route = route /\ r.key = key THEN old \cup {k + 1} ELSE old
             /\ old \in SUBSET (1 .. k)
<1>1. /\ k \in Nat /\ (\A i \in 1 .. k : v.answers[i] = s.answers[i]) /\ v.answers[k + 1] = code
  BY DEF ServiceStep
<1>2. 1 .. k + 1 = (1 .. k) \cup {k + 1} /\ k + 1 \notin 1 .. k BY <1>1
<1>3. \A i \in 1 .. k : i \in Taken(requests, v, route, key, k + 1) <=> i \in Taken(requests, s, route, key, k)
  BY <1>1, <1>2 DEF Taken
<1>4. k + 1 \in Taken(requests, v, route, key, k + 1)
        <=> code \in {200, 201} /\ requests[k + 1].route = route /\ requests[k + 1].key = key
  BY <1>1, <1>2 DEF Taken
<1>5. Taken(requests, v, route, key, k + 1) \subseteq 1 .. k + 1 /\ Taken(requests, s, route, key, k) \subseteq 1 .. k
  BY DEF Taken
<1> QED BY <1>2, <1>3, <1>4, <1>5

\* The first and the last of the requests, when one more comes.
LEMMA FirstAndLast ==
  ASSUME NEW k \in Nat, NEW T \in SUBSET (1 .. k)
  PROVE  /\ Min(T \cup {k + 1}) = IF T = {} THEN k + 1 ELSE Min(T)
         /\ Max(T \cup {k + 1}) = k + 1
<1> DEFINE U == T \cup {k + 1}
<1>1. U \in SUBSET (1 .. k + 1) /\ k + 1 \in U /\ U \subseteq Nat /\ U # {} OBVIOUS
<1>2. Max(U) = k + 1 BY <1>1, MaxOfPrefix
<1>3. Min(U) \in U /\ \A y \in U : Min(U) <= y BY <1>1, MinOfNumbers
<1>4. CASE T = {}
  <2>1. U = {k + 1} BY <1>4
  <2>2. Min(U) = k + 1 BY <1>3, <2>1
  <2> QED BY <1>2, <1>4, <2>2
<1>5. CASE T # {}
  <2>1. Min(T) \in T /\ \A y \in T : Min(T) <= y
    <3>1. T \subseteq Nat OBVIOUS
    <3> QED BY <1>5, <3>1, MinOfNumbers
  <2>2. Min(T) \in 1 .. k /\ Min(T) \in U BY <2>1
  <2>3. Min(U) <= Min(T) BY <1>3, <2>2
  <2> HIDE DEF U
  <2>4. Min(U) \in T
    <3>1. Min(U) \in T \/ Min(U) = k + 1 BY <1>3 DEF U
    <3>2. Min(U) # k + 1 BY <2>2, <2>3
    <3> QED BY <3>1, <3>2
  <2>5. Min(U) \in 1 .. k /\ Min(T) <= Min(U) BY <2>1, <2>4
  <2>6. Min(U) = Min(T) BY <2>2, <2>3, <2>5
  <2> QED BY <1>2, <1>5, <2>6 DEF U
<1> QED BY <1>4, <1>5

\* A request writes to one table.
Wrote(s, v, r) == v.tables = [s.tables EXCEPT ![r.route] = RowsAfter(@, r)]
Grown(s, v, r) ==
  /\ r.route \in Routes /\ r \in PostType(r.route)
  /\ v.tables = s.tables \/ Wrote(s, v, r)
  /\ Wrote(s, v, r) => /\ v.tables[r.route] = RowsAfter(s.tables[r.route], r)
                       /\ \A route \in Routes \ {r.route} : v.tables[route] = s.tables[route]
  /\ \A route \in Routes : DOMAIN s.tables[route] \subseteq DOMAIN v.tables[route]

\* Tables grow: of the others nothing changes, and of its own but one row.
LEMMA TablesGrow ==
  ASSUME NEW requests, NEW s, NEW v, NEW k, NEW code, ServiceStep(requests, s, v, k, code)
  PROVE  Grown(s, v, requests[k + 1])
<1> DEFINE r == requests[k + 1]
           wrote == Wrote(s, v, r)
<1>1. k + 1 \in 1 .. k + 1 /\ DOMAIN s.tables = Routes BY DEF ServiceStep
<1>2. r.route \in Routes /\ r \in PostType(r.route) BY <1>1 DEF ServiceStep
<1>3. v.tables = s.tables \/ wrote BY DEF ServiceStep, Effect, Wrote
<1> HIDE DEF r
<1>4. wrote => /\ v.tables[r.route] = RowsAfter(s.tables[r.route], r)
               /\ \A route \in Routes \ {r.route} : v.tables[route] = s.tables[route]
  BY <1>1, <1>2 DEF Wrote
<1>5. DOMAIN RowsAfter(s.tables[r.route], r) = DOMAIN s.tables[r.route] \cup {r.key}
  <2> DEFINE rows == s.tables[r.route]
  <2> HIDE DEF rows
  <2>1. DOMAIN RowsAfter(rows, r) = DOMAIN rows \cup {r.key} BY <1>2, RowsChanged DEF Rewritten
  <2> QED BY <2>1 DEF rows
<1> HIDE DEF wrote
<1>6. ASSUME NEW route \in Routes PROVE DOMAIN s.tables[route] \subseteq DOMAIN v.tables[route]
  <2>1. CASE v.tables = s.tables BY <2>1
  <2>2. CASE wrote /\ route = r.route BY <1>4, <1>5, <2>2
  <2>3. CASE wrote /\ route # r.route BY <1>4, <2>3
  <2> QED BY <1>3, <2>1, <2>2, <2>3
<1> QED BY <1>2, <1>3, <1>4, <1>6 DEF r, wrote, Grown

\* The rows stay those of the requests that were taken.
LEMMA RowsKeptNext ==
  ASSUME NEW requests, NEW s, NEW v, NEW k, NEW code, ServiceStep(requests, s, v, k, code), RowsKept(requests, s, k)
  PROVE  RowsKept(requests, v, k + 1)
<1> DEFINE r == requests[k + 1]
           wrote == Wrote(s, v, r)
           Old(route, key) == Taken(requests, s, route, key, k)
           New(route, key) == Taken(requests, v, route, key, k + 1)
           Right(x, route, key, writers) ==
             /\ key \in DOMAIN x.tables[route] <=> writers # {}
             /\ writers # {} => RowFrom(requests, x.tables[route][key], route, writers)
<1>1. SUFFICES ASSUME \A i \in 1 .. k + 1 : requests[i].db # "lost", NEW route \in Routes, NEW key
               PROVE  Right(v, route, key, New(route, key))
  BY DEF RowsKept
<1>2. k \in Nat /\ k + 1 \in 1 .. k + 1 /\ 1 .. k \subseteq 1 .. k + 1 BY DEF ServiceStep
<1>3. r.db # "lost" BY <1>1, <1>2
<1>4. Right(s, route, key, Old(route, key))
  <2>1. \A i \in 1 .. k : requests[i].db # "lost" BY <1>1, <1>2
  <2> QED BY <2>1 DEF RowsKept
<1>5. /\ New(route, key) = IF code \in {200, 201} /\ r.route = route /\ r.key = key
                             THEN Old(route, key) \cup {k + 1} ELSE Old(route, key)
      /\ Old(route, key) \in SUBSET (1 .. k)
  BY TakenGrows
<1>6. \/ code \notin {200, 201} /\ v.tables = s.tables
      \/ code \in {200, 201} /\ wrote
  BY <1>3 DEF ServiceStep, Effect, Wrote
<1>7. /\ r.route \in Routes /\ r \in PostType(r.route)
      /\ wrote => /\ v.tables[r.route] = RowsAfter(s.tables[r.route], r)
                  /\ \A x \in Routes \ {r.route} : v.tables[x] = s.tables[x]
  BY TablesGrow DEF Grown
<1> HIDE DEF r, wrote, Old, New
<1>8. CASE code \notin {200, 201} /\ v.tables = s.tables
  <2>1. New(route, key) = Old(route, key) BY <1>5, <1>8
  <2> QED BY <1>4, <1>8, <2>1
<1>9. CASE code \in {200, 201} /\ wrote /\ route # r.route
  <2>1. New(route, key) = Old(route, key) BY <1>5, <1>9
  <2>2. v.tables[route] = s.tables[route] BY <1>7, <1>9
  <2> QED BY <1>4, <2>1, <2>2
<1>10. CASE code \in {200, 201} /\ wrote /\ route = r.route
  <2> DEFINE rows == s.tables[route]
             new == RowsAfter(rows, r)
             T == Old(route, key)
  <2>1. v.tables[route] = new BY <1>7, <1>10
  <2>2. r \in PostType(route) BY <1>7, <1>10
  <2> HIDE DEF rows, T
  <2>3. /\ DOMAIN new = DOMAIN rows \cup {r.key}
        /\ \A x \in DOMAIN rows \ {r.key} : new[x] = rows[x]
        /\ r.key \notin DOMAIN rows => new[r.key].id = r.id /\ new[r.key].created = r.id
        /\ r.key \in DOMAIN rows /\ route \in {"events", "logs"} => new = rows
        /\ r.key \in DOMAIN rows /\ route \in {"runs", "steps"} => new[r.key].id = r.id
        /\ r.key \in DOMAIN rows /\ route = "runs" => new[r.key].created = rows[r.key].created
    <3>1. Rewritten(rows, new, route, r) BY <1>1, <2>2, RowsChanged
    <3> HIDE DEF new
    <3> QED BY <3>1 DEF Rewritten
  <2> HIDE DEF new
  <2>4. (key \in DOMAIN rows <=> T # {}) /\ (T # {} => RowFrom(requests, rows[key], route, T)) BY <1>4 DEF rows, T
  <2>5. CASE key # r.key
    <3>1. New(route, key) = T BY <1>5, <2>5 DEF T
    <3>2. (key \in DOMAIN new <=> key \in DOMAIN rows) /\ (key \in DOMAIN rows => new[key] = rows[key]) BY <2>3, <2>5
    <3> QED BY <2>1, <2>4, <3>1, <3>2
  <2>6. CASE key = r.key
    <3> DEFINE U == T \cup {k + 1}
    <3>1. New(route, key) = U /\ T \in SUBSET (1 .. k) BY <1>5, <1>10, <2>6 DEF T
    <3>2. Min(U) = (IF T = {} THEN k + 1 ELSE Min(T)) /\ Max(U) = k + 1 BY <1>2, <3>1, FirstAndLast
    <3>3. key \in DOMAIN new /\ U # {} BY <2>3, <2>6
    <3> HIDE DEF U
    <3>4. requests[Max(U)].id = r.id BY <3>2 DEF r
    <3>5. CASE T = {}
      <4>1. new[key].id = r.id /\ new[key].created = r.id BY <2>3, <2>4, <2>6, <3>5
      <4>2. requests[Min(U)].id = r.id BY <3>2, <3>5 DEF r
      <4>3. RowFrom(requests, new[key], route, U) BY <3>4, <4>1, <4>2 DEF RowFrom
      <4> QED BY <2>1, <3>1, <3>3, <4>3
    <3>6. CASE T # {}
      <4>1. key \in DOMAIN rows /\ RowFrom(requests, rows[key], route, T) BY <2>4, <3>6
      <4>2. Min(U) = Min(T) BY <3>2, <3>6
      <4>3. route \in {"events", "logs"} => new[key].id = requests[Min(U)].id BY <2>3, <2>6, <4>1, <4>2 DEF RowFrom
      <4>4. route \in {"runs", "steps"} => new[key].id = requests[Max(U)].id BY <2>3, <2>6, <3>4, <4>1
      <4>5. route = "runs" => new[key].created = requests[Min(U)].id BY <2>3, <2>6, <4>1, <4>2 DEF RowFrom
      <4>6. RowFrom(requests, new[key], route, U) BY <4>3, <4>4, <4>5 DEF RowFrom
      <4> QED BY <2>1, <3>1, <3>3, <4>6
    <3> QED BY <3>5, <3>6
  <2> QED BY <2>5, <2>6
<1> QED BY <1>6, <1>8, <1>9, <1>10

\* Rows stay those of requests that might write.
LEMMA RowsAskedNext ==
  ASSUME NEW requests, NEW s, NEW v, NEW k, NEW code, ServiceStep(requests, s, v, k, code), RowsAsked(requests, s, k)
  PROVE  RowsAsked(requests, v, k + 1)
<1> DEFINE r == requests[k + 1]
           wrote == Wrote(s, v, r)
           Source(x, route, row, i) ==
             /\ requests[i].id = row.id
             /\ requests[i].token = "right" /\ x.answers[i] \in {200, 201, 503}
             /\ \A f \in RequiredFields[route] : requests[i].body[f] \in {"ok", "long"}
<1>1. SUFFICES ASSUME NEW route \in Routes, NEW key \in DOMAIN v.tables[route]
               PROVE  DOMAIN v.tables["runs"] # {} /\ \E i \in 1 .. k + 1 : Source(v, route, v.tables[route][key], i)
  BY DEF RowsAsked
<1>2. /\ k \in Nat /\ k + 1 \in 1 .. k + 1 /\ 1 .. k \subseteq 1 .. k + 1
      /\ (\A i \in 1 .. k : v.answers[i] = s.answers[i]) /\ v.answers[k + 1] = code
  BY DEF ServiceStep
<1>3. "runs" \in Routes BY DEF Routes, RequiredFields
<1>4. /\ r.route \in Routes /\ r \in PostType(r.route)
      /\ wrote => /\ v.tables[r.route] = RowsAfter(s.tables[r.route], r)
                  /\ \A x \in Routes \ {r.route} : v.tables[x] = s.tables[x]
      /\ DOMAIN s.tables["runs"] \subseteq DOMAIN v.tables["runs"]
  BY <1>3, TablesGrow DEF Grown
<1>5. \/ v.tables = s.tables
      \/ wrote /\ code \in {200, 201, 503} /\ Admitted(s, r)
  BY DEF ServiceStep, Effect, Wrote
<1> HIDE DEF r, wrote
<1>6. ASSUME key \in DOMAIN s.tables[route], v.tables[route][key] = s.tables[route][key]
      PROVE  DOMAIN v.tables["runs"] # {} /\ \E i \in 1 .. k + 1 : Source(v, route, v.tables[route][key], i)
  <2>1. DOMAIN s.tables["runs"] # {} /\ \E i \in 1 .. k : Source(s, route, s.tables[route][key], i)
    BY <1>6 DEF RowsAsked
  <2>2. PICK i \in 1 .. k : Source(s, route, s.tables[route][key], i) BY <2>1
  <2>3. i \in 1 .. k + 1 /\ Source(v, route, v.tables[route][key], i) BY <1>2, <1>6, <2>2
  <2> QED BY <1>4, <2>1, <2>3
<1>7. CASE v.tables = s.tables BY <1>1, <1>6, <1>7
<1>8. CASE wrote /\ route # r.route
  <2>1. v.tables[route] = s.tables[route] BY <1>4, <1>8
  <2> QED BY <1>1, <1>6, <2>1
<1>9. CASE wrote /\ route = r.route /\ code \in {200, 201, 503} /\ Admitted(s, r)
  <2> DEFINE rows == s.tables[route]
             new == RowsAfter(rows, r)
  <2>1. v.tables[route] = new BY <1>4, <1>9
  <2>2. r \in PostType(route) BY <1>4, <1>9
  <2> HIDE DEF rows
  <2>3. /\ DOMAIN new = DOMAIN rows \cup {r.key}
        /\ \A x \in DOMAIN rows \ {r.key} : new[x] = rows[x]
        /\ r.key \notin DOMAIN rows => new[r.key].id = r.id
        /\ r.key \in DOMAIN rows /\ route \in {"events", "logs"} => new = rows
        /\ r.key \in DOMAIN rows /\ route \in {"runs", "steps"} => new[r.key].id = r.id
    <3>1. Rewritten(rows, new, route, r) BY <1>1, <2>2, RowsChanged
    <3> HIDE DEF new
    <3> QED BY <3>1 DEF Rewritten
  <2>4. route \in {"events", "logs"} \/ route \in {"runs", "steps"} BY DEF Routes, RequiredFields
  <2> HIDE DEF new
  <2>5. key \in DOMAIN rows \cup {r.key} BY <1>1, <2>1, <2>3
  <2>6. CASE key \in DOMAIN rows /\ new[key] = rows[key] BY <1>6, <2>1, <2>6 DEF rows
  <2>7. CASE key = r.key /\ new[key].id = r.id
    <3>1. Source(v, route, v.tables[route][key], k + 1) BY <1>2, <1>9, <2>1, <2>7 DEF Admitted, r
    <3>2. DOMAIN v.tables["runs"] # {}
      <4>1. CASE route = "runs" BY <1>1, <4>1
      <4>2. CASE route # "runs"
        <5>1. r.run \in DOMAIN s.tables.runs BY <1>9, <4>2 DEF Admitted
        <5>2. s.tables.runs = s.tables["runs"] OBVIOUS
        <5> QED BY <1>4, <5>1, <5>2
      <4> QED BY <4>1, <4>2
    <3> QED BY <1>2, <3>1, <3>2
  <2>8. \/ key \in DOMAIN rows /\ new[key] = rows[key]
        \/ key = r.key /\ new[key].id = r.id
    BY <2>3, <2>4, <2>5
  <2> QED BY <2>6, <2>7, <2>8
<1> QED BY <1>5, <1>7, <1>8, <1>9

\* What is appended is among what was, and is there once if it was not there.
LEMMA OnceMore ==
  ASSUME NEW S, NEW s \in Seq(S), NEW e \in S
  PROVE  /\ ToSet(Append(s, e)) = ToSet(s) \cup {e}
         /\ IsInjective(s) /\ e \notin ToSet(s) => IsInjective(Append(s, e))
<1> DEFINE n == Len(s)
           u == Append(s, e)
<1>1. /\ u \in Seq(S) /\ n \in Nat /\ DOMAIN s = 1 .. n /\ DOMAIN u = 1 .. n + 1
      /\ (\A i \in 1 .. n : u[i] = s[i]) /\ u[n + 1] = e
  BY AppendProperties, LenProperties
<1> HIDE DEF n, u
<1>2. ASSUME NEW x \in ToSet(u) PROVE x \in ToSet(s) \cup {e}
  <2>1. PICK i \in 1 .. n + 1 : x = u[i] BY <1>1 DEF ToSet
  <2>2. CASE i \in 1 .. n BY <1>1, <2>1, <2>2 DEF ToSet
  <2>3. CASE i = n + 1 BY <1>1, <2>1, <2>3
  <2> QED BY <1>1, <2>2, <2>3
<1>3. ASSUME NEW x \in ToSet(s) \cup {e} PROVE x \in ToSet(u)
  <2>1. CASE x \in ToSet(s)
    <3>1. PICK i \in 1 .. n : x = s[i] BY <1>1, <2>1 DEF ToSet
    <3>2. i \in 1 .. n + 1 /\ x = u[i] BY <1>1, <3>1
    <3> QED BY <1>1, <3>2 DEF ToSet
  <2>2. CASE x = e
    <3>1. n + 1 \in 1 .. n + 1 BY <1>1
    <3> QED BY <1>1, <2>2, <3>1 DEF ToSet
  <2> QED BY <2>1, <2>2
<1>4. ASSUME IsInjective(s), e \notin ToSet(s), NEW i \in DOMAIN u, NEW j \in DOMAIN u, u[i] = u[j]
      PROVE  i = j
  <2>1. \A x \in 1 .. n : s[x] # e BY <1>1, <1>4 DEF ToSet
  <2>2. CASE i \in 1 .. n /\ j \in 1 .. n BY <1>1, <1>4, <2>2 DEF IsInjective
  <2>3. CASE i = n + 1 \/ j = n + 1 BY <1>1, <1>4, <2>1, <2>3
  <2> QED BY <1>1, <2>2, <2>3
<1>5. IsInjective(s) /\ e \notin ToSet(s) => IsInjective(u) BY <1>4 DEF IsInjective
<1> QED BY <1>2, <1>3, <1>5 DEF u

\* What is announced stays so.
LEMMA AnnouncementsNext ==
  ASSUME NEW requests, NEW s, NEW v, NEW k, NEW code, ServiceStep(requests, s, v, k, code),
         Announcements(requests, s, k)
  PROVE  Announcements(requests, v, k + 1)
<1> DEFINE r == requests[k + 1]
           fresh == r.key \notin DOMAIN s.tables[r.route]
<1>1. /\ k \in Nat /\ k + 1 \in 1 .. k + 1 /\ 1 .. k \subseteq 1 .. k + 1
      /\ (\A i \in 1 .. k : v.answers[i] = s.answers[i]) /\ v.answers[k + 1] = code
      /\ \A i \in 1 .. k : 1 .. i \subseteq 1 .. k
      /\ 1 .. k + 1 = (1 .. k) \cup {k + 1}
  BY DEF ServiceStep
<1>2. "events" \in Routes BY DEF Routes, RequiredFields
<1>3. /\ r.route \in Routes /\ r \in PostType(r.route)
      /\ Wrote(s, v, r) => v.tables[r.route] = RowsAfter(s.tables[r.route], r)
      /\ DOMAIN s.tables["events"] \subseteq DOMAIN v.tables["events"]
  BY <1>2, TablesGrow DEF Grown
<1>4. \/ Unannounced(s, v) /\ (r.route = "events" => code # 201)
      \/ /\ Wrote(s, v, r) /\ r.route = "events" /\ fresh
         /\ v.redis = Connects(s.redis, r.redis)
         /\ v.published = IF v.redis = "connected" /\ r.redis THEN Append(s.published, r.key) ELSE s.published
  BY DEF ServiceStep, Effect, Wrote
<1>5. /\ s.published \in Seq(STRING) /\ IsInjective(s.published)
      /\ ToSet(s.published) \subseteq DOMAIN s.tables["events"]
      /\ (\A j \in 1 .. k : requests[j].redis) => s.redis \in {"idle", "connected"}
      /\ \A i \in 1 .. k : requests[i].route = "events" /\ s.answers[i] = 201 /\ (\A j \in 1 .. i : requests[j].redis)
                             => requests[i].key \in ToSet(s.published)
  BY DEF Announcements
<1>6. r.redis \in BOOLEAN /\ r.key \in STRING BY ZenonT(30), <1>3, PostFields
<1> HIDE DEF r, fresh
<1>7. ASSUME v.published \in Seq(STRING), IsInjective(v.published),
             ToSet(v.published) \subseteq DOMAIN v.tables["events"],
             ToSet(s.published) \subseteq ToSet(v.published),
             (\A j \in 1 .. k + 1 : requests[j].redis) => v.redis \in {"idle", "connected"},
             r.route = "events" /\ code = 201 /\ (\A j \in 1 .. k + 1 : requests[j].redis) => r.key \in ToSet(v.published)
      PROVE  Announcements(requests, v, k + 1)
  <2>1. ASSUME NEW i \in 1 .. k + 1, requests[i].route = "events", v.answers[i] = 201,
               \A j \in 1 .. i : requests[j].redis
        PROVE  requests[i].key \in ToSet(v.published)
    <3>1. CASE i \in 1 .. k
      <4>1. s.answers[i] = 201 BY <1>1, <2>1, <3>1
      <4>2. requests[i].key \in ToSet(s.published) BY <1>5, <2>1, <3>1, <4>1
      <4> QED BY <1>7, <4>2
    <3>2. CASE i = k + 1 BY <1>1, <1>7, <2>1, <3>2 DEF r
    <3> QED BY <1>1, <3>1, <3>2
  <2> QED BY <1>7, <2>1 DEF Announcements
<1>8. CASE Unannounced(s, v) /\ (r.route = "events" => code # 201)
  <2>1. v.published = s.published /\ v.redis = s.redis BY <1>8 DEF Unannounced
  <2>2. (\A j \in 1 .. k + 1 : requests[j].redis) => v.redis \in {"idle", "connected"} BY <1>1, <1>5, <2>1
  <2>3. ToSet(v.published) \subseteq DOMAIN v.tables["events"] BY <1>3, <1>5, <2>1
  <2> QED BY <1>5, <1>7, <1>8, <2>1, <2>2, <2>3
<1>9. CASE /\ Wrote(s, v, r) /\ r.route = "events" /\ fresh
           /\ v.redis = Connects(s.redis, r.redis)
           /\ v.published = IF v.redis = "connected" /\ r.redis THEN Append(s.published, r.key) ELSE s.published
  <2>1. r.key \in DOMAIN v.tables["events"]
    <3> DEFINE rows == s.tables[r.route]
               new == RowsAfter(rows, r)
    <3>1. Rewritten(rows, new, r.route, r) BY <1>3, RowsChanged
    <3>2. v.tables["events"] = new BY <1>3, <1>9
    <3> HIDE DEF new, rows
    <3> QED BY <3>1, <3>2 DEF Rewritten
  <2>2. r.key \notin ToSet(s.published) BY <1>5, <1>9 DEF fresh
  <2>3. (\A j \in 1 .. k + 1 : requests[j].redis) => r.redis /\ v.redis = "connected"
    <3> SUFFICES ASSUME \A j \in 1 .. k + 1 : requests[j].redis PROVE r.redis /\ v.redis = "connected" OBVIOUS
    <3>1. r.redis BY <1>1 DEF r
    <3>2. s.redis \in {"idle", "connected"} BY <1>1, <1>5
    <3> QED BY <1>9, <3>1, <3>2 DEF Connects
  <2>4. CASE v.redis = "connected" /\ r.redis
    <3> DEFINE u == Append(s.published, r.key)
    <3>1. v.published = u BY <1>9, <2>4
    <3>2. u \in Seq(STRING) BY <1>5, <1>6, AppendProperties
    <3>3. ToSet(u) = ToSet(s.published) \cup {r.key} /\ IsInjective(u) BY <1>5, <1>6, <2>2, OnceMore
    <3> HIDE DEF u
    <3>4. ToSet(v.published) \subseteq DOMAIN v.tables["events"] BY <1>3, <1>5, <2>1, <3>1, <3>3
    <3> QED BY <1>7, <2>4, <3>1, <3>2, <3>3, <3>4
  <2>5. CASE ~(v.redis = "connected" /\ r.redis)
    <3>1. v.published = s.published BY <1>9, <2>5
    <3>2. ~\A j \in 1 .. k + 1 : requests[j].redis BY <2>3, <2>5
    <3>3. ToSet(v.published) \subseteq DOMAIN v.tables["events"] BY <1>3, <1>5, <3>1
    <3> QED BY <1>5, <1>7, <3>1, <3>2, <3>3
  <2> QED BY <2>4, <2>5
<1> QED BY <1>4, <1>8, <1>9

\* The service, one request after the other
ServesBy(g, requests, limits, n) ==
  /\ g[0] = ServiceInit
  /\ \A k \in 1 .. n : g[k] = Handles(g[k - 1], requests[k], limits)
  /\ Serves(requests, limits) = g[n]

\* Serves, a fold over the requests, is so.
LEMMA ServesUnfolds ==
  ASSUME NEW requests, NEW limits, NEW n \in Nat, DOMAIN requests = 1 .. n
  PROVE  \E g : ServesBy(g, requests, limits, n)
<1> DEFINE Op(s, r) == Handles(s, r, limits)
           Is(g, k) == g = [T \in SUBSET (1 .. k) |-> IF T = {} THEN ServiceInit ELSE Op(g[T \ {Max(T)}], requests[Max(T)])]
           All == {k \in Nat : \E g : Is(g, k)}
<1>1. 0 \in All
  <2> DEFINE g0 == [T \in SUBSET (1 .. 0) |-> ServiceInit]
  <2>1. \A T \in SUBSET (1 .. 0) : T = {} OBVIOUS
  <2>2. Is(g0, 0) BY <2>1
  <2> QED BY <2>2
<1>2. ASSUME NEW k \in Nat, k \in All PROVE k + 1 \in All
  <2>1. PICK g : Is(g, k) BY <1>2
  <2> DEFINE h == [T \in SUBSET (1 .. k + 1) |-> IF k + 1 \in T THEN Op(g[T \ {k + 1}], requests[k + 1]) ELSE g[T]]
  <2> HIDE DEF Op
  <2>2. ASSUME NEW T \in SUBSET (1 .. k + 1)
        PROVE  h[T] = IF T = {} THEN ServiceInit ELSE Op(h[T \ {Max(T)}], requests[Max(T)])
    <3>1. CASE k + 1 \in T
      <4>1. Max(T) = k + 1 BY <3>1, MaxOfPrefix
      <4>2. T \ {k + 1} \in SUBSET (1 .. k + 1) /\ k + 1 \notin T \ {k + 1} OBVIOUS
      <4>3. h[T \ {k + 1}] = g[T \ {k + 1}] BY <4>2
      <4> QED BY <3>1, <4>1, <4>3
    <3>2. CASE k + 1 \notin T
      <4>1. T \in SUBSET (1 .. k) BY <3>2
      <4>2. h[T] = g[T] BY <3>2
      <4>3. g[T] = IF T = {} THEN ServiceInit ELSE Op(g[T \ {Max(T)}], requests[Max(T)]) BY <2>1, <4>1
      <4>4. T \ {Max(T)} \in SUBSET (1 .. k + 1) /\ k + 1 \notin T \ {Max(T)} BY <3>2
      <4>5. h[T \ {Max(T)}] = g[T \ {Max(T)}] BY <4>4
      <4> QED BY <4>2, <4>3, <4>5
    <3> QED BY <3>1, <3>2
  <2>3. Is(h, k + 1) BY <2>2
  <2>4. \E x : Is(x, k + 1) BY <2>3
  <2> HIDE DEF Is
  <2> QED BY <2>4
<1>3. n \in All
  <2> HIDE DEF All
  <2> QED BY <1>1, <1>2, Induction
<1>4. PICK f : Is(f, n) BY <1>3, Zenon
<1>5. Serves(requests, limits) = (CHOOSE g : Is(g, n))[1 .. n]
  BY DEF Serves, FoldLeft, MapThenFoldSet
<1> DEFINE c == CHOOSE g : Is(g, n)
<1>6. Is(c, n) BY <1>4, Zenon
<1> HIDE DEF c, Op
<1> DEFINE e == [k \in 0 .. n |-> c[1 .. k]]
<1>7. e[0] = ServiceInit
  <2>1. 1 .. 0 = {} /\ {} \in SUBSET (1 .. n) OBVIOUS
  <2> QED BY <1>6, <2>1
<1>8. ASSUME NEW k \in 1 .. n PROVE e[k] = Op(e[k - 1], requests[k])
  <2>1. 1 .. k \in SUBSET (1 .. n) /\ 1 .. k # {} /\ (1 .. k) \ {k} = 1 .. (k - 1) OBVIOUS
  <2>2. Max(1 .. k) = k
    <3>1. k - 1 \in Nat /\ 1 .. k \in SUBSET (1 .. (k - 1) + 1) /\ (k - 1) + 1 \in 1 .. k /\ (k - 1) + 1 = k OBVIOUS
    <3> QED BY <3>1, MaxOfPrefix
  <2>3. c[1 .. k] = Op(c[1 .. (k - 1)], requests[k]) BY <1>6, <2>1, <2>2
  <2> QED BY <2>3
<1>9. Serves(requests, limits) = e[n] BY <1>5 DEF c
<1> HIDE DEF e
<1> QED BY <1>7, <1>8, <1>9 DEF Op, ServesBy

\* After k requests the service is sound.
ServiceGood(requests, s, k) ==
  /\ ServiceShape(s) /\ Len(s.answers) = k
  /\ RowsKept(requests, s, k) /\ RowsAsked(requests, s, k) /\ Announcements(requests, s, k)

\* Whatever requests come, what the service answered for is so.
LEMMA ServicesTrue ==
  ASSUME NEW requests, requests \in Seq(ToSet(requests)), NEW limits,
         \A r \in ToSet(requests) : r.route \in Routes /\ r \in PostType(r.route)
  PROVE  ServiceTrue(requests, Serves(requests, limits))
<1> DEFINE n == Len(requests)
           final == Serves(requests, limits)
<1>1. n \in Nat /\ DOMAIN requests = 1 .. n
      /\ \A i \in 1 .. n : requests[i].route \in Routes /\ requests[i] \in PostType(requests[i].route)
  BY LenProperties, ElementOfSeq
<1>2. PICK g : ServesBy(g, requests, limits, n) BY <1>1, ServesUnfolds
<1> HIDE DEF n, final
<1> DEFINE All == {k \in Nat : k <= n => ServiceGood(requests, g[k], k)}
<1>3. 0 \in All
  <2> DEFINE s == g[0]
             none == <<>>
  <2>1. s = ServiceInit BY <1>2 DEF ServesBy
  <2>2. /\ DOMAIN s = {"tables", "published", "redis", "buckets", "answers"}
        /\ s.tables = [route \in Routes |-> none] /\ s.published = none /\ s.redis = "idle" /\ s.answers = none
    BY <2>1 DEF ServiceInit
  <2>3. /\ \A S : none \in Seq(S)
        /\ Len(none) = 0 /\ DOMAIN none = {}
    OBVIOUS
  <2> HIDE DEF s, none
  <2>4. ToSet(none) = {} /\ IsInjective(none) BY <2>3 DEF ToSet, IsInjective
  <2>5. ServiceShape(s) /\ Len(s.answers) = 0 BY <2>2, <2>3 DEF ServiceShape
  <2>6. 1 .. 0 = {} OBVIOUS
  <2>7. RowsKept(requests, s, 0)
    <3>1. \A route \in Routes : DOMAIN s.tables[route] = {} BY <2>2, <2>3
    <3>2. \A route, key : Taken(requests, s, route, key, 0) = {} BY <2>6 DEF Taken
    <3> QED BY <3>1, <3>2 DEF RowsKept
  <2>8. RowsAsked(requests, s, 0)
    <3>1. \A route \in Routes : DOMAIN s.tables[route] = {} BY <2>2, <2>3
    <3> QED BY <3>1 DEF RowsAsked
  <2>9. Announcements(requests, s, 0) BY <2>2, <2>3, <2>4, <2>6 DEF Announcements
  <2>10. ServiceGood(requests, s, 0) BY <2>5, <2>7, <2>8, <2>9 DEF ServiceGood
  <2> QED BY <2>10 DEF s
<1>4. ASSUME NEW k \in Nat, k \in All PROVE k + 1 \in All
  <2>1. SUFFICES ASSUME k + 1 <= n PROVE ServiceGood(requests, g[k + 1], k + 1) OBVIOUS
  <2> DEFINE s == g[k]
             v == g[k + 1]
             r == requests[k + 1]
  <2>2. ServiceGood(requests, s, k) /\ k + 1 \in 1 .. n /\ k = (k + 1) - 1 BY <1>1, <1>4, <2>1
  <2>3. v = Handles(s, r, limits) BY <1>2, <2>2 DEF ServesBy
  <2>4. r.route \in Routes /\ r \in PostType(r.route) BY <1>1, <2>2
  <2>5. ServiceShape(s) /\ Len(s.answers) = k /\ s.answers \in Seq(Nat) BY <2>2 DEF ServiceGood, ServiceShape
  <2> HIDE DEF s, v, r
  <2>6. ServiceShape(v) /\ \E code \in Codes : v.answers = Append(s.answers, code) /\ Effect(s, r, v, code)
    BY <2>3, <2>4, <2>5, Handled
  <2>7. PICK code \in Codes : v.answers = Append(s.answers, code) /\ Effect(s, r, v, code) BY <2>6
  <2>8. /\ Len(v.answers) = k + 1
        /\ (\A i \in 1 .. k : v.answers[i] = s.answers[i]) /\ v.answers[k + 1] = code
    <3>1. code \in Nat BY DEF Codes
    <3> QED BY SMTT(30), <2>5, <2>7, <3>1, AppendProperties
  <2>9. ServiceStep(requests, s, v, k, code)
    <3>1. \A i \in 1 .. k + 1 : i \in 1 .. n BY <1>1, <2>2
    <3>2. \A i \in 1 .. k + 1 : requests[i].route \in Routes /\ requests[i] \in PostType(requests[i].route)
      BY <1>1, <3>1
    <3>3. DOMAIN s.tables = Routes /\ DOMAIN v.tables = Routes BY <2>5, <2>6 DEF ServiceShape
    <3> QED BY <2>7, <2>8, <3>2, <3>3 DEF ServiceStep, r
  <2>10. RowsKept(requests, s, k) /\ RowsAsked(requests, s, k) /\ Announcements(requests, s, k)
    BY <2>2 DEF ServiceGood
  <2>11. RowsKept(requests, v, k + 1) BY <2>9, <2>10, RowsKeptNext
  <2>12. RowsAsked(requests, v, k + 1) BY <2>9, <2>10, RowsAskedNext
  <2>13. Announcements(requests, v, k + 1) BY <2>9, <2>10, AnnouncementsNext
  <2> QED BY <2>6, <2>8, <2>11, <2>12, <2>13 DEF ServiceGood, v
<1>5. n \in All
  <2> HIDE DEF All
  <2> QED BY <1>1, <1>3, <1>4, Induction
<1>6. final = g[n] BY <1>2 DEF ServesBy, final
<1>7. ServiceGood(requests, final, n) BY <1>1, <1>5, <1>6
<1>8. RowsKept(requests, final, n) /\ RowsAsked(requests, final, n) /\ Announcements(requests, final, n)
  BY <1>7 DEF ServiceGood
<1>9. \A route, key : Writers(requests, final.answers, route, key) = Taken(requests, final, route, key, n)
  BY <1>1 DEF Writers, Taken
<1>10. ASSUME \A i \in DOMAIN requests : requests[i].db # "lost", NEW route \in Routes, NEW key
       PROVE  /\ RowTrue(requests, final, route, key)
              /\ key \in DOMAIN final.tables[route] => Writers(requests, final.answers, route, key) # {}
  <2> DEFINE writers == Taken(requests, final, route, key, n)
  <2>1. /\ key \in DOMAIN final.tables[route] <=> writers # {}
        /\ writers # {} => RowFrom(requests, final.tables[route][key], route, writers)
    BY <1>1, <1>8, <1>10 DEF RowsKept
  <2>2. Writers(requests, final.answers, route, key) = writers BY <1>9
  <2> HIDE DEF writers
  <2> QED BY <2>1, <2>2 DEF RowTrue, RowFrom
<1>11. ASSUME NEW route \in Routes, NEW key \in DOMAIN final.tables[route]
       PROVE  /\ final.tables.runs # <<>>
              /\ \E i \in DOMAIN requests :
                   /\ requests[i].id = final.tables[route][key].id
                   /\ requests[i].token = "right" /\ final.answers[i] \in {200, 201, 503}
                   /\ \A f \in RequiredFields[route] : requests[i].body[f] \in {"ok", "long"}
  <2>1. DOMAIN final.tables["runs"] # {} BY <1>8 DEF RowsAsked
  <2>2. final.tables.runs # <<>>
    <3> DEFINE rows == final.tables["runs"]
    <3>1. DOMAIN rows # {} BY <2>1
    <3> HIDE DEF rows
    <3>2. rows # <<>> BY <3>1
    <3> QED BY <3>2 DEF rows
  <2> QED BY <1>1, <1>8, <2>2 DEF RowsAsked
<1>12. /\ IsInjective(final.published) /\ ToSet(final.published) \subseteq DOMAIN final.tables["events"]
       /\ \A i \in DOMAIN requests :
            requests[i].route = "events" /\ final.answers[i] = 201 /\ (\A j \in 1 .. i : requests[j].redis)
              => requests[i].key \in ToSet(final.published)
  BY <1>1, <1>8 DEF Announcements
<1> QED BY <1>10, <1>11, <1>12 DEF ServiceTrue, final

\* RateLimiter and the ingestion service: no key has more than it may in a window, and none
\* is refused for less; what was answered for is there, and was announced.
THEOREM RequestsHold == Spec => []RequestsKept
<1>1. DecisionInv => RequestsKept
  <2> SUFFICES ASSUME DecisionInv PROVE RequestsKept OBVIOUS
  <2>1. ASSUME Decided("rate"), Undefined \notin {subject.env.window, subject.env.limit}
        PROVE  RateBounded(subject.times, subject.env.window, subject.env.limit, verdict[1])
    <3>1. subject \in RateSubjects /\ verdict[1] = Allowed(subject.times, subject.env.window, subject.env.limit)
      BY <2>1, InputKinds DEF DecisionInv, Reported, Decided
    <3>2. /\ subject.times \in Arrivals
          /\ subject.env.window \in Windows \cup {Undefined} /\ subject.env.limit \in Limits \cup {Undefined}
      BY <3>1 DEF RateSubjects
    <3>3. /\ subject.times \in Seq(Nat) /\ \A i, j \in DOMAIN subject.times : i < j => subject.times[i] <= subject.times[j]
          /\ subject.env.window \in Nat \ {0} /\ subject.env.limit \in Nat \ {0}
      BY <2>1, <3>2, RatesAssumption
    <3> QED BY <3>1, <3>3, RatesBounded
  <2>2. ASSUME Decided("posts") PROVE ServiceTrue(subject.requests, verdict[1])
    <3>1. subject \in Posts /\ verdict[1] = Serves(subject.requests, subject.limits)
      BY <2>2, InputKinds DEF DecisionInv, Reported, Decided
    <3> QED BY <3>1, PostsAssumption, ServicesTrue
  <2> QED BY <2>1, <2>2 DEF RequestsKept
<1> QED BY <1>1, DecisionInvHolds, PTL

-----------------------------------------------------------------------------
\* The intake: a webhook or a request of the API, one after the other.

\* What becomes of one request
Take(s, req, program, raws, tokens) ==
  LET dispatched == DispatchProjects(raws)
      monitored  == MonitorProjects(raws, program = "compiled monitor")
  IN  CASE program = "dispatch" /\ req.source = "api" -> DispatchRun(s, dispatched, req, tokens)
        [] program = "dispatch" /\ req.source = "github" -> DispatchGitHub(s, dispatched, req)
        [] program = "dispatch" /\ req.source = "linear" -> DispatchLinear(s, dispatched, req)
        [] program # "dispatch" /\ req.source = "github" -> MonitorGitHub(s, monitored, req)
        [] program # "dispatch" /\ req.source = "linear" -> MonitorLinear(s, monitored, req)
\* The intake, one request after the other
TakesBy(g, program, raws, reqs, tokens, n) ==
  /\ g[0] = Intake
  /\ \A k \in 1 .. n : g[k] = Take(g[k - 1], reqs[k], program, raws, tokens)
  /\ Takes(program, raws, reqs, tokens) = g[n]

\* Takes, a fold over the requests, is so.
LEMMA TakesUnfolds ==
  ASSUME NEW program, NEW raws, NEW reqs, NEW tokens, NEW n \in Nat, DOMAIN reqs = 1 .. n
  PROVE  \E g : TakesBy(g, program, raws, reqs, tokens, n)
<1> DEFINE Op(s, req) == Take(s, req, program, raws, tokens)
           Is(g, k) == g = [T \in SUBSET (1 .. k) |-> IF T = {} THEN Intake ELSE Op(g[T \ {Max(T)}], reqs[Max(T)])]
           All == {k \in Nat : \E g : Is(g, k)}
<1>1. 0 \in All
  <2> DEFINE g0 == [T \in SUBSET (1 .. 0) |-> Intake]
  <2>1. \A T \in SUBSET (1 .. 0) : T = {} OBVIOUS
  <2>2. Is(g0, 0) BY <2>1
  <2> QED BY <2>2
<1>2. ASSUME NEW k \in Nat, k \in All PROVE k + 1 \in All
  <2>1. PICK g : Is(g, k) BY <1>2
  <2> DEFINE h == [T \in SUBSET (1 .. k + 1) |-> IF k + 1 \in T THEN Op(g[T \ {k + 1}], reqs[k + 1]) ELSE g[T]]
  <2> HIDE DEF Op
  <2>2. ASSUME NEW T \in SUBSET (1 .. k + 1)
        PROVE  h[T] = IF T = {} THEN Intake ELSE Op(h[T \ {Max(T)}], reqs[Max(T)])
    <3>1. CASE k + 1 \in T
      <4>1. Max(T) = k + 1 BY <3>1, MaxOfPrefix
      <4>2. T \ {k + 1} \in SUBSET (1 .. k + 1) /\ k + 1 \notin T \ {k + 1} OBVIOUS
      <4>3. h[T \ {k + 1}] = g[T \ {k + 1}] BY <4>2
      <4> QED BY <3>1, <4>1, <4>3
    <3>2. CASE k + 1 \notin T
      <4>1. T \in SUBSET (1 .. k) BY <3>2
      <4>2. h[T] = g[T] BY <3>2
      <4>3. g[T] = IF T = {} THEN Intake ELSE Op(g[T \ {Max(T)}], reqs[Max(T)]) BY <2>1, <4>1
      <4>4. T \ {Max(T)} \in SUBSET (1 .. k + 1) /\ k + 1 \notin T \ {Max(T)} BY <3>2
      <4>5. h[T \ {Max(T)}] = g[T \ {Max(T)}] BY <4>4
      <4> QED BY <4>2, <4>3, <4>5
    <3> QED BY <3>1, <3>2
  <2>3. Is(h, k + 1) BY <2>2
  <2>4. \E x : Is(x, k + 1) BY <2>3
  <2> HIDE DEF Is
  <2> QED BY <2>4
<1>3. n \in All
  <2> HIDE DEF All
  <2> QED BY <1>1, <1>2, Induction
<1>4. PICK f : Is(f, n) BY <1>3, Zenon
<1>5. Takes(program, raws, reqs, tokens) = (CHOOSE g : Is(g, n))[1 .. n]
  BY DEF Takes, Take, FoldLeft, MapThenFoldSet
<1> DEFINE c == CHOOSE g : Is(g, n)
<1>6. Is(c, n) BY <1>4, Zenon
<1> HIDE DEF c, Op
<1> DEFINE e == [k \in 0 .. n |-> c[1 .. k]]
<1>7. e[0] = Intake
  <2>1. 1 .. 0 = {} /\ {} \in SUBSET (1 .. n) OBVIOUS
  <2> QED BY <1>6, <2>1
<1>8. ASSUME NEW k \in 1 .. n PROVE e[k] = Op(e[k - 1], reqs[k])
  <2>1. 1 .. k \in SUBSET (1 .. n) /\ 1 .. k # {} /\ (1 .. k) \ {k} = 1 .. (k - 1) OBVIOUS
  <2>2. Max(1 .. k) = k
    <3>1. k - 1 \in Nat /\ 1 .. k \in SUBSET (1 .. (k - 1) + 1) /\ (k - 1) + 1 \in 1 .. k /\ (k - 1) + 1 = k OBVIOUS
    <3> QED BY <3>1, MaxOfPrefix
  <2>3. c[1 .. k] = Op(c[1 .. (k - 1)], reqs[k]) BY <1>6, <2>1, <2>2
  <2> QED BY <2>3
<1>9. Takes(program, raws, reqs, tokens) = e[n] BY <1>5 DEF c
<1> HIDE DEF e
<1> QED BY <1>7, <1>8, <1>9 DEF Op, TakesBy

\* What is queued, and what it is remembered by
ItemType == [project : RawProjectType, req : WebhookType \cup ApiRequestType]
SeenAs(item) == <<item.project.id, Delivered(item.req)>>
\* The request is about the project; the projects a team's issue may be about
Concerns(program, raw, req) ==
  IF req.source = "github" THEN raw.repo = req.repo
  ELSE raw.teams \cap req.teams # {} \/ (program = "dispatch" /\ raw.teams = {})
Claimants(raws, req) ==
  {i \in DOMAIN raws : raws[i].readable /\ raws[i].source = "linear" /\ Enabled(raws[i]) /\ raws[i].teams \cap req.teams # {}}
\* A run that may be asked for: by a webhook, and through the API
MayHook(program, raws, item) ==
  /\ Verified(item.req, item.project.secret) /\ Enabled(item.project) /\ Concerns(program, item.project, item.req)
  /\ item.req.source = "linear" => item.req.fresh
  /\ item.req.source = "linear" /\ program # "dispatch" => Cardinality(Claimants(raws, item.req)) = 1
MayWrite(tokens, token) == tokens.write # "" => token = tokens.write
RightlyAsked(program, raws, tokens, item) ==
  /\ item.req.source # "api" => MayHook(program, raws, item)
  /\ item.req.source = "api" => MayWrite(tokens, item.req.token)
\* What is queued may be asked for, and a delivery that was queued is remembered and queued once.
IntakeShape(s) == DOMAIN s = {"seen", "queue", "answers"} /\ s.queue \in Seq(ItemType)
IntakeGood(program, raws, tokens, s) ==
  /\ IntakeShape(s)
  /\ \A i \in DOMAIN s.queue : /\ RightlyAsked(program, raws, tokens, s.queue[i])
                               /\ s.queue[i].req.source # "api" => SeenAs(s.queue[i]) \in s.seen
  /\ \A i, j \in DOMAIN s.queue : /\ s.queue[i].req.source # "api" /\ s.queue[j].req.source # "api"
                                  /\ SeenAs(s.queue[i]) = SeenAs(s.queue[j])
                                  => i = j
\* A request queues nothing, or one run that may be asked for and was not seen.
QueuesNothing(s, v) == v.queue = s.queue
QueuesOne(program, raws, tokens, s, v, item) ==
  /\ v.queue = Append(s.queue, item) /\ RightlyAsked(program, raws, tokens, item)
  /\ item.req.source # "api" => SeenAs(item) \notin s.seen /\ SeenAs(item) \in v.seen
IntakeStep(program, raws, tokens, s, v) ==
  /\ DOMAIN v = DOMAIN s /\ s.seen \subseteq v.seen
  /\ QueuesNothing(s, v) \/ \E item \in ItemType : QueuesOne(program, raws, tokens, s, v, item)

\* Such a request leaves the queue as it should be.
LEMMA IntakeStays ==
  ASSUME NEW program, NEW raws, NEW tokens, NEW s, NEW v,
         IntakeGood(program, raws, tokens, s), IntakeStep(program, raws, tokens, s, v)
  PROVE  IntakeGood(program, raws, tokens, v)
<1>1. /\ IntakeShape(s) /\ DOMAIN v = DOMAIN s /\ s.seen \subseteq v.seen
      /\ \A i \in DOMAIN s.queue : /\ RightlyAsked(program, raws, tokens, s.queue[i])
                                   /\ s.queue[i].req.source # "api" => SeenAs(s.queue[i]) \in s.seen
      /\ \A i, j \in DOMAIN s.queue : /\ s.queue[i].req.source # "api" /\ s.queue[j].req.source # "api"
                                      /\ SeenAs(s.queue[i]) = SeenAs(s.queue[j])
                                      => i = j
  BY DEF IntakeGood, IntakeStep
<1>2. CASE QueuesNothing(s, v) BY <1>1, <1>2 DEF QueuesNothing, IntakeGood, IntakeShape
<1>3. ASSUME NEW item \in ItemType, QueuesOne(program, raws, tokens, s, v, item)
      PROVE  IntakeGood(program, raws, tokens, v)
  <2> DEFINE q == s.queue
             u == v.queue
             n == Len(q)
  <2>1. /\ u \in Seq(ItemType) /\ n \in Nat /\ DOMAIN q = 1 .. n /\ DOMAIN u = 1 .. n + 1
        /\ (\A i \in 1 .. n : u[i] = q[i]) /\ u[n + 1] = item
    BY <1>1, <1>3, AppendProperties, LenProperties DEF IntakeShape, QueuesOne
  <2>2. /\ RightlyAsked(program, raws, tokens, item)
        /\ item.req.source # "api" => SeenAs(item) \notin s.seen /\ SeenAs(item) \in v.seen
    BY <1>3 DEF QueuesOne
  <2>3. /\ s.seen \subseteq v.seen
        /\ \A i \in 1 .. n : /\ RightlyAsked(program, raws, tokens, q[i])
                             /\ q[i].req.source # "api" => SeenAs(q[i]) \in s.seen
        /\ \A i, j \in 1 .. n : /\ q[i].req.source # "api" /\ q[j].req.source # "api"
                                /\ SeenAs(q[i]) = SeenAs(q[j])
                                => i = j
    BY <1>1, <2>1
  <2> HIDE DEF q, u, n
  <2>4. ASSUME NEW i \in 1 .. n + 1
        PROVE  /\ RightlyAsked(program, raws, tokens, u[i])
               /\ u[i].req.source # "api" => SeenAs(u[i]) \in v.seen
    <3>1. CASE i \in 1 .. n BY <2>1, <2>3, <3>1
    <3>2. CASE i = n + 1 BY <2>1, <2>2, <3>2
    <3> QED BY <2>1, <3>1, <3>2
  <2>5. ASSUME NEW i \in 1 .. n + 1, NEW j \in 1 .. n + 1,
               u[i].req.source # "api", u[j].req.source # "api", SeenAs(u[i]) = SeenAs(u[j])
        PROVE  i = j
    <3>1. CASE i \in 1 .. n /\ j \in 1 .. n BY <2>1, <2>3, <2>5, <3>1
    <3>2. CASE i \in 1 .. n /\ j = n + 1 BY <2>1, <2>2, <2>3, <2>5, <3>2
    <3>3. CASE i = n + 1 /\ j \in 1 .. n BY <2>1, <2>2, <2>3, <2>5, <3>3
    <3>4. CASE i = n + 1 /\ j = n + 1 BY <3>4
    <3> QED BY <2>1, <3>1, <3>2, <3>3, <3>4
  <2> QED BY <1>1, <2>1, <2>4, <2>5 DEF u, IntakeGood, IntakeShape
<1> QED BY <1>2, <1>3 DEF IntakeStep

\* An answer queues nothing.
LEMMA AnswersQueueNothing ==
  ASSUME NEW program, NEW raws, NEW tokens, NEW s, IntakeShape(s), NEW code
  PROVE  IntakeStep(program, raws, tokens, s, Answer(s, code))
<1> DEFINE a == Append(s.answers, code)
<1>1. Answer(s, code) = [s EXCEPT !.answers = a] BY DEF Answer
<1> HIDE DEF a
<1> QED BY <1>1 DEF IntakeShape, IntakeStep, QueuesNothing

\* What is queued was not seen before, and is from then on.
LEMMA QueuesWhatIsNew ==
  ASSUME NEW program, NEW raws, NEW tokens, NEW s, IntakeShape(s),
         NEW p, p.raw \in RawProjectType, NEW req \in WebhookType, NEW resolved,
         req.source # "api", MayHook(program, raws, [project |-> p.raw, req |-> req])
  PROVE  IntakeStep(program, raws, tokens, s, Queue(s, p, req, Delivered(req), resolved))
<1> DEFINE d == Delivered(req)
           key == <<p.raw.id, d>>
           item == [project |-> p.raw, req |-> req]
           v == Queue(s, p, req, d, resolved)
           seen == [s EXCEPT !.seen = @ \cup {key}]
           queued == [s EXCEPT !.seen = @ \cup {key}, !.queue = Append(@, item)]
<1>1. v = IF key \in s.seen THEN Answer(s, "ignored")
          ELSE IF ~resolved THEN Answer(seen, "ignored") ELSE Answer(queued, "queued")
  BY DEF Queue
<1>2. item \in ItemType /\ item.req = req /\ item.project = p.raw BY DEF ItemType
<1>3. SeenAs(item) = key BY DEF SeenAs
<1>4. RightlyAsked(program, raws, tokens, item) /\ item.req.source # "api" BY <1>2 DEF RightlyAsked
<1> HIDE DEF d, key, item, v
<1>5. /\ IntakeShape(seen) /\ seen.queue = s.queue /\ seen.seen = s.seen \cup {key} /\ DOMAIN seen = DOMAIN s
  BY DEF IntakeShape
<1>6. /\ Append(s.queue, item) \in Seq(ItemType)
      /\ queued.queue = Append(s.queue, item) /\ queued.seen = s.seen \cup {key} /\ DOMAIN queued = DOMAIN s
  BY <1>2, AppendProperties DEF IntakeShape
<1>7. IntakeShape(queued) BY <1>6 DEF IntakeShape
<1> HIDE DEF seen, queued
<1>8. \A x, c : IntakeShape(x) => /\ Answer(x, c).queue = x.queue /\ Answer(x, c).seen = x.seen
                                  /\ DOMAIN Answer(x, c) = DOMAIN x
  <2> TAKE x, c
  <2> DEFINE a == Append(x.answers, c)
  <2>1. Answer(x, c) = [x EXCEPT !.answers = a] BY DEF Answer
  <2> HIDE DEF a
  <2> QED BY <2>1 DEF IntakeShape
<1>9. CASE key \in s.seen
  <2>1. v = Answer(s, "ignored") BY <1>1, <1>9
  <2> QED BY <2>1, AnswersQueueNothing DEF v, d
<1>10. CASE key \notin s.seen /\ ~resolved
  <2>1. v = Answer(seen, "ignored") BY <1>1, <1>10
  <2>2. v.queue = s.queue /\ v.seen = s.seen \cup {key} /\ DOMAIN v = DOMAIN s BY <1>5, <1>8, <2>1
  <2>3. IntakeStep(program, raws, tokens, s, v) BY <2>2 DEF IntakeStep, QueuesNothing
  <2> QED BY <2>3 DEF v, d
<1>11. CASE key \notin s.seen /\ resolved
  <2>1. v = Answer(queued, "queued") BY <1>1, <1>11
  <2>2. v.queue = Append(s.queue, item) /\ v.seen = s.seen \cup {key} /\ DOMAIN v = DOMAIN s
    BY <1>6, <1>7, <1>8, <2>1
  <2>3. QueuesOne(program, raws, tokens, s, v, item) BY <1>3, <1>4, <1>11, <2>2 DEF QueuesOne
  <2>4. IntakeStep(program, raws, tokens, s, v) BY <1>2, <2>2, <2>3 DEF IntakeStep
  <2> QED BY <2>4 DEF v, d
<1> QED BY <1>9, <1>10, <1>11

\* What a source's configuration keeps of the file
LEMMA ConfigsKeep ==
  ASSUME NEW raw
  PROVE  /\ GitHubConfig(raw).enabled = Enabled(raw) /\ GitHubConfig(raw).secret = raw.secret
         /\ LinearConfig(raw).enabled = Enabled(raw) /\ LinearConfig(raw).secret = raw.secret
         /\ MonitorGitHubConfig(raw).enabled = Enabled(raw) /\ MonitorGitHubConfig(raw).secret = raw.secret
         /\ MonitorLinearConfig(raw).enabled = Enabled(raw) /\ MonitorLinearConfig(raw).secret = raw.secret
<1> DEFINE nc == raw.command \in {"", "true"}
           mc == raw.command = "true"
           ge == IF raw.events # {} THEN raw.events
                 ELSE {"issue_comment.created", "pull_request.opened", "pull_request.synchronize", "pull_request.reopened"}
           le == IF raw.events # {} THEN raw.events ELSE {"Issue.create", "Issue.update", "Comment.create"}
           me == IF raw.events # {} THEN raw.events ELSE {"issue_comment.created"}
           ne == IF raw.events # {} THEN raw.events ELSE {"Issue.create"}
<1>1. /\ GitHubConfig(raw) = [enabled |-> Enabled(raw), secret |-> raw.secret, needsCommand |-> nc, events |-> ge]
      /\ LinearConfig(raw) = [enabled |-> Enabled(raw), secret |-> raw.secret, needsCommand |-> mc, events |-> le]
      /\ MonitorGitHubConfig(raw) = [GitHubConfig(raw) EXCEPT !.events = me]
      /\ MonitorLinearConfig(raw) = [LinearConfig(raw) EXCEPT !.events = ne]
  BY Zenon DEF GitHubConfig, LinearConfig, MonitorGitHubConfig, MonitorLinearConfig
<1> HIDE DEF nc, mc, ge, le, me, ne
<1> QED BY <1>1

\* A project is of its file: it is not enabled unless the file is, and keeps its secret.
ProjectOf(p, raw) ==
  /\ p.raw = raw
  /\ p.github.enabled => Enabled(raw) /\ p.github.secret = raw.secret
  /\ p.linear.enabled => Enabled(raw) /\ p.linear.secret = raw.secret
ProjectsOf(projects, raws) == DOMAIN projects = DOMAIN raws /\ \A i \in DOMAIN raws : ProjectOf(projects[i], raws[i])

\* So are the dispatch controller's projects.
LEMMA DispatchProjectsOf == ASSUME NEW raws PROVE ProjectsOf(DispatchProjects(raws), raws)
<1>1. ASSUME NEW i \in DOMAIN raws PROVE ProjectOf(DispatchProjects(raws)[i], raws[i])
  <2> DEFINE r == raws[i]
             kept == r.readable /\ r.id # ""
             g == kept /\ "github" \in {r.source, r.scm} /\ r.repo # ""
             l == kept /\ r.source = "linear"
             p == [raw |-> r, github |-> IF g THEN GitHubConfig(r) ELSE Nothing,
                   linear |-> IF l THEN LinearConfig(r) ELSE Nothing]
  <2>1. DispatchProjects(raws)[i] = p BY DEF DispatchProjects
  <2> HIDE DEF g, l, r
  <2>2. ProjectOf(p, r) BY ConfigsKeep DEF ProjectOf, Nothing
  <2> QED BY <2>1, <2>2 DEF r
<1>2. DOMAIN DispatchProjects(raws) = DOMAIN raws BY DEF DispatchProjects
<1> QED BY <1>1, <1>2 DEF ProjectsOf

\* And the monitor's; of them those of Linear are the enabled ones that name a team.
LEMMA MonitorProjectsOf ==
  ASSUME NEW raws, NEW compiled
  PROVE  /\ ProjectsOf(MonitorProjects(raws, compiled), raws)
         /\ \A i \in DOMAIN raws : MonitorProjects(raws, compiled)[i].linear.enabled <=>
              raws[i].readable /\ raws[i].source = "linear" /\ raws[i].teams # {} /\ Enabled(raws[i])
<1>1. ASSUME NEW i \in DOMAIN raws
      PROVE  /\ ProjectOf(MonitorProjects(raws, compiled)[i], raws[i])
             /\ MonitorProjects(raws, compiled)[i].linear.enabled <=>
                  raws[i].readable /\ raws[i].source = "linear" /\ raws[i].teams # {} /\ Enabled(raws[i])
  <2> DEFINE r == raws[i]
             g == r.readable /\ r.source = "github" /\ r.repo # ""
             l == r.readable /\ r.source = "linear" /\ r.teams # {}
             gc == IF compiled THEN GitHubConfig(r) ELSE MonitorGitHubConfig(r)
             lc == IF compiled THEN LinearConfig(r) ELSE MonitorLinearConfig(r)
             p == [raw |-> r, github |-> IF g THEN gc ELSE Nothing, linear |-> IF l THEN lc ELSE Nothing]
  <2>1. MonitorProjects(raws, compiled)[i] = p BY DEF MonitorProjects
  <2> HIDE DEF g, l, r
  <2>2. /\ gc.enabled = Enabled(r) /\ gc.secret = r.secret
        /\ lc.enabled = Enabled(r) /\ lc.secret = r.secret
    BY ConfigsKeep
  <2>3. Enabled(r) \in BOOLEAN BY DEF Enabled
  <2> HIDE DEF gc, lc
  <2>4. ProjectOf(p, r) /\ (p.linear.enabled <=> l /\ Enabled(r)) BY <2>2, <2>3 DEF ProjectOf, Nothing
  <2> QED BY <2>1, <2>4 DEF r, l
<1>2. DOMAIN MonitorProjects(raws, compiled) = DOMAIN raws BY DEF MonitorProjects
<1> QED BY <1>1, <1>2 DEF ProjectsOf

\* A request through the API that is let through has the write token, if there is one.
LEMMA WritersAllowed ==
  ASSUME NEW r, NEW w, NEW token, DispatchAuthorizes("write", r, w, token) = "ok"
  PROVE  w # "" => token = w
<1> SUFFICES ASSUME w # "" PROVE token = w OBVIOUS
<1>1. Accepted("write", r, w) = {w} \ {""} BY Zenon DEF Accepted
<1>2. DispatchAuthorizes("write", r, w, token)
        = IF token = "" THEN "401" ELSE IF token \in Accepted("write", r, w) THEN "ok" ELSE "403"
  BY Zenon DEF DispatchAuthorizes
<1>3. "401" # "ok" /\ "403" # "ok" BY Zenon
<1>4. token \in Accepted("write", r, w) BY <1>2, <1>3, Zenon
<1> QED BY <1>1, <1>4, Zenon

\* What goes through the API queues a run that may be asked for, or nothing.
LEMMA ApiStep ==
  ASSUME NEW program, NEW raws \in Seq(RawProjectType), NEW tokens, NEW s, IntakeShape(s),
         NEW req \in ApiRequestType
  PROVE  IntakeStep(program, raws, tokens, s, DispatchRun(s, DispatchProjects(raws), req, tokens))
<1> DEFINE projects == DispatchProjects(raws)
           allowed == DispatchAuthorizes("write", tokens.read, tokens.write, req.token)
           named == {i \in DOMAIN projects : projects[i].raw.readable /\ projects[i].raw.id = req.project}
           raw == projects[Min(named)].raw
           bad == ~req.json \/ req.project = "" \/ req.from = ""
           odd == ~req.ticket /\ req.from # "prompt"
           valid == ValidConfig(raw)
           item == [project |-> raw, req |-> req]
           queued == [s EXCEPT !.queue = Append(@, item)]
           v == DispatchRun(s, projects, req, tokens)
<1>1. v = IF allowed # "ok" THEN Answer(s, allowed)
          ELSE IF bad THEN Answer(s, "400")
          ELSE IF named = {} \/ ~valid THEN Answer(s, "404")
          ELSE IF odd THEN Answer(s, "400") ELSE Answer(queued, "queued")
  BY Zenon DEF DispatchRun
<1>2. allowed = "ok" => MayWrite(tokens, req.token) BY WritersAllowed, Zenon DEF MayWrite
<1>3. req.source = "api" BY DEF ApiRequestType
<1>4. DOMAIN projects = 1 .. Len(raws) /\ Len(raws) \in Nat
      /\ \A i \in DOMAIN projects : projects[i].raw = raws[i] /\ raws[i] \in RawProjectType
  BY DispatchProjectsOf, LenProperties, ElementOfSeq DEF ProjectsOf, ProjectOf
<1>5. named # {} => raw \in RawProjectType
  <2>1. named \subseteq Nat /\ named \subseteq DOMAIN projects BY <1>4
  <2>2. named # {} => Min(named) \in named BY <2>1, MinOfNumbers
  <2> QED BY <1>4, <2>1, <2>2
<1> HIDE DEF projects, allowed, named, raw, bad, odd, valid, v
<1>6. CASE v = Answer(queued, "queued") /\ allowed = "ok" /\ named # {}
  <2>1. item \in ItemType /\ item.req = req BY <1>5, <1>6 DEF ItemType
  <2>2. RightlyAsked(program, raws, tokens, item) /\ item.req.source = "api" BY <1>2, <1>3, <1>6, <2>1 DEF RightlyAsked
  <2> HIDE DEF item
  <2> DEFINE a == Append(queued.answers, "queued")
  <2>3. v = [queued EXCEPT !.answers = a] BY <1>6 DEF Answer
  <2> HIDE DEF a
  <2>4. v.queue = Append(s.queue, item) /\ v.seen = s.seen /\ DOMAIN v = DOMAIN s BY <2>3 DEF IntakeShape
  <2>5. QueuesOne(program, raws, tokens, s, v, item) BY <2>2, <2>4 DEF QueuesOne
  <2>6. IntakeStep(program, raws, tokens, s, v) BY <2>1, <2>4, <2>5 DEF IntakeStep
  <2> QED BY <2>6 DEF v, projects
<1>7. CASE \E code : v = Answer(s, code) BY <1>7, AnswersQueueNothing DEF v, projects
<1> HIDE DEF item, queued
<1>8. (\E code : v = Answer(s, code)) \/ (v = Answer(queued, "queued") /\ allowed = "ok" /\ named # {})
  BY <1>1, Zenon
<1> QED BY <1>6, <1>7, <1>8

\* The first of the projects that were found
LEMMA FirstFound ==
  ASSUME NEW raws \in Seq(RawProjectType), NEW projects, ProjectsOf(projects, raws),
         NEW found, found \subseteq DOMAIN projects, found # {}
  PROVE  /\ Min(found) \in found /\ Min(found) \in DOMAIN raws
         /\ ProjectOf(projects[Min(found)], raws[Min(found)]) /\ projects[Min(found)].raw \in RawProjectType
<1>1. DOMAIN projects = 1 .. Len(raws) /\ Len(raws) \in Nat /\ DOMAIN projects = DOMAIN raws
  BY LenProperties DEF ProjectsOf
<1>2. found \subseteq Nat BY <1>1
<1>3. Min(found) \in found BY <1>2, MinOfNumbers
<1> QED BY <1>1, <1>3, ElementOfSeq DEF ProjectsOf, ProjectOf

\* A delivery of GitHub, believed by a project of its repository, may ask for a run.
LEMMA GitHubAsks ==
  ASSUME NEW program, NEW raws \in Seq(RawProjectType), NEW tokens, NEW s, IntakeShape(s),
         NEW projects, ProjectsOf(projects, raws), NEW req \in WebhookType, req.source = "github",
         NEW found, found = FindGitHub(projects, req), found # {},
         Verified(req, projects[Min(found)].github.secret)
  PROVE  IntakeStep(program, raws, tokens, s, Queue(s, projects[Min(found)], req, Delivered(req), TRUE))
<1> DEFINE p == projects[Min(found)]
           item == [project |-> p.raw, req |-> req]
<1>1. found \subseteq DOMAIN projects BY DEF FindGitHub
<1>2. /\ Min(found) \in found /\ p.raw \in RawProjectType
      /\ ProjectOf(p, raws[Min(found)])
  BY SMTT(30), <1>1, FirstFound
<1>3. p.github.enabled /\ p.raw.repo = req.repo BY <1>2 DEF FindGitHub
<1>4. Enabled(p.raw) /\ Verified(req, p.raw.secret) BY <1>2, <1>3 DEF ProjectOf
<1>5. item.project = p.raw /\ item.req = req OBVIOUS
<1> HIDE DEF item
<1>6. MayHook(program, raws, item) BY <1>3, <1>4, <1>5 DEF MayHook, Concerns
<1> HIDE DEF p
<1> QED BY <1>2, <1>6, QueuesWhatIsNew DEF item, p

\* So may one of Linear that a project of its team believes, in the monitor if the team is
\* of one project.
LEMMA LinearAsks ==
  ASSUME NEW program, NEW raws \in Seq(RawProjectType), NEW tokens, NEW s, IntakeShape(s),
         NEW projects, ProjectsOf(projects, raws), NEW req \in WebhookType, req.source = "linear",
         NEW found, found \subseteq FindLinear(projects, req), found # {},
         \A i \in found : projects[i].raw.teams \cap req.teams # {} \/ program = "dispatch",
         program # "dispatch" => Cardinality(Claimants(raws, req)) = 1,
         Verified(req, projects[Min(found)].linear.secret), req.fresh, NEW resolved
  PROVE  IntakeStep(program, raws, tokens, s, Queue(s, projects[Min(found)], req, Delivered(req), resolved))
<1> DEFINE p == projects[Min(found)]
           item == [project |-> p.raw, req |-> req]
<1>1. found \subseteq DOMAIN projects BY DEF FindLinear
<1>2. /\ Min(found) \in found /\ p.raw \in RawProjectType
      /\ ProjectOf(p, raws[Min(found)])
  BY <1>1, FirstFound
<1>3. /\ p.linear.enabled /\ (p.raw.teams = {} \/ p.raw.teams \cap req.teams # {})
      /\ p.raw.teams \cap req.teams # {} \/ program = "dispatch"
  BY <1>2 DEF FindLinear
<1>4. Enabled(p.raw) /\ Verified(req, p.raw.secret) BY <1>2, <1>3 DEF ProjectOf
<1>5. item.project = p.raw /\ item.req = req OBVIOUS
<1> HIDE DEF item
<1>6. Concerns(program, item.project, item.req) BY <1>3, <1>5 DEF Concerns
<1>7. MayHook(program, raws, item) BY <1>4, <1>5, <1>6 DEF MayHook
<1> HIDE DEF p
<1> QED BY <1>2, <1>7, QueuesWhatIsNew DEF item, p

\* What GitHub sends to the dispatch controller queues a run that may be asked for, or nothing.
LEMMA DispatchGitHubStep ==
  ASSUME NEW raws \in Seq(RawProjectType), NEW tokens, NEW s, IntakeShape(s),
         NEW req \in WebhookType, req.source = "github"
  PROVE  IntakeStep("dispatch", raws, tokens, s, DispatchGitHub(s, DispatchProjects(raws), req))
<1> DEFINE projects == DispatchProjects(raws)
           found == FindGitHub(projects, req)
           p == projects[Min(found)]
           wanted == IF p.raw.workflow /\ req.issue = "pull" THEN req.event \in p.github.events /\ req.task
                     ELSE GitHubTriggers(req, p.github)
           bad == ~req.json \/ req.repo = ""
           bare == p.github.secret = ""
           known == Verified(req, p.github.secret)
           queued == Queue(s, p, req, Delivered(req), TRUE)
           v == DispatchGitHub(s, projects, req)
<1>1. v = IF bad THEN Answer(s, "400") ELSE IF found = {} THEN Answer(s, "ignored")
          ELSE IF bare THEN Answer(s, "403") ELSE IF ~known THEN Answer(s, "401")
          ELSE IF ~wanted THEN Answer(s, "ignored") ELSE queued
  BY Zenon DEF DispatchGitHub
<1> HIDE DEF bad, bare, known, wanted, queued, v, p, found
<1>2. CASE v = queued /\ found # {} /\ known
  <2>1. ProjectsOf(projects, raws) BY DispatchProjectsOf
  <2> HIDE DEF projects
  <2>2. IntakeStep("dispatch", raws, tokens, s, queued) BY <1>2, <2>1, GitHubAsks DEF known, queued, p, found
  <2> QED BY <1>2, <2>2 DEF v, projects
<1>3. CASE \E code : v = Answer(s, code) BY <1>3, AnswersQueueNothing DEF v
<1>4. (\E code : v = Answer(s, code)) \/ (v = queued /\ found # {} /\ known) BY <1>1, Zenon
<1> QED BY <1>2, <1>3, <1>4

\* So does what Linear sends to it,
LEMMA DispatchLinearStep ==
  ASSUME NEW raws \in Seq(RawProjectType), NEW tokens, NEW s, IntakeShape(s),
         NEW req \in WebhookType, req.source = "linear"
  PROVE  IntakeStep("dispatch", raws, tokens, s, DispatchLinear(s, DispatchProjects(raws), req))
<1> DEFINE projects == DispatchProjects(raws)
           found == FindLinear(projects, req)
           p == projects[Min(found)]
           wanted == LinearTriggers(req, p.linear)
           resolved == ~p.raw.workflow \/ req.task
           bare == p.linear.secret = ""
           known == Verified(req, p.linear.secret)
           fresh == req.fresh
           queued == Queue(s, p, req, Delivered(req), resolved)
           v == DispatchLinear(s, projects, req)
<1>1. v = IF ~req.json THEN Answer(s, "400") ELSE IF found = {} THEN Answer(s, "ignored")
          ELSE IF bare THEN Answer(s, "403") ELSE IF ~known \/ ~fresh THEN Answer(s, "401")
          ELSE IF ~wanted THEN Answer(s, "ignored") ELSE queued
  BY Zenon DEF DispatchLinear
<1> HIDE DEF bare, known, fresh, wanted, queued, v, p, found, resolved
<1>2. CASE v = queued /\ found # {} /\ known /\ fresh
  <2>1. ProjectsOf(projects, raws) BY DispatchProjectsOf
  <2> HIDE DEF projects
  <2>2. IntakeStep("dispatch", raws, tokens, s, queued) BY <1>2, <2>1, LinearAsks DEF known, fresh, queued, p, found
  <2> QED BY <1>2, <2>2 DEF v, projects
<1>3. CASE \E code : v = Answer(s, code) BY <1>3, AnswersQueueNothing DEF v
<1>4. (\E code : v = Answer(s, code)) \/ (v = queued /\ found # {} /\ known /\ fresh) BY <1>1, Zenon
<1> QED BY <1>2, <1>3, <1>4

\* what GitHub sends to the monitor,
LEMMA MonitorGitHubStep ==
  ASSUME NEW program, NEW compiled, NEW raws \in Seq(RawProjectType), NEW tokens, NEW s, IntakeShape(s),
         NEW req \in WebhookType, req.source = "github"
  PROVE  IntakeStep(program, raws, tokens, s, MonitorGitHub(s, MonitorProjects(raws, compiled), req))
<1> DEFINE projects == MonitorProjects(raws, compiled)
           found == MonitorFindGitHub(projects, req)
           p == projects[Min(found)]
           wanted == MonitorGitHubTriggers(req, p.github)
           bad == ~req.json \/ req.repo = ""
           bare == p.github.secret = ""
           known == MonitorVerified(req, p.github.secret)
           anonymous == req.delivery = ""
           queued == Queue(s, p, req, Delivered(req), TRUE)
           v == MonitorGitHub(s, projects, req)
<1>1. v = IF bad THEN Answer(s, "400") ELSE IF found = {} THEN Answer(s, "ignored")
          ELSE IF bare THEN Answer(s, "403") ELSE IF ~known THEN Answer(s, "401")
          ELSE IF anonymous THEN Answer(s, "400") ELSE IF ~wanted THEN Answer(s, "ignored") ELSE queued
  BY Zenon DEF MonitorGitHub
<1>2. found = FindGitHub(projects, req) BY DEF MonitorFindGitHub, FindGitHub
<1>3. known = Verified(req, p.github.secret) BY DEF MonitorVerified
<1> HIDE DEF bad, bare, known, anonymous, wanted, queued, v, p, found
<1>4. CASE v = queued /\ found # {} /\ known
  <2>1. ProjectsOf(projects, raws) BY MonitorProjectsOf
  <2>2. Verified(req, projects[Min(found)].github.secret) BY <1>3, <1>4 DEF p
  <2> HIDE DEF projects
  <2>3. IntakeStep(program, raws, tokens, s, queued) BY <1>2, <1>4, <2>1, <2>2, GitHubAsks DEF queued, p
  <2> QED BY <1>4, <2>3 DEF v, projects
<1>5. CASE \E code : v = Answer(s, code) BY <1>5, AnswersQueueNothing DEF v
<1>6. (\E code : v = Answer(s, code)) \/ (v = queued /\ found # {} /\ known) BY <1>1, Zenon
<1> QED BY <1>4, <1>5, <1>6

\* and what Linear sends to it.
LEMMA MonitorLinearStep ==
  ASSUME NEW program, NEW compiled, NEW raws \in Seq(RawProjectType), NEW tokens, NEW s, IntakeShape(s),
         NEW req \in WebhookType, req.source = "linear"
  PROVE  IntakeStep(program, raws, tokens, s, MonitorLinear(s, MonitorProjects(raws, compiled), req))
<1> DEFINE projects == MonitorProjects(raws, compiled)
           found == MonitorFindLinear(projects, req)
           p == projects[Min(found)]
           wanted == MonitorLinearTriggers(req, p.linear)
           bare == p.linear.secret = ""
           known == MonitorVerified(req, p.linear.secret)
           fresh == req.fresh
           anonymous == req.delivery = ""
           queued == Queue(s, p, req, Delivered(req), TRUE)
           v == MonitorLinear(s, projects, req)
<1>1. v = IF ~req.json THEN Answer(s, "400") ELSE IF found = {} THEN Answer(s, "ignored")
          ELSE IF bare THEN Answer(s, "403") ELSE IF ~known \/ ~fresh THEN Answer(s, "401")
          ELSE IF ~wanted THEN Answer(s, "ignored")
          ELSE IF anonymous THEN Answer(s, "400") ELSE queued
  BY Zenon DEF MonitorLinear
<1>2. known = Verified(req, p.linear.secret) BY DEF MonitorVerified
<1>3. found # {} => found = Claimants(raws, req) /\ Cardinality(found) = 1
  <2> DEFINE named == {i \in DOMAIN projects : projects[i].linear.enabled /\ projects[i].raw.teams \cap req.teams # {}}
  <2>1. found = IF Cardinality(named) = 1 THEN named ELSE {} BY DEF MonitorFindLinear
  <2>2. /\ DOMAIN projects = DOMAIN raws
        /\ \A i \in DOMAIN raws : /\ projects[i].raw = raws[i]
                                  /\ projects[i].linear.enabled <=> raws[i].readable /\ raws[i].source = "linear"
                                                                    /\ raws[i].teams # {} /\ Enabled(raws[i])
    BY MonitorProjectsOf DEF ProjectsOf, ProjectOf
  <2>3. \A i \in DOMAIN raws : raws[i].teams \cap req.teams # {} => raws[i].teams # {} OBVIOUS
  <2> HIDE DEF projects, found
  <2>4. named = Claimants(raws, req) BY <2>2, <2>3 DEF Claimants
  <2> HIDE DEF named
  <2> QED BY <2>1, <2>4
<1>4. found # {} => /\ found \subseteq FindLinear(projects, req)
                    /\ \A i \in found : projects[i].raw.teams \cap req.teams # {}
  BY DEF MonitorFindLinear, FindLinear
<1> HIDE DEF bare, known, fresh, anonymous, wanted, queued, v, p, found
<1>5. CASE v = queued /\ found # {} /\ known /\ fresh
  <2>1. ProjectsOf(projects, raws) BY MonitorProjectsOf
  <2>2. Verified(req, projects[Min(found)].linear.secret) BY <1>2, <1>5 DEF p
  <2>3. Cardinality(Claimants(raws, req)) = 1 BY <1>3, <1>5
  <2> HIDE DEF projects
  <2>4. IntakeStep(program, raws, tokens, s, queued) BY <1>4, <1>5, <2>1, <2>2, <2>3, LinearAsks DEF fresh, queued, p
  <2> QED BY <1>5, <2>4 DEF v, projects
<1>6. CASE \E code : v = Answer(s, code) BY <1>6, AnswersQueueNothing DEF v
<1>7. (\E code : v = Answer(s, code)) \/ (v = queued /\ found # {} /\ known /\ fresh) BY <1>1, Zenon
<1> QED BY <1>5, <1>6, <1>7

\* The programs, and what may be sent to one
Programs == {"dispatch", "monitor", "compiled monitor"}
RequestTypeOf(program) == IF program = "dispatch" THEN WebhookType \cup ApiRequestType ELSE WebhookType

\* So does whatever is sent to either program.
LEMMA TakesRightly ==
  ASSUME NEW program \in Programs, NEW raws \in Seq(RawProjectType), NEW tokens,
         NEW s, IntakeShape(s),
         NEW req \in RequestTypeOf(program)
  PROVE  IntakeStep(program, raws, tokens, s, Take(s, req, program, raws, tokens))
<1> DEFINE v == Take(s, req, program, raws, tokens)
           dispatched == DispatchProjects(raws)
           compiled == program = "compiled monitor"
           monitored == MonitorProjects(raws, compiled)
           a == DispatchRun(s, dispatched, req, tokens)
           b == DispatchGitHub(s, dispatched, req)
           c == DispatchLinear(s, dispatched, req)
           d == MonitorGitHub(s, monitored, req)
           e == MonitorLinear(s, monitored, req)
<1>1. v = CASE program = "dispatch" /\ req.source = "api" -> a
            [] program = "dispatch" /\ req.source = "github" -> b
            [] program = "dispatch" /\ req.source = "linear" -> c
            [] program # "dispatch" /\ req.source = "github" -> d
            [] program # "dispatch" /\ req.source = "linear" -> e
  BY Zenon DEF Take
<1>2. /\ req \in WebhookType \/ (program = "dispatch" /\ req \in ApiRequestType)
      /\ req \in WebhookType => req.source = "github" \/ req.source = "linear"
      /\ req \in ApiRequestType => req.source = "api"
  BY DEF RequestTypeOf, WebhookType, ApiRequestType
<1> HIDE DEF v, a, b, c, d, e, compiled
<1>3. CASE program = "dispatch" /\ req.source = "api"
  <2>1. v = a BY <1>1, <1>3
  <2>2. req \in ApiRequestType BY <1>2, <1>3
  <2> QED BY <2>1, <2>2, ApiStep DEF v, a
<1>4. CASE program = "dispatch" /\ req.source = "github"
  <2>1. v = b BY <1>1, <1>4
  <2>2. req \in WebhookType BY <1>2, <1>4
  <2> QED BY <1>4, <2>1, <2>2, DispatchGitHubStep DEF v, b
<1>5. CASE program = "dispatch" /\ req.source = "linear"
  <2>1. v = c BY <1>1, <1>5
  <2>2. req \in WebhookType BY <1>2, <1>5
  <2> QED BY <1>5, <2>1, <2>2, DispatchLinearStep DEF v, c
<1>6. CASE program # "dispatch" /\ req.source = "github"
  <2>1. v = d BY <1>1, <1>6
  <2>2. req \in WebhookType BY <1>2, <1>6
  <2> QED BY <1>6, <2>1, <2>2, MonitorGitHubStep DEF v, d
<1>7. CASE program # "dispatch" /\ req.source = "linear"
  <2>1. v = e BY <1>1, <1>7
  <2>2. req \in WebhookType BY <1>2, <1>7
  <2> QED BY <1>7, <2>1, <2>2, MonitorLinearStep DEF v, e
<1> QED BY <1>2, <1>3, <1>4, <1>5, <1>6, <1>7

\* Where every run may be asked for and every delivery is queued once, the intake is sound.
LEMMA GoodIsSound ==
  ASSUME NEW program \in Programs, NEW raws, NEW tokens, NEW s,
         IntakeGood(program, raws, tokens, s)
  PROVE  IntakeSound(program, raws, tokens, s)
<1> DEFINE q == s.queue
           hooked == {i \in DOMAIN q : q[i].req.source # "api"}
           Rivals(req) == {i \in DOMAIN raws : /\ raws[i].readable /\ raws[i].source = "linear"
                                               /\ Enabled(raws[i]) /\ raws[i].teams \cap req.teams # {}}
           Owns(r, req) == CASE req.source = "github" -> r.repo = req.repo
                             [] OTHER -> \/ r.teams \cap req.teams # {}
                                         \/ program = "dispatch" /\ r.teams = {}
<1>1. \A i \in DOMAIN q : RightlyAsked(program, raws, tokens, q[i]) BY DEF IntakeGood
<1>2. \A i, j \in DOMAIN q : /\ q[i].req.source # "api" /\ q[j].req.source # "api"
                             /\ SeenAs(q[i]) = SeenAs(q[j])
                             => i = j
  BY DEF IntakeGood
<1>3. \A req : Rivals(req) = Claimants(raws, req) BY DEF Claimants
<1>4. \A r, req : Concerns(program, r, req) => Owns(r, req) BY DEF Concerns
<1> HIDE DEF q, Rivals, Owns
<1>5. ASSUME NEW i \in hooked
      PROVE  /\ Verified(q[i].req, q[i].project.secret) /\ Enabled(q[i].project) /\ Owns(q[i].project, q[i].req)
             /\ q[i].req.source = "linear" => q[i].req.fresh
             /\ q[i].req.source = "linear" /\ program # "dispatch" => Cardinality(Rivals(q[i].req)) = 1
  <2>1. MayHook(program, raws, q[i]) BY <1>1 DEF RightlyAsked
  <2> QED BY <1>3, <1>4, <2>1 DEF MayHook
<1>6. ASSUME NEW i \in hooked, NEW j \in hooked, q[i].project.id = q[j].project.id,
             Delivered(q[i].req) = Delivered(q[j].req)
      PROVE  i = j
  <2>1. SeenAs(q[i]) = SeenAs(q[j]) BY <1>6 DEF SeenAs
  <2> QED BY <1>2, <2>1
<1>7. ASSUME NEW i \in DOMAIN q \ hooked PROVE tokens.write # "" => q[i].req.token = tokens.write
  <2>1. MayWrite(tokens, q[i].req.token) BY <1>1 DEF RightlyAsked
  <2> QED BY <2>1, Zenon DEF MayWrite
<1> QED BY <1>5, <1>6, <1>7, Zenon DEF IntakeSound, q, hooked, Rivals, Owns

\* Whatever is sent, the intake is sound.
LEMMA IntakesSound ==
  ASSUME NEW program \in Programs, NEW raws \in Seq(RawProjectType), NEW tokens,
         NEW reqs \in Seq(RequestTypeOf(program))
  PROVE  IntakeSound(program, raws, tokens, Takes(program, raws, reqs, tokens))
<1> DEFINE n == Len(reqs)
<1>1. n \in Nat /\ DOMAIN reqs = 1 .. n /\ \A i \in 1 .. n : reqs[i] \in RequestTypeOf(program) BY LenProperties, ElementOfSeq
<1>2. PICK g : TakesBy(g, program, raws, reqs, tokens, n) BY <1>1, TakesUnfolds
<1> HIDE DEF n
<1> DEFINE All == {k \in Nat : k <= n => IntakeGood(program, raws, tokens, g[k])}
<1>3. 0 \in All
  <2>1. g[0] = Intake BY <1>2 DEF TakesBy
  <2> DEFINE none == <<>>
  <2>2. DOMAIN Intake = {"seen", "queue", "answers"} /\ Intake.queue = none BY DEF Intake
  <2>3. none \in Seq(ItemType) /\ DOMAIN none = {} OBVIOUS
  <2> HIDE DEF none
  <2>4. IntakeGood(program, raws, tokens, Intake) BY <2>2, <2>3 DEF IntakeGood, IntakeShape
  <2> QED BY <2>1, <2>4
<1>4. ASSUME NEW k \in Nat, k \in All PROVE k + 1 \in All
  <2>1. SUFFICES ASSUME k + 1 <= n PROVE IntakeGood(program, raws, tokens, g[k + 1]) OBVIOUS
  <2>2. IntakeGood(program, raws, tokens, g[k]) /\ k + 1 \in 1 .. n /\ k = (k + 1) - 1 BY <1>1, <1>4, <2>1
  <2>3. g[k + 1] = Take(g[k], reqs[k + 1], program, raws, tokens) BY <1>2, <2>2 DEF TakesBy
  <2>4. reqs[k + 1] \in RequestTypeOf(program) BY <1>1, <2>2
  <2>5. IntakeShape(g[k]) BY <2>2 DEF IntakeGood
  <2>6. IntakeStep(program, raws, tokens, g[k], g[k + 1]) BY <2>3, <2>4, <2>5, TakesRightly
  <2> QED BY <2>2, <2>6, IntakeStays
<1>5. n \in All
  <2> HIDE DEF All
  <2> QED BY <1>1, <1>3, <1>4, Induction
<1>6. Takes(program, raws, reqs, tokens) = g[n] BY <1>2 DEF TakesBy
<1>7. IntakeGood(program, raws, tokens, Takes(program, raws, reqs, tokens)) BY <1>1, <1>5, <1>6
<1> QED BY <1>7, GoodIsSound

\* The webhook handlers and the dispatch API: runs are started for who may ask for them,
\* for the project the request is about, and once per delivery.
THEOREM RunsAskedHold == Spec => []RunsWereAsked
<1>1. DecisionInv => RunsWereAsked
  <2> SUFFICES ASSUME DecisionInv, Decided("hooks")
               PROVE  IntakeSound(subject.program, subject.raws, subject.tokens, verdict[1])
    BY DEF RunsWereAsked
  <2>1. /\ subject \in Hooks
        /\ verdict[1] = Takes(subject.program, subject.raws, subject.requests, subject.tokens)
    BY InputKinds DEF DecisionInv, Reported, Decided
  <2>2. /\ subject.program \in Programs /\ subject.raws \in Seq(RawProjectType)
        /\ subject.requests \in Seq(RequestTypeOf(subject.program))
    BY <2>1, HooksAssumption DEF RequestTypeOf, Programs
  <2> QED BY <2>1, <2>2, IntakesSound
<1> QED BY <1>1, DecisionInvHolds, PTL

-----------------------------------------------------------------------------
\* The plan validator.

\* A finite set of numbers that is not empty has a greatest element, and Max is it.
LEMMA MaxOfNumbers ==
  ASSUME NEW T, T \subseteq Nat, IsFiniteSet(T), T # {}
  PROVE  Max(T) \in T /\ \A y \in T : y <= Max(T)
<1> DEFINE Fits(k) == \A S \in SUBSET Nat : IsFiniteSet(S) /\ Cardinality(S) = k + 1 => \E x \in S : \A y \in S : y <= x
           Good == {k \in Nat : Fits(k)}
<1>1. Fits(0)
  <2> TAKE S \in SUBSET Nat
  <2> HAVE IsFiniteSet(S) /\ Cardinality(S) = 0 + 1
  <2>0. S # {}
    <3>1. S = {} => Cardinality(S) = 0 BY FS_EmptySet
    <3> QED BY <3>1
  <2>1. PICK x \in S : TRUE BY <2>0
  <2>2. IsFiniteSet(S \ {x}) /\ Cardinality(S \ {x}) = 0 BY <2>1, FS_RemoveElement
  <2>3. S \ {x} = {} BY ONLY <2>2, FS_EmptySet
  <2> QED BY <2>1, <2>3
<1>2. ASSUME NEW k \in Nat, Fits(k) PROVE Fits(k + 1)
  <2> TAKE S \in SUBSET Nat
  <2> HAVE IsFiniteSet(S) /\ Cardinality(S) = (k + 1) + 1
  <2>0. S # {}
    <3>1. S = {} => Cardinality(S) = 0 BY FS_EmptySet
    <3> QED BY <3>1
  <2>1. PICK x \in S : TRUE BY <2>0
  <2>2. IsFiniteSet(S \ {x}) /\ Cardinality(S \ {x}) = k + 1 BY <2>1, FS_RemoveElement
  <2>3. PICK z \in S \ {x} : \A y \in S \ {x} : y <= z BY <1>2, <2>2
  <2>4. CASE x <= z BY <2>3, <2>4
  <2>5. CASE ~(x <= z) BY <2>1, <2>3, <2>5
  <2> QED BY <2>4, <2>5
<1>3. \A k \in Nat : k \in Good
  <2> HIDE DEF Fits
  <2>1. 0 \in Good BY <1>1
  <2>2. \A k \in Nat : k \in Good => k + 1 \in Good BY <1>2
  <2> HIDE DEF Good
  <2> QED BY <2>1, <2>2, Induction
<1>4. Cardinality(T) \in Nat /\ Cardinality(T) # 0 BY FS_CardinalityType, FS_EmptySet
<1>5. PICK k \in Nat : Cardinality(T) = k + 1
  <2>1. Cardinality(T) - 1 \in Nat BY <1>4
  <2> QED BY <2>1, <1>4
<1>6. PICK x \in T : \A y \in T : y <= x BY <1>3, <1>5
<1> QED BY <1>6 DEF Max

\* Where of each one of T it is known which come before it, and of any two one does,
\* each has a place of its own in 1 .. Cardinality(T).
IsOrder(T, before) ==
  /\ before \in [T -> SUBSET T]
  /\ \A i \in T : i \notin before[i]
  /\ \A i, j \in T : i # j => i \in before[j] \/ j \in before[i]
  /\ \A i, j \in T : i \in before[j] => before[i] \subseteq before[j]
Place(T, before, k) == CHOOSE i \in T : Cardinality(before[i]) = k - 1
\* Its place is one more than those that come before it.
LEMMA PlacesGiven ==
  ASSUME NEW T, IsFiniteSet(T), NEW before, IsOrder(T, before)
  PROVE  /\ Cardinality(T) \in Nat
         /\ \A k \in 1 .. Cardinality(T) : Place(T, before, k) \in T
         /\ \A i \in T : \E k \in 1 .. Cardinality(T) : Place(T, before, k) = i
<1> DEFINE n == Cardinality(T)
           r == [i \in T |-> Cardinality(before[i]) + 1]
<1>1. n \in Nat BY FS_CardinalityType
<1>2. ASSUME NEW i \in T PROVE IsFiniteSet(before[i]) /\ Cardinality(before[i]) \in Nat /\ Cardinality(before[i]) < n
  <2>1. before[i] \in SUBSET T /\ i \notin before[i] BY DEF IsOrder
  <2>2. IsFiniteSet(before[i]) /\ Cardinality(before[i]) <= n /\ (n = Cardinality(before[i]) => T = before[i])
    BY <2>1, FS_Subset
  <2>3. Cardinality(before[i]) \in Nat BY <2>2, FS_CardinalityType
  <2> QED BY <1>1, <2>1, <2>2, <2>3
<1>3. ASSUME NEW i \in T, NEW j \in T, i \in before[j] PROVE Cardinality(before[i]) < Cardinality(before[j])
  <2>1. before[i] \in SUBSET before[j] /\ i \notin before[i] BY <1>3 DEF IsOrder
  <2>2. IsFiniteSet(before[j]) BY <1>2
  <2>3. Cardinality(before[i]) <= Cardinality(before[j])
        /\ (Cardinality(before[j]) = Cardinality(before[i]) => before[j] = before[i])
    BY <2>1, <2>2, FS_Subset
  <2>4. before[i] # before[j] BY <1>3, <2>1
  <2>5. Cardinality(before[i]) \in Nat /\ Cardinality(before[j]) \in Nat BY <1>2
  <2> QED BY <2>3, <2>4, <2>5
<1>4. ASSUME NEW i \in T, NEW j \in T, Cardinality(before[i]) = Cardinality(before[j]) PROVE i = j
  <2>1. Cardinality(before[i]) \in Nat /\ Cardinality(before[j]) \in Nat BY <1>2
  <2>2. i \notin before[j] /\ j \notin before[i] BY <1>3, <1>4, <2>1
  <2> QED BY <2>2 DEF IsOrder
<1>5. r \in Injection(T, 1 .. n)
  <2>1. r \in [T -> 1 .. n] BY <1>1, <1>2
  <2>2. ASSUME NEW i \in T, NEW j \in T, r[i] = r[j] PROVE i = j
    <3>1. Cardinality(before[i]) + 1 = Cardinality(before[j]) + 1 BY <2>2
    <3>2. Cardinality(before[i]) = Cardinality(before[j]) BY <3>1, <1>2
    <3> QED BY <3>2, <1>4
  <2>3. DOMAIN r = T OBVIOUS
  <2> HIDE DEF r
  <2> QED BY <2>1, <2>2, <2>3 DEF Injection, IsInjective
<1>6. IsFiniteSet(1 .. n) /\ Cardinality(1 .. n) = n BY <1>1, FS_Interval
<1>7. r \in Surjection(T, 1 .. n)
  <2> HIDE DEF r, n
  <2>1. Cardinality(T) = Cardinality(1 .. n) BY <1>6 DEF n
  <2> QED BY <1>5, <1>6, <2>1, FS_Injection
<1>8. ASSUME NEW k \in 1 .. n PROVE \E i \in T : Cardinality(before[i]) = k - 1
  <2>1. PICK i \in T : r[i] = k BY <1>7 DEF Surjection
  <2>2. Cardinality(before[i]) + 1 = k BY <2>1
  <2>3. Cardinality(before[i]) = k - 1 BY <2>2, <1>2
  <2> QED BY <2>3
<1>9. ASSUME NEW k \in 1 .. n PROVE Place(T, before, k) \in T /\ Cardinality(before[Place(T, before, k)]) = k - 1
  BY <1>8 DEF Place
<1>10. ASSUME NEW i \in T PROVE \E k \in 1 .. n : Place(T, before, k) = i
  <2>1. Cardinality(before[i]) \in Nat /\ Cardinality(before[i]) < n BY <1>2
  <2>2. PICK k \in 1 .. n : k - 1 = Cardinality(before[i])
    <3>1. Cardinality(before[i]) + 1 \in 1 .. n /\ (Cardinality(before[i]) + 1) - 1 = Cardinality(before[i]) BY <2>1, <1>1
    <3> QED BY <3>1
  <2>3. Place(T, before, k) \in T /\ Cardinality(before[Place(T, before, k)]) = Cardinality(before[i]) BY <1>9, <2>2
  <2> QED BY <2>3, <1>4
<1> QED BY <1>1, <1>9, <1>10

\* The steps that are kept are all there, and no others.
LEMMA ArrangedAll ==
  ASSUME NEW S, NEW steps, NEW T, IsFiniteSet(T), NEW before, IsOrder(T, before), \A i \in T : steps[i] \in S
  PROVE  /\ Arranged(steps, before) \in Seq(S)
         /\ Len(Arranged(steps, before)) = Cardinality(T)
         /\ ToSet(Arranged(steps, before)) = {steps[i] : i \in T}
<1> DEFINE n == Cardinality(T)
           u == [k \in 1 .. n |-> steps[Place(T, before, k)]]
<1>1. /\ n \in Nat
      /\ \A k \in 1 .. n : Place(T, before, k) \in T
      /\ \A i \in T : \E k \in 1 .. n : Place(T, before, k) = i
  BY PlacesGiven
<1>2. Arranged(steps, before) = u
  <2>1. DOMAIN before = T BY DEF IsOrder
  <2> QED BY <2>1 DEF Arranged, Place
<1>3. \A k \in 1 .. n : u[k] = steps[Place(T, before, k)] OBVIOUS
<1>4. u \in Seq(S) /\ Len(u) = n /\ DOMAIN u = 1 .. n BY <1>1
<1> HIDE DEF u, n
<1>5. ToSet(u) = {steps[i] : i \in T}
  <2>1. ASSUME NEW x \in ToSet(u) PROVE x \in {steps[i] : i \in T}
    <3>1. PICK k \in 1 .. n : u[k] = x BY <2>1, <1>4 DEF ToSet
    <3> QED BY <3>1, <1>1, <1>3
  <2>2. ASSUME NEW i \in T PROVE steps[i] \in ToSet(u)
    <3>1. PICK k \in 1 .. n : Place(T, before, k) = i BY <1>1
    <3>2. u[k] = steps[i] BY <3>1, <1>3
    <3> QED BY <3>2, <1>4 DEF ToSet
  <2> QED BY <2>1, <2>2
<1> QED BY <1>2, <1>4, <1>5 DEF n

\* The numbers of steps are as many as the steps if no two steps have the same.
LEMMA NumbersCounted ==
  ASSUME NEW t \in Seq(StepType)
  PROVE  /\ IsFiniteSet(Numbers(t)) /\ Numbers(t) \subseteq Nat /\ Cardinality(Numbers(t)) \in Nat
         /\ Cardinality(Numbers(t)) = Len(t) <=> \A i, j \in 1 .. Len(t) : t[i].number = t[j].number => i = j
<1> DEFINE n == Len(t)
           f == [i \in 1 .. n |-> t[i].number]
           N == Numbers(t)
<1>1. n \in Nat /\ DOMAIN t = 1 .. n BY LenProperties
<1>2. \A i \in 1 .. n : t[i] \in StepType BY ElementOfSeq
<1>3. \A i \in 1 .. n : t[i].number \in N BY <1>1 DEF Numbers, ToSet
<1>4. ASSUME NEW x \in N PROVE \E i \in 1 .. n : t[i].number = x BY <1>1, <1>4 DEF Numbers, ToSet
<1>5. f \in Surjection(1 .. n, N)
  <2>1. f \in [1 .. n -> N] BY <1>3
  <2>2. \A x \in N : \E i \in 1 .. n : f[i] = x BY <1>4
  <2> HIDE DEF f, N
  <2> QED BY <2>1, <2>2 DEF Surjection
<1>6. IsFiniteSet(1 .. n) /\ Cardinality(1 .. n) = n BY <1>1, FS_Interval
<1>7. f \in Injection(1 .. n, N) <=> \A i, j \in 1 .. n : t[i].number = t[j].number => i = j
  <2>1. f \in [1 .. n -> N] /\ DOMAIN f = 1 .. n BY <1>3
  <2>2. \A i \in 1 .. n : f[i] = t[i].number OBVIOUS
  <2> HIDE DEF f, N
  <2> QED BY <2>1, <2>2 DEF Injection, IsInjective
<1>8. IsFiniteSet(N) /\ (Cardinality(N) = n <=> f \in Injection(1 .. n, N))
  <2> HIDE DEF f, N, n
  <2> QED BY <1>5, <1>6, FS_Surjection
<1>9. N \subseteq Nat BY <1>2, <1>4 DEF StepType
<1> HIDE DEF f, N
<1>10. Cardinality(N) \in Nat BY <1>8, FS_CardinalityType
<1> QED BY <1>7, <1>8, <1>9, <1>10 DEF N

\* What is appended is among them.
LEMMA BothThere ==
  ASSUME NEW S, NEW a \in Seq(S), NEW b \in Seq(S)
  PROVE  /\ a \o b \in Seq(S) /\ Len(a \o b) = Len(a) + Len(b)
         /\ ToSet(a \o b) = ToSet(a) \cup ToSet(b)
<1> DEFINE m == Len(a)
           n == Len(b)
           u == a \o b
<1>1. m \in Nat /\ n \in Nat /\ DOMAIN a = 1 .. m /\ DOMAIN b = 1 .. n BY LenProperties
<1>2. u \in Seq(S) /\ Len(u) = m + n /\ \A i \in 1 .. m + n : u[i] = IF i <= m THEN a[i] ELSE b[i - m]
  BY ConcatProperties
<1>3. DOMAIN u = 1 .. m + n BY <1>2, LenProperties
<1> HIDE DEF m, n, u
<1>4. ASSUME NEW x \in ToSet(u) PROVE x \in ToSet(a) \cup ToSet(b)
  <2>1. PICK i \in 1 .. m + n : u[i] = x BY <1>3 DEF ToSet
  <2>2. CASE i <= m
    <3>1. i \in 1 .. m /\ x = a[i] BY <1>1, <1>2, <2>1, <2>2
    <3> QED BY <1>1, <3>1 DEF ToSet
  <2>3. CASE ~(i <= m)
    <3>1. i - m \in 1 .. n /\ x = b[i - m] BY <1>1, <1>2, <2>1, <2>3
    <3> QED BY <1>1, <3>1 DEF ToSet
  <2> QED BY <2>2, <2>3
<1>5. ASSUME NEW x \in ToSet(a) PROVE x \in ToSet(u)
  <2>1. PICK i \in 1 .. m : a[i] = x BY <1>1 DEF ToSet
  <2>2. i \in 1 .. m + n /\ u[i] = x BY <1>1, <1>2, <2>1
  <2> QED BY <1>3, <2>2 DEF ToSet
<1>6. ASSUME NEW x \in ToSet(b) PROVE x \in ToSet(u)
  <2>1. PICK i \in 1 .. n : b[i] = x BY <1>1 DEF ToSet
  <2>2. i + m \in 1 .. m + n /\ ~(i + m <= m) /\ (i + m) - m = i BY <1>1
  <2>3. u[i + m] = x BY <1>2, <2>1, <2>2
  <2> QED BY <1>3, <2>2, <2>3 DEF ToSet
<1>7. ToSet(u) = ToSet(a) \cup ToSet(b) BY <1>4, <1>5, <1>6
<1> QED BY <1>2, <1>7 DEF u, m, n

\* Inserting steps loses none and makes none.
LEMMA InsertedThere ==
  ASSUME NEW a \in Seq(StepType), NEW b \in Seq(StepType)
  PROVE  /\ InsertSteps(a, b) \in Seq(StepType) /\ Len(InsertSteps(a, b)) = Len(a) + Len(b)
         /\ ToSet(InsertSteps(a, b)) = ToSet(a) \cup ToSet(b)
<1> DEFINE all == a \o b
           n == Len(a) + Len(b)
           T == 1 .. n
           before == [i \in T |-> {j \in T : \/ all[j].number < all[i].number
                                            \/ (all[j].number = all[i].number /\ j < i)}]
<1>1. all \in Seq(StepType) /\ Len(all) = n /\ ToSet(all) = ToSet(a) \cup ToSet(b) BY BothThere
<1>2. n \in Nat BY LenProperties
<1>3. DOMAIN all = T BY <1>1, LenProperties
<1>4. \A i \in T : all[i] \in StepType /\ all[i].number \in Nat
  <2>1. \A i \in T : all[i] \in StepType BY <1>1, ElementOfSeq
  <2> QED BY <2>1 DEF StepType
<1>5. InsertSteps(a, b) = Arranged(all, before)
  <2>1. InsertSteps(a, b) = Arranged(all, [i \in DOMAIN all |->
                       {j \in DOMAIN all : \/ all[j].number < all[i].number
                                           \/ (all[j].number = all[i].number /\ j < i)}])
    BY DEF InsertSteps
  <2> QED BY <1>3, <2>1
<1>6. \A i, j \in T : j \in before[i] <=> \/ all[j].number < all[i].number
                                         \/ (all[j].number = all[i].number /\ j < i)
  OBVIOUS
<1>7. before \in [T -> SUBSET T] OBVIOUS
<1> HIDE DEF all, before
<1>8. \A i \in T : i \in Nat BY <1>2
<1> HIDE DEF T
<1>9. IsOrder(T, before)
  <2>1. \A i \in T : i \notin before[i] BY <1>4, <1>6, <1>8
  <2>2. \A i, j \in T : i # j => i \in before[j] \/ j \in before[i] BY <1>4, <1>6, <1>8
  <2>3. ASSUME NEW i \in T, NEW j \in T, i \in before[j] PROVE before[i] \subseteq before[j]
    <3>1. ASSUME NEW k \in before[i] PROVE k \in before[j]
      <4>1. k \in T BY <1>7, <3>1
      <4>2. /\ all[i].number < all[j].number \/ (all[i].number = all[j].number /\ i < j)
            /\ all[k].number < all[i].number \/ (all[k].number = all[i].number /\ k < i)
        BY <1>6, <2>3, <3>1, <4>1
      <4>3. all[k].number < all[j].number \/ (all[k].number = all[j].number /\ k < j)
        BY <1>4, <1>8, <4>1, <4>2
      <4> QED BY <1>6, <4>1, <4>3
    <3> QED BY <3>1
  <2> QED BY <1>7, <2>1, <2>2, <2>3 DEF IsOrder
<1>10. IsFiniteSet(T) /\ Cardinality(T) = n BY <1>2, FS_Interval DEF T
<1>11. /\ Arranged(all, before) \in Seq(StepType)
       /\ Len(Arranged(all, before)) = n
       /\ ToSet(Arranged(all, before)) = {all[i] : i \in T}
  BY <1>4, <1>9, <1>10, ArrangedAll
<1>12. {all[i] : i \in T} = ToSet(all) BY <1>3 DEF ToSet
<1> QED BY <1>1, <1>5, <1>11, <1>12

\* Only the agent of a step is renamed, and only if nobody is called so.
LEMMA RenamedOnly ==
  ASSUME NEW x \in StepType
  PROVE  /\ Renamed(x).number = x.number /\ Renamed(x).deps = x.deps
         /\ Known(x.agent) => Renamed(x) = x
  BY DEF Renamed, StepType

\* Steps of which each is done by somebody stay what they are.
LEMMA AllStay ==
  ASSUME NEW t \in Seq(StepType), \A x \in ToSet(t) : Resolves(x.agent)
  PROVE  /\ Len(Remap(t)) = Len(t) /\ Numbers(Remap(t)) = Numbers(t)
         /\ \A x \in ToSet(t) : Renamed(x) \in ToSet(Remap(t))
         /\ \A y \in ToSet(Remap(t)) : \E x \in ToSet(t) : y = Renamed(x)
<1> DEFINE n == Len(t)
           u == [i \in 1 .. n |-> Renamed(t[i])]
<1>1. n \in Nat /\ DOMAIN t = 1 .. n BY LenProperties
<1>2. \A i \in 1 .. n : t[i] \in StepType /\ t[i] \in ToSet(t)
  <2>1. \A i \in 1 .. n : t[i] \in StepType BY ElementOfSeq
  <2> QED BY <1>1, <2>1 DEF ToSet
<1>3. Remap(t) = u
  <2>1. {i \in DOMAIN t : Resolves(t[i].agent)} = DOMAIN t BY <1>1, <1>2
  <2> QED BY <1>1, <2>1 DEF Remap
<1>4. DOMAIN u = 1 .. n /\ \A i \in 1 .. n : u[i] = Renamed(t[i]) OBVIOUS
<1>5. Len(u) = n
  <2>1. u \in Seq({Renamed(t[i]) : i \in 1 .. n}) BY <1>1
  <2> HIDE DEF u
  <2> QED BY <1>1, <1>4, <2>1, LenProperties
<1> HIDE DEF u, n
<1>6. \A x \in ToSet(t) : x \in StepType /\ Renamed(x) \in ToSet(u)
  <2> TAKE x \in ToSet(t)
  <2>1. PICK i \in 1 .. n : t[i] = x BY <1>1 DEF ToSet
  <2>2. u[i] = Renamed(x) BY <1>4, <2>1
  <2> QED BY <1>2, <1>4, <2>1, <2>2 DEF ToSet
<1>7. \A y \in ToSet(u) : \E x \in ToSet(t) : y = Renamed(x)
  <2> TAKE y \in ToSet(u)
  <2>1. PICK i \in 1 .. n : u[i] = y BY <1>4 DEF ToSet
  <2> QED BY <1>2, <1>4, <2>1
<1>8. Numbers(u) = Numbers(t)
  <2>1. \A x \in ToSet(t) : Renamed(x).number = x.number BY <1>6, RenamedOnly
  <2>2. ASSUME NEW k \in Numbers(u) PROVE k \in Numbers(t)
    <3>1. PICK y \in ToSet(u) : k = y.number BY DEF Numbers
    <3>2. PICK x \in ToSet(t) : y = Renamed(x) BY <1>7
    <3> QED BY <2>1, <3>1, <3>2 DEF Numbers
  <2>3. ASSUME NEW k \in Numbers(t) PROVE k \in Numbers(u)
    <3>1. PICK x \in ToSet(t) : k = x.number BY DEF Numbers
    <3> QED BY <1>6, <2>1, <3>1 DEF Numbers
  <2> QED BY <2>2, <2>3
<1> QED BY <1>3, <1>5, <1>6, <1>7, <1>8 DEF n

\* A step whose agent there is is still done by that agent.
LEMMA KnownStay ==
  ASSUME NEW t \in Seq(StepType), NEW x \in ToSet(t), Known(x.agent)
  PROVE  \E y \in ToSet(Remap(t)) : y.agent = x.agent
<1> DEFINE n == Len(t)
           stay == {i \in 1 .. n : Resolves(t[i].agent)}
           before == [i \in stay |-> {j \in stay : j < i}]
           kept == Arranged(t, before)
           u == [i \in DOMAIN kept |-> [Renamed(kept[i]) EXCEPT !.number = i]]
<1>1. n \in Nat /\ DOMAIN t = 1 .. n BY LenProperties
<1>2. \A i \in 1 .. n : t[i] \in StepType BY ElementOfSeq
<1>3. PICK i \in 1 .. n : t[i] = x BY <1>1 DEF ToSet
<1>4. x \in StepType /\ Renamed(x) = x BY <1>2, <1>3, RenamedOnly
<1>5. i \in stay
  <2>1. Resolves(x.agent) BY Zenon DEF Resolves
  <2> QED BY <1>3, <2>1
<1>6. CASE stay = DOMAIN t
  <2> DEFINE v == [k \in 1 .. n |-> Renamed(t[k])]
  <2>1. Remap(t) = v BY <1>1, <1>6 DEF Remap
  <2>2. v[i] = x /\ DOMAIN v = 1 .. n BY <1>3, <1>4
  <2> HIDE DEF v
  <2>3. x \in ToSet(v) BY <2>2 DEF ToSet
  <2> QED BY <2>1, <2>3
<1>7. CASE stay # DOMAIN t
  <2>1. Remap(t) = u BY <1>1, <1>7 DEF Remap
  <2>2. before \in [stay -> SUBSET stay] /\ (\A k, j \in stay : j \in before[k] <=> j < k) OBVIOUS
  <2>3. IsFiniteSet(stay)
    <3>1. stay \in SUBSET (1 .. n) /\ IsFiniteSet(1 .. n) BY <1>1, FS_Interval
    <3> HIDE DEF stay
    <3> QED BY <3>1, FS_Subset
  <2>4. \A k \in stay : k \in Nat /\ t[k] \in StepType BY <1>1, <1>2
  <2>5. IsOrder(stay, before)
    <3> HIDE DEF stay, before
    <3>1. \A k \in stay : k \notin before[k] BY <2>2, <2>4
    <3>2. \A k, j \in stay : k # j => k \in before[j] \/ j \in before[k] BY <2>2, <2>4
    <3>3. \A k, j \in stay : k \in before[j] => before[k] \subseteq before[j] BY <2>2, <2>4
    <3> QED BY <2>2, <3>1, <3>2, <3>3 DEF IsOrder
  <2>6. kept \in Seq(StepType) /\ ToSet(kept) = {t[k] : k \in stay}
    <3> HIDE DEF stay, before
    <3> QED BY <2>3, <2>4, <2>5, ArrangedAll
  <2>7. x \in ToSet(kept) BY <1>3, <1>5, <2>6
  <2>8. PICK k \in DOMAIN kept : kept[k] = x
    <3> HIDE DEF kept
    <3> QED BY <2>7 DEF ToSet
  <2>9. u[k] = [x EXCEPT !.number = k] /\ DOMAIN u = DOMAIN kept
    <3> HIDE DEF kept
    <3> QED BY <1>4, <2>8
  <2>10. u[k].agent = x.agent BY <1>4, <2>9 DEF StepType
  <2> HIDE DEF u
  <2>11. u[k] \in ToSet(u) BY <2>8, <2>9 DEF ToSet
  <2> QED BY <2>1, <2>10, <2>11
<1> QED BY <1>6, <1>7

\* Nothing is injected yet
Bare(plan) == [plan |-> plan, steps |-> <<>>, gates |-> <<>>]
\* Enforcing what the rules ask for, one after the other
EnforcedBy(g, plan, rules, n) ==
  /\ g[0] = Bare(plan)
  /\ \A k \in 1 .. n : g[k] = Enforce(g[k - 1], rules[k])
  /\ Enforced(plan, rules) = g[n]
\* The rules are enforced one after the other.
LEMMA EnforcedUnfolds ==
  ASSUME NEW plan, NEW rules, NEW n \in Nat, DOMAIN rules = 1 .. n
  PROVE  \E g : EnforcedBy(g, plan, rules, n)
<1> DEFINE Op(s, r) == Enforce(s, r)
           Is(g, k) == g = [T \in SUBSET (1 .. k) |-> IF T = {} THEN Bare(plan) ELSE Op(g[T \ {Max(T)}], rules[Max(T)])]
           All == {k \in Nat : \E g : Is(g, k)}
<1>1. 0 \in All
  <2> DEFINE g0 == [T \in SUBSET (1 .. 0) |-> Bare(plan)]
  <2>1. \A T \in SUBSET (1 .. 0) : T = {} OBVIOUS
  <2>2. Is(g0, 0) BY <2>1
  <2> QED BY <2>2
<1>2. ASSUME NEW k \in Nat, k \in All PROVE k + 1 \in All
  <2>1. PICK g : Is(g, k) BY <1>2
  <2> DEFINE h == [T \in SUBSET (1 .. k + 1) |-> IF k + 1 \in T THEN Op(g[T \ {k + 1}], rules[k + 1]) ELSE g[T]]
  <2> HIDE DEF Op
  <2>2. ASSUME NEW T \in SUBSET (1 .. k + 1)
        PROVE  h[T] = IF T = {} THEN Bare(plan) ELSE Op(h[T \ {Max(T)}], rules[Max(T)])
    <3>1. CASE k + 1 \in T
      <4>1. Max(T) = k + 1 BY <3>1, MaxOfPrefix
      <4>2. T \ {k + 1} \in SUBSET (1 .. k + 1) /\ k + 1 \notin T \ {k + 1} OBVIOUS
      <4>3. h[T \ {k + 1}] = g[T \ {k + 1}] BY <4>2
      <4> QED BY <3>1, <4>1, <4>3
    <3>2. CASE k + 1 \notin T
      <4>1. T \in SUBSET (1 .. k) BY <3>2
      <4>2. h[T] = g[T] BY <3>2
      <4>3. g[T] = IF T = {} THEN Bare(plan) ELSE Op(g[T \ {Max(T)}], rules[Max(T)]) BY <2>1, <4>1
      <4>4. T \ {Max(T)} \in SUBSET (1 .. k + 1) /\ k + 1 \notin T \ {Max(T)} BY <3>2
      <4>5. h[T \ {Max(T)}] = g[T \ {Max(T)}] BY <4>4
      <4> QED BY <4>2, <4>3, <4>5
    <3> QED BY <3>1, <3>2
  <2>3. Is(h, k + 1) BY <2>2
  <2>4. \E x : Is(x, k + 1) BY <2>3
  <2> HIDE DEF Is
  <2> QED BY <2>4
<1>3. n \in All
  <2> HIDE DEF All
  <2> QED BY <1>1, <1>2, Induction
<1>4. PICK f : Is(f, n) BY <1>3, Zenon
<1>5. Enforced(plan, rules) = (CHOOSE g : Is(g, n))[1 .. n]
  BY DEF Enforced, Bare, FoldLeft, MapThenFoldSet
<1> DEFINE c == CHOOSE g : Is(g, n)
<1>6. Is(c, n) BY <1>4, Zenon
<1> HIDE DEF c, Op
<1> DEFINE e == [k \in 0 .. n |-> c[1 .. k]]
<1>7. e[0] = Bare(plan)
  <2>1. 1 .. 0 = {} /\ {} \in SUBSET (1 .. n) OBVIOUS
  <2> QED BY <1>6, <2>1
<1>8. ASSUME NEW k \in 1 .. n PROVE e[k] = Op(e[k - 1], rules[k])
  <2>1. 1 .. k \in SUBSET (1 .. n) /\ 1 .. k # {} /\ (1 .. k) \ {k} = 1 .. (k - 1) OBVIOUS
  <2>2. Max(1 .. k) = k
    <3>1. k - 1 \in Nat /\ 1 .. k \in SUBSET (1 .. (k - 1) + 1) /\ (k - 1) + 1 \in 1 .. k /\ (k - 1) + 1 = k OBVIOUS
    <3> QED BY <3>1, MaxOfPrefix
  <2>3. c[1 .. k] = Op(c[1 .. (k - 1)], rules[k]) BY <1>6, <2>1, <2>2
  <2> QED BY <2>3
<1>9. Enforced(plan, rules) = e[n] BY <1>5 DEF c
<1> HIDE DEF e
<1> QED BY <1>7, <1>8, <1>9 DEF Op, EnforcedBy

\* Adding gates, one after the other
GatesBy(g, gates, new, n) ==
  /\ g[0] = gates
  /\ \A k \in 1 .. n : g[k] = AddGate(g[k - 1], new[k])
  /\ WithGates(gates, new) = g[n]
\* The gates are added one after the other.
LEMMA GatesUnfold ==
  ASSUME NEW gates, NEW new, NEW n \in Nat, DOMAIN new = 1 .. n
  PROVE  \E g : GatesBy(g, gates, new, n)
<1> DEFINE Op(s, r) == AddGate(s, r)
           Is(g, k) == g = [T \in SUBSET (1 .. k) |-> IF T = {} THEN gates ELSE Op(g[T \ {Max(T)}], new[Max(T)])]
           All == {k \in Nat : \E g : Is(g, k)}
<1>1. 0 \in All
  <2> DEFINE g0 == [T \in SUBSET (1 .. 0) |-> gates]
  <2>1. \A T \in SUBSET (1 .. 0) : T = {} OBVIOUS
  <2>2. Is(g0, 0) BY <2>1
  <2> QED BY <2>2
<1>2. ASSUME NEW k \in Nat, k \in All PROVE k + 1 \in All
  <2>1. PICK g : Is(g, k) BY <1>2
  <2> DEFINE h == [T \in SUBSET (1 .. k + 1) |-> IF k + 1 \in T THEN Op(g[T \ {k + 1}], new[k + 1]) ELSE g[T]]
  <2> HIDE DEF Op
  <2>2. ASSUME NEW T \in SUBSET (1 .. k + 1)
        PROVE  h[T] = IF T = {} THEN gates ELSE Op(h[T \ {Max(T)}], new[Max(T)])
    <3>1. CASE k + 1 \in T
      <4>1. Max(T) = k + 1 BY <3>1, MaxOfPrefix
      <4>2. T \ {k + 1} \in SUBSET (1 .. k + 1) /\ k + 1 \notin T \ {k + 1} OBVIOUS
      <4>3. h[T \ {k + 1}] = g[T \ {k + 1}] BY <4>2
      <4> QED BY <3>1, <4>1, <4>3
    <3>2. CASE k + 1 \notin T
      <4>1. T \in SUBSET (1 .. k) BY <3>2
      <4>2. h[T] = g[T] BY <3>2
      <4>3. g[T] = IF T = {} THEN gates ELSE Op(g[T \ {Max(T)}], new[Max(T)]) BY <2>1, <4>1
      <4>4. T \ {Max(T)} \in SUBSET (1 .. k + 1) /\ k + 1 \notin T \ {Max(T)} BY <3>2
      <4>5. h[T \ {Max(T)}] = g[T \ {Max(T)}] BY <4>4
      <4> QED BY <4>2, <4>3, <4>5
    <3> QED BY <3>1, <3>2
  <2>3. Is(h, k + 1) BY <2>2
  <2>4. \E x : Is(x, k + 1) BY <2>3
  <2> HIDE DEF Is
  <2> QED BY <2>4
<1>3. n \in All
  <2> HIDE DEF All
  <2> QED BY <1>1, <1>2, Induction
<1>4. PICK f : Is(f, n) BY <1>3, Zenon
<1>5. WithGates(gates, new) = (CHOOSE g : Is(g, n))[1 .. n]
  BY DEF WithGates, FoldLeft, MapThenFoldSet
<1> DEFINE c == CHOOSE g : Is(g, n)
<1>6. Is(c, n) BY <1>4, Zenon
<1> HIDE DEF c, Op
<1> DEFINE e == [k \in 0 .. n |-> c[1 .. k]]
<1>7. e[0] = gates
  <2>1. 1 .. 0 = {} /\ {} \in SUBSET (1 .. n) OBVIOUS
  <2> QED BY <1>6, <2>1
<1>8. ASSUME NEW k \in 1 .. n PROVE e[k] = Op(e[k - 1], new[k])
  <2>1. 1 .. k \in SUBSET (1 .. n) /\ 1 .. k # {} /\ (1 .. k) \ {k} = 1 .. (k - 1) OBVIOUS
  <2>2. Max(1 .. k) = k
    <3>1. k - 1 \in Nat /\ 1 .. k \in SUBSET (1 .. (k - 1) + 1) /\ (k - 1) + 1 \in 1 .. k /\ (k - 1) + 1 = k OBVIOUS
    <3> QED BY <3>1, MaxOfPrefix
  <2>3. c[1 .. k] = Op(c[1 .. (k - 1)], new[k]) BY <1>6, <2>1, <2>2
  <2> QED BY <2>3
<1>9. WithGates(gates, new) = e[n] BY <1>5 DEF c
<1> HIDE DEF e
<1> QED BY <1>7, <1>8, <1>9 DEF Op, GatesBy

\* An agent of platform.yaml has the role it has there.
LEMMA RoleOfAgent == \A m \in DOMAIN Agents : Known(Agents[m].type) /\ RoleOf(Agents[m].type) = Agents[m].role
<1> TAKE m \in DOMAIN Agents
<1> DEFINE same == {i \in DOMAIN Agents : Agents[i].type = Agents[m].type}
<1>1. Known(Agents[m].type) BY DEF Known
<1>2. RoleOf(Agents[m].type) = Agents[Min(same)].role BY <1>1, Zenon DEF RoleOf
<1>3. DOMAIN Agents \subseteq Nat BY AgentsAssumption, LenProperties
<1>4. same \subseteq Nat /\ same # {} BY <1>3
<1>5. Min(same) \in same
  <2> HIDE DEF same
  <2> QED BY <1>4, MinOfNumbers
<1>6. Min(same) = m BY <1>5, AgentsAssumption
<1> QED BY <1>1, <1>2, <1>6

\* Who has a role is an agent of platform.yaml.
LEMMA RoleKnown == ASSUME NEW agent, NEW role \in Names, RoleOf(agent) = role PROVE Known(agent)
BY Zenon DEF RoleOf, Names

\* An agent that is there, or that a rule asks for
AskedFor(rules, agent) == Known(agent) \/ \E r \in ToSet(rules) : r.type = "agent" /\ r.target = agent

\* What is injected is new, waits for steps of the plan only, and is asked for.
GateType == [after : Nat, required : BOOLEAN]
Injects(plan, rules, x) ==
  /\ x.deps \subseteq Numbers(plan.steps)
  /\ \A p \in Numbers(plan.steps) : p < x.number
  /\ AskedFor(rules, x.agent)
MadeInv(plan, rules, s) ==
  /\ s \in [plan : {plan}, steps : Seq(StepType), gates : Seq(GateType)]
  /\ \A x \in ToSet(s.steps) : Injects(plan, rules, x)
  /\ Cardinality(Numbers(s.steps)) = Len(s.steps)

\* What a rule asks for is there.
StepsOf(plan, s) == ToSet(plan.steps) \cup ToSet(s.steps)
Meets(plan, s, r) ==
  /\ r.type = "agent" => \E x \in StepsOf(plan, s) : x.agent = r.target
  /\ r.type = "role" /\ (\E a \in ToSet(Agents) : a.role = r.target)
       => \E x \in StepsOf(plan, s) : RoleOf(x.agent) = r.target
  /\ r.type = "gate" /\ GateSteps(plan, r.target) # {} =>
       \E g \in ToSet(s.gates) : g.after = LastOf(plan.steps, GateSteps(plan, r.target))
\* Nothing injected is taken back.
Grows(s, v) == ToSet(s.steps) \subseteq ToSet(v.steps) /\ ToSet(s.gates) \subseteq ToSet(v.gates)

\* The last of some steps of a plan is one of them.
LEMMA LastIsThere ==
  ASSUME NEW t \in Seq(StepType), NEW those \in SUBSET (1 .. Len(t)), those # {}
  PROVE  /\ Max(those) \in those /\ (\A i \in those : i <= Max(those))
         /\ LastOf(t, those) = t[Max(those)].number
         /\ LastOf(t, those) \in Numbers(t) /\ LastOf(t, those) \in Nat
<1>1. Len(t) \in Nat /\ DOMAIN t = 1 .. Len(t) BY LenProperties
<1>2. Max(those) \in those /\ (\A i \in those : Max(those) >= i) BY <1>1, MaxOfBounded
<1>3. Max(those) \in 1 .. Len(t) BY <1>2
<1>4. LastOf(t, those) = t[Max(those)].number BY DEF LastOf
<1>5. t[Max(those)] \in ToSet(t) /\ t[Max(those)] \in StepType
  <2>1. t[Max(those)] \in StepType BY <1>3, ElementOfSeq
  <2> QED BY <1>1, <1>3, <2>1 DEF ToSet
<1>6. \A i \in those : i <= Max(those) BY <1>1, <1>2, <1>3
<1> QED BY <1>2, <1>4, <1>5, <1>6 DEF Numbers, StepType

\* A step is injected after one of the plan, if there is any.
LEMMA PointIsThere ==
  ASSUME NEW plan, plan.steps \in Seq(StepType), NEW agent
  PROVE  InsertionPoint(plan, agent) \in Numbers(plan.steps) \cup {0}
<1>1. DOMAIN plan.steps = 1 .. Len(plan.steps) BY LenProperties
<1>2. ASSUME NEW those \in SUBSET (1 .. Len(plan.steps)) PROVE LastOf(plan.steps, those) \in Numbers(plan.steps) \cup {0}
  <2>1. CASE those = {} BY <2>1 DEF LastOf
  <2>2. CASE those # {} BY <2>2, LastIsThere
  <2> QED BY <2>1, <2>2
<1> DEFINE prior == {i \in 1 .. RoleIndex(RoleOf(agent)) - 1 : \E s \in ToSet(plan.steps) : RoleOf(s.agent) = RoleOrder[i]}
           those == {i \in DOMAIN plan.steps : prior # {} => RoleOf(plan.steps[i].agent) = RoleOrder[Max(prior)]}
<1>3. InsertionPoint(plan, agent) = LastOf(plan.steps, those) BY DEF InsertionPoint
<1>4. those \in SUBSET (1 .. Len(plan.steps)) BY <1>1
<1> HIDE DEF those
<1> QED BY <1>2, <1>3, <1>4

\* Injecting a step that is asked for keeps what is injected in order.
LEMMA InjectedMade ==
  ASSUME NEW plan, plan.steps \in Seq(StepType), NEW rules, NEW s, MadeInv(plan, rules, s),
         NEW agent \in STRING, AskedFor(rules, agent)
  PROVE  /\ MadeInv(plan, rules, Injected(s, agent)) /\ Grows(s, Injected(s, agent))
         /\ \E x \in ToSet(Injected(s, agent).steps) : x.agent = agent
<1> DEFINE after == InsertionPoint(plan, agent)
           number == NextNumber(plan, s.steps)
           x == [number |-> number, agent |-> agent, deps |-> {after} \ {0}]
           v == [s EXCEPT !.steps = Append(@, x)]
<1>1. s \in [plan : {plan}, steps : Seq(StepType), gates : Seq(GateType)] /\ s.plan = plan /\ s.steps \in Seq(StepType)
  BY DEF MadeInv
<1>2. Injected(s, agent) = v BY <1>1 DEF Injected
<1>3. after \in Numbers(plan.steps) \cup {0} BY PointIsThere
<1>4. /\ IsFiniteSet(Numbers(plan.steps)) /\ Numbers(plan.steps) \subseteq Nat
      /\ IsFiniteSet(Numbers(s.steps)) /\ Numbers(s.steps) \subseteq Nat
  BY <1>1, NumbersCounted
<1>5. number \in Nat /\ \A p \in Numbers(plan.steps) \cup Numbers(s.steps) : p < number
  <2> DEFINE all == {0} \cup Numbers(plan.steps) \cup Numbers(s.steps)
  <2>1. all \subseteq Nat /\ all # {} BY <1>4
  <2>2. IsFiniteSet({0})
    <3>1. IsFiniteSet({}) BY FS_EmptySet
    <3>2. IsFiniteSet({} \cup {0}) BY <3>1, FS_AddElement
    <3>3. {} \cup {0} = {0} OBVIOUS
    <3> QED BY <3>2, <3>3
  <2>3. IsFiniteSet({0} \cup Numbers(plan.steps)) BY <2>2, <1>4, FS_Union
  <2>4. IsFiniteSet(all) BY <2>3, <1>4, FS_Union
  <2>5. number = Max(all) + 1 BY DEF NextNumber
  <2>6. Max(all) \in all /\ \A y \in all : y <= Max(all)
    <3> HIDE DEF all
    <3> QED BY <2>1, <2>4, MaxOfNumbers
  <2>7. Max(all) \in Nat BY <2>1, <2>6
  <2> HIDE DEF number
  <2>8. number \in Nat BY <2>5, <2>7
  <2>9. ASSUME NEW p \in Numbers(plan.steps) \cup Numbers(s.steps) PROVE p < number
    <3>1. p \in all /\ p \in Nat BY <2>1
    <3>2. p <= Max(all) BY <2>6, <3>1
    <3> HIDE DEF all
    <3> QED BY <2>5, <2>7, <3>1, <3>2
  <2> QED BY <2>8, <2>9
<1> HIDE DEF number, after
<1>6. x \in StepType /\ x.number = number /\ x.agent = agent /\ x.deps \subseteq Numbers(plan.steps)
  BY <1>3, <1>4, <1>5 DEF StepType
<1> HIDE DEF x
<1>7. /\ v.steps = Append(s.steps, x) /\ v.gates = s.gates
      /\ v \in [plan : {plan}, steps : Seq(StepType), gates : Seq(GateType)]
  <2>1. Append(s.steps, x) \in Seq(StepType) BY <1>1, <1>6, AppendProperties
  <2> DEFINE longer == Append(s.steps, x)
  <2>2. longer \in Seq(StepType) /\ v = [s EXCEPT !.steps = longer] BY <2>1
  <2> HIDE DEF longer, v
  <2>3. v.steps = longer /\ v.gates = s.gates BY <1>1, <2>2
  <2>4. v \in [plan : {plan}, steps : Seq(StepType), gates : Seq(GateType)] BY <1>1, <2>2
  <2> QED BY <2>3, <2>4 DEF longer
<1>8. ToSet(v.steps) = ToSet(s.steps) \cup {x} BY <1>1, <1>6, <1>7, OnceMore
<1>9. Len(v.steps) = Len(s.steps) + 1 BY <1>1, <1>6, <1>7, AppendProperties
<1> HIDE DEF v
<1>10. Numbers(v.steps) = Numbers(s.steps) \cup {number} BY <1>6, <1>8 DEF Numbers
<1>11. Cardinality(Numbers(v.steps)) = Len(v.steps)
  <2>1. number \notin Numbers(s.steps) BY <1>5
  <2>2. Cardinality(Numbers(s.steps)) = Len(s.steps) BY DEF MadeInv
  <2>3. Cardinality(Numbers(s.steps) \cup {number}) = Cardinality(Numbers(s.steps)) + 1 BY <2>1, <1>4, FS_AddElement
  <2> QED BY <1>9, <1>10, <2>2, <2>3
<1>12. Injects(plan, rules, x) BY <1>5, <1>6 DEF Injects
<1>13. \A y \in ToSet(v.steps) : Injects(plan, rules, y) BY <1>8, <1>12 DEF MadeInv
<1>14. MadeInv(plan, rules, v) BY <1>7, <1>11, <1>13 DEF MadeInv
<1> QED BY <1>2, <1>6, <1>7, <1>8, <1>14 DEF Grows

\* Enforcing a rule keeps what is injected in order, and then the rule is met.
LEMMA EnforceMeets ==
  ASSUME NEW plan, plan.steps \in Seq(StepType), NEW rules, NEW s, MadeInv(plan, rules, s),
         NEW r \in RuleType, r \in ToSet(rules)
  PROVE  /\ MadeInv(plan, rules, Enforce(s, r)) /\ Grows(s, Enforce(s, r))
         /\ Meets(plan, Enforce(s, r), r)
<1> DEFINE v == Enforce(s, r)
<1>1. s \in [plan : {plan}, steps : Seq(StepType), gates : Seq(GateType)] /\ s.plan = plan BY DEF MadeInv
<1>2. r.type \in {"agent", "role", "gate"} /\ r.target \in Names BY DEF RuleType
<1>3. r.target \in STRING BY <1>2, Zenon DEF Names
<1>4. CASE r.type = "agent"
  <2>1. v = RequireAgent(s, r.target) BY <1>4 DEF Enforce
  <2>2. CASE \E x \in ToSet(plan.steps) : x.agent = r.target
    <3>1. v = s BY <1>1, <2>1, <2>2 DEF RequireAgent
    <3> QED BY <1>4, <2>2, <3>1 DEF Meets, StepsOf, Grows
  <2>3. CASE ~\E x \in ToSet(plan.steps) : x.agent = r.target
    <3>1. v = Injected(s, r.target) BY <1>1, <2>1, <2>3 DEF RequireAgent
    <3>2. AskedFor(rules, r.target) BY <1>4 DEF AskedFor
    <3> DEFINE agent == r.target
               u == Injected(s, agent)
    <3>6. agent \in STRING /\ AskedFor(rules, agent) BY <1>3, <3>2
    <3> HIDE DEF agent
    <3>3. /\ MadeInv(plan, rules, u) /\ Grows(s, u)
          /\ \E x \in ToSet(u.steps) : x.agent = agent
      BY <3>6, InjectedMade
    <3> HIDE DEF u
    <3>4. v = u BY <3>1 DEF u, agent
    <3>5. Meets(plan, u, r) BY <1>4, <3>3 DEF Meets, StepsOf, agent
    <3> QED BY <3>3, <3>4, <3>5
  <2> QED BY <2>2, <2>3
<1>5. CASE r.type = "role"
  <2> DEFINE able == {i \in DOMAIN Agents : Agents[i].role = r.target}
             ours == {i \in able : Agents[i].type \in Catalog}
             m == Min(IF ours # {} THEN ours ELSE able)
             There == \E x \in ToSet(plan.steps) \cup ToSet(s.steps) : RoleOf(x.agent) = r.target
  <2>1. v = RequireRole(s, r.target) BY <1>5 DEF Enforce
  <2>2. v = IF able = {} \/ There THEN s ELSE Injected(s, Agents[m].type) BY <1>1, <2>1 DEF RequireRole
  <2>3. DOMAIN Agents \subseteq Nat BY AgentsAssumption, LenProperties
  <2>4. CASE able = {}
    <3>1. v = s BY <2>2, <2>4
    <3>2. ~\E a \in ToSet(Agents) : a.role = r.target BY <2>4 DEF ToSet
    <3> QED BY <1>5, <3>1, <3>2 DEF Meets, StepsOf, Grows
  <2>5. CASE There
    <3>1. v = s BY <2>2, <2>5
    <3> QED BY <1>5, <2>5, <3>1 DEF Meets, StepsOf, Grows
  <2>6. CASE able # {} /\ ~There
    <3>1. v = Injected(s, Agents[m].type) BY <2>2, <2>6
    <3>2. m \in able
      <4>1. (IF ours # {} THEN ours ELSE able) \subseteq able /\ (IF ours # {} THEN ours ELSE able) # {} BY <2>6
      <4>2. able \subseteq Nat BY <2>3
      <4> DEFINE those == IF ours # {} THEN ours ELSE able
      <4>3. those \subseteq able /\ those \subseteq Nat /\ those # {} BY <4>1, <4>2
      <4> HIDE DEF those, able
      <4>4. Min(those) \in those BY <4>3, MinOfNumbers
      <4> QED BY <4>3, <4>4 DEF those
    <3>3. m \in DOMAIN Agents /\ Agents[m].role = r.target BY <3>2
    <3> HIDE DEF m
    <3>4. Known(Agents[m].type) /\ RoleOf(Agents[m].type) = r.target BY <3>3, RoleOfAgent
    <3>5. Agents[m].type \in STRING
      <4>1. Agents \in Seq([type : STRING, role : STRING]) BY AgentsAssumption
      <4>2. m \in 1 .. Len(Agents) BY <3>3, <4>1, LenProperties
      <4>3. Agents[m] \in [type : STRING, role : STRING] BY <4>1, <4>2, ElementOfSeq
      <4> QED BY <4>3
    <3>6. AskedFor(rules, Agents[m].type) BY <3>4 DEF AskedFor
    <3> DEFINE agent == Agents[m].type
               u == Injected(s, agent)
    <3>7. agent \in STRING /\ AskedFor(rules, agent) /\ RoleOf(agent) = r.target BY <3>4, <3>5, <3>6
    <3>8. v = u BY <3>1
    <3> HIDE DEF agent
    <3>9. /\ MadeInv(plan, rules, u) /\ Grows(s, u)
          /\ \E x \in ToSet(u.steps) : x.agent = agent
      BY <3>7, InjectedMade
    <3> HIDE DEF u
    <3>10. Meets(plan, u, r) BY <1>5, <3>7, <3>9 DEF Meets, StepsOf
    <3> QED BY <3>8, <3>9, <3>10
  <2> QED BY <2>4, <2>5, <2>6
<1>6. CASE r.type = "gate"
  <2> DEFINE those == GateSteps(plan, r.target)
             g == [after |-> LastOf(plan.steps, those), required |-> TRUE]
             w == [s EXCEPT !.gates = Append(@, g)]
  <2>1. v = RequireGate(s, r.target) BY <1>6 DEF Enforce
  <2>2. v = IF those = {} THEN s ELSE w BY <1>1, <2>1 DEF RequireGate
  <2>3. CASE those = {}
    <3>1. v = s BY <2>2, <2>3
    <3> QED BY <1>6, <2>3, <3>1 DEF Meets, Grows
  <2>4. CASE those # {}
    <3>1. v = w BY <2>2, <2>4
    <3>2. those \in SUBSET (1 .. Len(plan.steps))
      <4>1. DOMAIN plan.steps = 1 .. Len(plan.steps) BY LenProperties
      <4>2. those \subseteq DOMAIN plan.steps BY Zenon DEF GateSteps
      <4> QED BY <4>1, <4>2
    <3> HIDE DEF those
    <3>3. LastOf(plan.steps, those) \in Nat BY <2>4, <3>2, LastIsThere
    <3>4. g \in GateType /\ g.after = LastOf(plan.steps, those) BY <3>3 DEF GateType
    <3> HIDE DEF g
    <3>5. w \in [plan : {plan}, steps : Seq(StepType), gates : Seq(GateType)] /\ w.steps = s.steps
          /\ w.gates = Append(s.gates, g) /\ s.gates \in Seq(GateType)
      BY <1>1, <3>4
    <3>6. ToSet(w.gates) = ToSet(s.gates) \cup {g} BY <3>4, <3>5, OnceMore
    <3> HIDE DEF w
    <3>7. MadeInv(plan, rules, w) BY <3>5 DEF MadeInv
    <3>8. Meets(plan, w, r) BY <1>6, <3>4, <3>6 DEF Meets, those
    <3> QED BY <3>1, <3>5, <3>6, <3>7, <3>8 DEF Grows
  <2> QED BY <2>3, <2>4
<1> QED BY <1>2, <1>4, <1>5, <1>6

\* A rule that is met stays met while steps and gates are injected.
LEMMA MeetsKept ==
  ASSUME NEW plan, NEW s, NEW v, NEW r, Grows(s, v), Meets(plan, s, r)
  PROVE  Meets(plan, v, r)
<1>1. StepsOf(plan, s) \subseteq StepsOf(plan, v) BY DEF Grows, StepsOf
<1>2. ToSet(s.gates) \subseteq ToSet(v.gates) BY DEF Grows
<1> QED BY <1>1, <1>2 DEF Meets

\* When every rule is enforced, all are met, and what is injected is in order.
LEMMA AllRulesMet ==
  ASSUME NEW plan, plan.steps \in Seq(StepType), NEW rules \in Seq(RuleType)
  PROVE  /\ MadeInv(plan, rules, Enforced(plan, rules))
         /\ \A r \in ToSet(rules) : Meets(plan, Enforced(plan, rules), r)
<1> DEFINE n == Len(rules)
           start == Bare(plan)
<1>1. n \in Nat /\ DOMAIN rules = 1 .. n BY LenProperties
<1>2. PICK g : EnforcedBy(g, plan, rules, n) BY <1>1, EnforcedUnfolds
<1>3. /\ g[0] = start
      /\ \A k \in 1 .. n : g[k] = Enforce(g[k - 1], rules[k])
      /\ Enforced(plan, rules) = g[n]
  BY <1>2 DEF EnforcedBy
<1>4. \A k \in 1 .. n : rules[k] \in RuleType /\ rules[k] \in ToSet(rules)
  <2>1. \A k \in 1 .. n : rules[k] \in RuleType BY ElementOfSeq
  <2> QED BY <1>1, <2>1 DEF ToSet
<1> DEFINE Good(k) == k <= n => MadeInv(plan, rules, g[k]) /\ \A j \in 1 .. k : Meets(plan, g[k], rules[j])
           All == {k \in Nat : Good(k)}
<1>5. Good(0)
  <2>1. start \in [plan : {plan}, steps : Seq(StepType), gates : Seq(GateType)] BY EmptySeq DEF Bare
  <2>2. start.steps = <<>> BY DEF Bare
  <2>3. ToSet(start.steps) = {} BY <2>2 DEF ToSet
  <2>4. Numbers(start.steps) = {} BY <2>3 DEF Numbers
  <2>5. Cardinality(Numbers(start.steps)) = Len(start.steps) BY <2>2, <2>4, FS_EmptySet, EmptySeq
  <2> HIDE DEF start
  <2>6. MadeInv(plan, rules, start) BY <2>1, <2>3, <2>5 DEF MadeInv
  <2> QED BY <1>3, <2>6
<1>6. ASSUME NEW k \in Nat, Good(k) PROVE Good(k + 1)
  <2> SUFFICES ASSUME k + 1 <= n
               PROVE  MadeInv(plan, rules, g[k + 1]) /\ \A j \in 1 .. k + 1 : Meets(plan, g[k + 1], rules[j])
    OBVIOUS
  <2>1. k <= n /\ k + 1 \in 1 .. n /\ (k + 1) - 1 = k BY <1>1
  <2>2. MadeInv(plan, rules, g[k]) /\ \A j \in 1 .. k : Meets(plan, g[k], rules[j]) BY <1>6, <2>1
  <2>3. g[k + 1] = Enforce(g[k], rules[k + 1]) BY <1>3, <2>1
  <2>4. /\ MadeInv(plan, rules, Enforce(g[k], rules[k + 1])) /\ Grows(g[k], Enforce(g[k], rules[k + 1]))
        /\ Meets(plan, Enforce(g[k], rules[k + 1]), rules[k + 1])
    <3> DEFINE s == g[k]
               r == rules[k + 1]
    <3>1. MadeInv(plan, rules, s) /\ r \in RuleType /\ r \in ToSet(rules) BY <1>4, <2>1, <2>2
    <3> HIDE DEF s, r
    <3>2. /\ MadeInv(plan, rules, Enforce(s, r)) /\ Grows(s, Enforce(s, r))
          /\ Meets(plan, Enforce(s, r), r)
      BY <3>1, EnforceMeets
    <3> QED BY <3>2 DEF s, r
  <2>5. \A j \in 1 .. k : Meets(plan, g[k + 1], rules[j]) BY <2>2, <2>3, <2>4, MeetsKept
  <2>6. \A j \in 1 .. k + 1 : j \in 1 .. k \/ j = k + 1 OBVIOUS
  <2> QED BY <2>3, <2>4, <2>5, <2>6
<1>7. \A k \in Nat : Good(k)
  <2> HIDE DEF Good
  <2>1. 0 \in All BY <1>5
  <2>2. \A k \in Nat : k \in All => k + 1 \in All BY <1>6
  <2> HIDE DEF All
  <2>3. \A k \in Nat : k \in All BY <2>1, <2>2, Induction
  <2> QED BY <2>3 DEF All
<1>8. MadeInv(plan, rules, g[n]) /\ \A j \in 1 .. n : Meets(plan, g[n], rules[j]) BY <1>1, <1>7
<1>9. \A r \in ToSet(rules) : \E j \in 1 .. n : r = rules[j] BY <1>1 DEF ToSet
<1> QED BY <1>3, <1>8, <1>9

\* Of each gate that is to be added there is one after the same step.
LEMMA GatesAdded ==
  ASSUME NEW S, NEW gates, NEW new \in Seq(S)
  PROVE  \A g \in ToSet(new) : \E h \in WithGates(gates, new) : h.after = g.after
<1> DEFINE n == Len(new)
<1>1. n \in Nat /\ DOMAIN new = 1 .. n BY LenProperties
<1>2. PICK f : GatesBy(f, gates, new, n) BY <1>1, GatesUnfold
<1>3. (\A k \in 1 .. n : f[k] = AddGate(f[k - 1], new[k])) /\ WithGates(gates, new) = f[n] BY <1>2 DEF GatesBy
<1> DEFINE Good(k) == k <= n => \A j \in 1 .. k : \E h \in f[k] : h.after = new[j].after
           All == {k \in Nat : Good(k)}
<1>4. Good(0) OBVIOUS
<1>5. ASSUME NEW k \in Nat, Good(k) PROVE Good(k + 1)
  <2> SUFFICES ASSUME k + 1 <= n PROVE \A j \in 1 .. k + 1 : \E h \in f[k + 1] : h.after = new[j].after
    OBVIOUS
  <2>1. k <= n /\ k + 1 \in 1 .. n /\ (k + 1) - 1 = k BY <1>1
  <2>2. f[k + 1] = AddGate(f[k], new[k + 1]) BY <1>3, <2>1
  <2>3. f[k] \subseteq f[k + 1] /\ \E h \in f[k + 1] : h.after = new[k + 1].after BY <2>2 DEF AddGate
  <2>4. \A j \in 1 .. k : \E h \in f[k + 1] : h.after = new[j].after BY <1>5, <2>1, <2>3
  <2>5. \A j \in 1 .. k + 1 : j \in 1 .. k \/ j = k + 1 OBVIOUS
  <2> QED BY <2>3, <2>4, <2>5
<1>6. \A k \in Nat : Good(k)
  <2> HIDE DEF Good
  <2>1. 0 \in All BY <1>4
  <2>2. \A k \in Nat : k \in All => k + 1 \in All BY <1>5
  <2> HIDE DEF All
  <2>3. \A k \in Nat : k \in All BY <2>1, <2>2, Induction
  <2> QED BY <2>3 DEF All
<1>7. \A j \in 1 .. n : \E h \in f[n] : h.after = new[j].after BY <1>1, <1>6
<1>8. \A g \in ToSet(new) : \E j \in 1 .. n : g = new[j] BY <1>1 DEF ToSet
<1> QED BY <1>3, <1>7, <1>8

\* The steps that are checked: the plan's and what was injected
Checked(plan, s) == IF s.steps = <<>> THEN plan.steps ELSE InsertSteps(plan.steps, s.steps)
\* They are those, each once.
LEMMA CheckedThere ==
  ASSUME NEW plan, plan.steps \in Seq(StepType), NEW rules, NEW s, MadeInv(plan, rules, s)
  PROVE  /\ Checked(plan, s) \in Seq(StepType)
         /\ ToSet(Checked(plan, s)) = StepsOf(plan, s)
         /\ Len(Checked(plan, s)) = Len(plan.steps) + Len(s.steps)
<1>1. s.steps \in Seq(StepType) BY DEF MadeInv
<1>2. CASE s.steps = <<>>
  <2>1. Checked(plan, s) = plan.steps BY <1>2 DEF Checked
  <2>2. Len(s.steps) = 0 BY <1>2, EmptySeq
  <2>3. ToSet(s.steps) = {} BY <1>2 DEF ToSet
  <2>4. Len(plan.steps) \in Nat BY LenProperties
  <2> QED BY <2>1, <2>2, <2>3, <2>4 DEF StepsOf
<1>3. CASE s.steps # <<>>
  <2>1. Checked(plan, s) = InsertSteps(plan.steps, s.steps) BY <1>3 DEF Checked
  <2> QED BY <1>1, <2>1, InsertedThere DEF StepsOf
<1> QED BY <1>2, <1>3

\* What the validator makes of a plan
LEMMA Validated ==
  ASSUME NEW plan, NEW rules
  PROVE  LET s == Enforced(plan, rules)
             v == Validate(plan, rules)
         IN  /\ v.steps = Remap(Checked(plan, s)) /\ v.gates = WithGates(plan.gates, s.gates)
             /\ v.accepted <=> Coherent(v.steps)
<1> DEFINE s == Enforced(plan, rules)
           steps == Remap(Checked(plan, s))
<1>1. Validate(plan, rules) = [accepted |-> Coherent(steps), steps |-> steps, gates |-> WithGates(plan.gates, s.gates)]
  BY DEF Validate, Checked
<1> DEFINE ok == Coherent(steps)
           gates == WithGates(plan.gates, s.gates)
<1>2. Validate(plan, rules) = [accepted |-> ok, steps |-> steps, gates |-> gates] BY <1>1
<1>3. ok <=> Coherent(steps) OBVIOUS
<1> HIDE DEF steps, s, ok, gates
<1>4. Validate(plan, rules).steps = steps /\ Validate(plan, rules).gates = gates BY <1>2
<1>5. Validate(plan, rules).accepted = ok BY <1>2
<1> QED BY <1>3, <1>4, <1>5 DEF steps, s, gates

\* Unless a planner's agent or a rule's is nobody, every step stays.
LEMMA EveryStepStays ==
  ASSUME NEW plan, plan.steps \in Seq(StepType), NEW rules, NEW s, MadeInv(plan, rules, s), ~Drops(plan, rules)
  PROVE  \A x \in ToSet(Checked(plan, s)) : Resolves(x.agent)
<1> TAKE x \in ToSet(Checked(plan, s))
<1>1. x \in ToSet(plan.steps) \/ x \in ToSet(s.steps) BY CheckedThere DEF StepsOf
<1>2. CASE x \in ToSet(plan.steps) BY <1>2 DEF Drops
<1>3. CASE x \in ToSet(s.steps)
  <2>1. AskedFor(rules, x.agent) BY <1>3 DEF MadeInv, Injects
  <2>2. CASE Known(x.agent) BY <2>2, Zenon DEF Resolves
  <2>3. CASE ~Known(x.agent) BY <2>1, <2>3 DEF AskedFor, Drops
  <2> QED BY <2>2, <2>3
<1> QED BY <1>1, <1>2, <1>3

\* Of the numbers that a plan with injected steps has
LEMMA NumbersOfBoth ==
  ASSUME NEW plan, plan.steps \in Seq(StepType), NEW rules, NEW s, MadeInv(plan, rules, s)
  PROVE  /\ Numbers(Checked(plan, s)) = Numbers(plan.steps) \cup Numbers(s.steps)
         /\ Cardinality(Numbers(plan.steps)) = Len(plan.steps)
              => Cardinality(Numbers(Checked(plan, s))) = Len(Checked(plan, s))
<1>1. s.steps \in Seq(StepType) /\ Cardinality(Numbers(s.steps)) = Len(s.steps) BY DEF MadeInv
<1>2. /\ IsFiniteSet(Numbers(plan.steps)) /\ Numbers(plan.steps) \subseteq Nat
      /\ IsFiniteSet(Numbers(s.steps)) /\ Numbers(s.steps) \subseteq Nat
  BY <1>1, NumbersCounted
<1>3. Numbers(Checked(plan, s)) = Numbers(plan.steps) \cup Numbers(s.steps) BY CheckedThere DEF Numbers, StepsOf
<1>4. Numbers(plan.steps) \cap Numbers(s.steps) = {}
  <2>1. \A p \in Numbers(plan.steps) : \A x \in ToSet(s.steps) : p < x.number BY DEF MadeInv, Injects
  <2>2. \A q \in Numbers(s.steps) : \A p \in Numbers(plan.steps) : p < q BY <2>1 DEF Numbers
  <2> QED BY <1>2, <2>2
<1>5. Cardinality(Numbers(plan.steps) \cup Numbers(s.steps)) = Cardinality(Numbers(plan.steps)) + Cardinality(Numbers(s.steps))
  <2>1. Cardinality(Numbers(plan.steps) \cap Numbers(s.steps)) = 0 BY <1>4, FS_EmptySet
  <2>2. Cardinality(Numbers(plan.steps)) \in Nat /\ Cardinality(Numbers(s.steps)) \in Nat BY <1>2, FS_CardinalityType
  <2>3. Cardinality(Numbers(plan.steps) \cup Numbers(s.steps))
          = Cardinality(Numbers(plan.steps)) + Cardinality(Numbers(s.steps))
              - Cardinality(Numbers(plan.steps) \cap Numbers(s.steps))
    BY <1>2, FS_Union
  <2> QED BY <2>1, <2>2, <2>3
<1>6. Len(Checked(plan, s)) = Len(plan.steps) + Len(s.steps) BY CheckedThere
<1> QED BY <1>1, <1>3, <1>5, <1>6

\* What the executor needs of an accepted plan is so.
LEMMA AcceptedSound ==
  ASSUME NEW plan, plan.steps \in Seq(StepType), NEW rules \in Seq(RuleType)
  PROVE  AcceptedPlanSound(plan, rules, Validate(plan, rules))
<1> DEFINE s == Enforced(plan, rules)
           t == Checked(plan, s)
           v == Validate(plan, rules)
<1>1. MadeInv(plan, rules, s) BY AllRulesMet
<1>2. v.steps = Remap(t) /\ (v.accepted <=> Coherent(v.steps)) BY Validated
<1> HIDE DEF s, t, v
<1>3. t \in Seq(StepType) /\ ToSet(t) = ToSet(plan.steps) \cup ToSet(s.steps) BY <1>1, CheckedThere DEF t, StepsOf
<1>4. \A x \in ToSet(t) : x \in StepType
  <2>1. DOMAIN t = 1 .. Len(t) BY <1>3, LenProperties
  <2>2. \A i \in 1 .. Len(t) : t[i] \in StepType BY <1>3, ElementOfSeq
  <2> QED BY <2>1, <2>2 DEF ToSet
<1>5. SUFFICES ASSUME v.accepted, ~Drops(plan, rules)
               PROVE  /\ Ordered(plan.steps) => Ordered(v.steps)
                      /\ \A x \in ToSet(plan.steps) : \E y \in ToSet(v.steps) : y.number = x.number /\ y.deps = x.deps
  BY <1>2 DEF AcceptedPlanSound, Coherent, v
<1>6. /\ \A x \in ToSet(t) : Renamed(x) \in ToSet(v.steps)
      /\ \A y \in ToSet(v.steps) : \E x \in ToSet(t) : y = Renamed(x)
  <2>1. \A x \in ToSet(t) : Resolves(x.agent) BY <1>1, <1>5, EveryStepStays DEF t
  <2> QED BY <1>2, <1>3, <2>1, AllStay
<1>7. \A x \in ToSet(t) : Renamed(x).number = x.number /\ Renamed(x).deps = x.deps BY <1>4, RenamedOnly
<1>8. ASSUME NEW x \in ToSet(plan.steps) PROVE \E y \in ToSet(v.steps) : y.number = x.number /\ y.deps = x.deps
  <2>1. x \in ToSet(t) BY <1>3
  <2> QED BY <1>6, <1>7, <2>1
<1>9. ASSUME Ordered(plan.steps) PROVE Ordered(v.steps)
  <2>1. ASSUME NEW x \in ToSet(t), NEW d \in x.deps PROVE d < x.number
    <3>1. CASE x \in ToSet(plan.steps) BY <1>9, <2>1, <3>1 DEF Ordered
    <3>2. CASE x \in ToSet(s.steps) BY <1>1, <2>1, <3>2 DEF MadeInv, Injects
    <3> QED BY <1>3, <3>1, <3>2
  <2>2. ASSUME NEW y \in ToSet(v.steps), NEW d \in y.deps PROVE d < y.number
    <3>1. PICK x \in ToSet(t) : y = Renamed(x) BY <1>6
    <3>2. y.number = x.number /\ y.deps = x.deps BY <1>7, <3>1
    <3> QED BY <2>1, <2>2, <3>2
  <2> QED BY <2>2 DEF Ordered
<1> QED BY <1>8, <1>9

\* Nothing the rules inject makes a coherent plan refused.
LEMMA SoundAccepted ==
  ASSUME NEW plan, plan.steps \in Seq(StepType), NEW rules \in Seq(RuleType)
  PROVE  SoundPlanAccepted(plan, rules, Validate(plan, rules))
<1> DEFINE s == Enforced(plan, rules)
           t == Checked(plan, s)
           v == Validate(plan, rules)
<1>1. MadeInv(plan, rules, s) BY AllRulesMet
<1>2. v.steps = Remap(t) /\ (v.accepted <=> Coherent(v.steps)) BY Validated
<1> HIDE DEF s, t, v
<1>3. t \in Seq(StepType) /\ ToSet(t) = ToSet(plan.steps) \cup ToSet(s.steps) BY <1>1, CheckedThere DEF t, StepsOf
<1>4. \A x \in ToSet(t) : x \in StepType
  <2>1. DOMAIN t = 1 .. Len(t) BY <1>3, LenProperties
  <2>2. \A i \in 1 .. Len(t) : t[i] \in StepType BY <1>3, ElementOfSeq
  <2> QED BY <2>1, <2>2 DEF ToSet
<1>5. SUFFICES ASSUME Coherent(plan.steps), ~Drops(plan, rules) PROVE Coherent(v.steps)
  BY <1>2 DEF SoundPlanAccepted, v
<1>6. /\ Len(v.steps) = Len(t) /\ Numbers(v.steps) = Numbers(t)
      /\ \A y \in ToSet(v.steps) : \E x \in ToSet(t) : y = Renamed(x)
  <2>1. \A x \in ToSet(t) : Resolves(x.agent) BY <1>1, <1>5, EveryStepStays DEF t
  <2> QED BY <1>2, <1>3, <2>1, AllStay
<1>7. Numbers(t) = Numbers(plan.steps) \cup Numbers(s.steps) /\ Cardinality(Numbers(t)) = Len(t)
  BY <1>1, <1>5, NumbersOfBoth DEF t, Coherent
<1>8. ASSUME NEW y \in ToSet(v.steps) PROVE y.deps \subseteq Numbers(v.steps)
  <2>1. PICK x \in ToSet(t) : y = Renamed(x) BY <1>6
  <2>2. y.deps = x.deps BY <1>4, <2>1, RenamedOnly
  <2>3. x.deps \subseteq Numbers(plan.steps)
    <3>1. CASE x \in ToSet(plan.steps) BY <1>5, <3>1 DEF Coherent
    <3>2. CASE x \in ToSet(s.steps) BY <1>1, <3>2 DEF MadeInv, Injects
    <3> QED BY <1>3, <3>1, <3>2
  <2> QED BY <1>6, <1>7, <2>2, <2>3
<1> QED BY <1>6, <1>7, <1>8 DEF Coherent

\* What the rules ask for is in an accepted plan of known agents.
LEMMA RulesAreKept ==
  ASSUME NEW plan, plan.steps \in Seq(StepType), NEW rules \in Seq(RuleType)
  PROVE  RulesHold(plan, rules, Validate(plan, rules))
<1> DEFINE s == Enforced(plan, rules)
           t == Checked(plan, s)
           v == Validate(plan, rules)
<1>1. MadeInv(plan, rules, s) /\ \A r \in ToSet(rules) : Meets(plan, s, r) BY AllRulesMet
<1>2. v.steps = Remap(t) /\ v.gates = WithGates(plan.gates, s.gates) BY Validated
<1> HIDE DEF s, t, v
<1>3. t \in Seq(StepType) /\ ToSet(t) = StepsOf(plan, s) BY <1>1, CheckedThere DEF t
<1>4. \A r \in ToSet(rules) : r \in RuleType
  <2>1. DOMAIN rules = 1 .. Len(rules) BY LenProperties
  <2>2. \A i \in 1 .. Len(rules) : rules[i] \in RuleType BY ElementOfSeq
  <2> QED BY <2>1, <2>2 DEF ToSet
<1>5. ASSUME NEW r \in ToSet(rules), r.type = "agent", Known(r.target) PROVE \E y \in ToSet(v.steps) : y.agent = r.target
  <2>1. PICK x \in StepsOf(plan, s) : x.agent = r.target BY <1>1, <1>5 DEF Meets
  <2>2. x \in ToSet(t) /\ Known(x.agent) BY <1>3, <1>5, <2>1
  <2> QED BY <1>2, <1>3, <2>1, <2>2, KnownStay
<1>6. ASSUME NEW r \in ToSet(rules), r.type = "role", \E a \in ToSet(Agents) : a.role = r.target
      PROVE  \E y \in ToSet(v.steps) : RoleOf(y.agent) = r.target
  <2>1. PICK x \in StepsOf(plan, s) : RoleOf(x.agent) = r.target BY <1>1, <1>6 DEF Meets
  <2>2. r.target \in Names BY <1>4 DEF RuleType
  <2>3. x \in ToSet(t) /\ Known(x.agent) BY <1>3, <2>1, <2>2, RoleKnown
  <2>4. PICK y \in ToSet(v.steps) : y.agent = x.agent BY <1>2, <1>3, <2>3, KnownStay
  <2> QED BY <2>1, <2>4
<1>7. ASSUME NEW r \in ToSet(rules), r.type = "gate", NEW own, own = {x \in ToSet(plan.steps) : x.agent = r.target},
             own # {}, \A i \in DOMAIN plan.steps : plan.steps[i].number = i
      PROVE  \E g \in v.gates : g.after = Max({x.number : x \in own})
  <2> DEFINE n == Len(plan.steps)
             those == {i \in 1 .. n : plan.steps[i].agent = r.target}
  <2>1. n \in Nat /\ DOMAIN plan.steps = 1 .. n BY LenProperties
  <2>2. {x.number : x \in own} = those
    <3>1. ASSUME NEW x \in own PROVE x.number \in those
      <4>1. PICK i \in 1 .. n : x = plan.steps[i] BY <1>7, <2>1 DEF ToSet
      <4> QED BY <1>7, <2>1, <4>1
    <3>2. ASSUME NEW i \in those PROVE i \in {x.number : x \in own}
      <4>1. plan.steps[i] \in own /\ plan.steps[i].number = i BY <1>7, <2>1 DEF ToSet
      <4> QED BY <4>1
    <3> QED BY <3>1, <3>2
  <2>3. those # {} BY <1>7, <2>2
  <2>4. those = {i \in DOMAIN plan.steps : plan.steps[i].agent = r.target} BY <2>1
  <2>5. GateSteps(plan, r.target) = those BY <2>3, <2>4, Zenon DEF GateSteps
  <2>6. those \in SUBSET (1 .. n) OBVIOUS
  <2> HIDE DEF those, n
  <2>7. LastOf(plan.steps, those) = plan.steps[Max(those)].number /\ Max(those) \in those BY <2>3, <2>6, LastIsThere DEF n
  <2>8. LastOf(plan.steps, those) = Max(those) BY <1>7, <2>1, <2>6, <2>7
  <2>9. PICK g \in ToSet(s.gates) : g.after = LastOf(plan.steps, those) BY <1>1, <1>7, <2>3, <2>5 DEF Meets
  <2>10. s.gates \in Seq(GateType) BY <1>1 DEF MadeInv
  <2>11. \E h \in WithGates(plan.gates, s.gates) : h.after = g.after BY <2>9, <2>10, GatesAdded
  <2> QED BY <1>2, <2>2, <2>8, <2>9, <2>11
<1>8. SUFFICES ASSUME NEW r \in ToSet(rules)
      PROVE  CASE r.type = "agent" -> Known(r.target) => \E x \in ToSet(v.steps) : x.agent = r.target
               [] r.type = "role"  -> (\E a \in ToSet(Agents) : a.role = r.target)
                                        => \E x \in ToSet(v.steps) : RoleOf(x.agent) = r.target
               [] r.type = "gate"  ->
                    LET own == {x \in ToSet(plan.steps) : x.agent = r.target}
                    IN  own # {} /\ (\A i \in DOMAIN plan.steps : plan.steps[i].number = i)
                          => \E g \in v.gates : g.after = Max({x.number : x \in own})
  BY DEF RulesHold, v
<1>9. r.type \in {"agent", "role", "gate"} BY <1>4 DEF RuleType
<1>10. CASE r.type = "agent" BY <1>5, <1>10
<1>11. CASE r.type = "role" BY <1>6, <1>11
<1>12. CASE r.type = "gate" BY <1>7, <1>12
<1> QED BY <1>9, <1>10, <1>11, <1>12

\* PlansSound: the plan that the executor gets is one it can execute, no coherent
\* plan is refused for what the rules inject, and what they ask for is in it.
THEOREM PlansHold == Spec => []PlansSound
<1>1. DecisionInv => PlansSound
  <2> SUFFICES ASSUME DecisionInv, Decided("plan") PROVE PlansSound BY DEF PlansSound
  <2>1. verdict # <<>> /\ subject.about = "plan" BY DEF Decided
  <2>2. subject.plan \in Plans /\ subject.rules \in RuleLists BY <2>1, InputKinds DEF DecisionInv
  <2>3. subject.plan.steps \in Seq(StepType) /\ subject.rules \in Seq(RuleType) BY <2>2, PlansAssumption
  <2>4. verdict[1] = Validate(subject.plan, subject.rules) BY <2>1 DEF DecisionInv, Reported
  <2> DEFINE plan == subject.plan
             rules == subject.rules
  <2> HIDE DEF plan, rules
  <2>5. AcceptedPlanSound(plan, rules, Validate(plan, rules)) /\ SoundPlanAccepted(plan, rules, Validate(plan, rules))
        /\ RulesHold(plan, rules, Validate(plan, rules))
    BY <2>3, AcceptedSound, SoundAccepted, RulesAreKept DEF plan, rules
  <2> QED BY <2>4, <2>5 DEF PlansSound, plan, rules
<1> QED BY <1>1, DecisionInvHolds, PTL

-----------------------------------------------------------------------------
\* What is launched: names, files and owners.

\* The size of a text, piece by piece.
SizeBy(g, text, n) ==
  /\ g[0] = 0
  /\ \A k \in 1 .. n : g[k] = g[k - 1] + text[k].size
  /\ SizeOf(text) = g[n]
\* The size of a text, by the size of its prefixes.
LEMMA SizeUnfolds ==
  ASSUME NEW text, NEW n \in Nat, DOMAIN text = 1 .. n
  PROVE  \E g : SizeBy(g, text, n)
<1> DEFINE Op(n0, w) == n0 + w.size
           Is(g, k) == g = [T \in SUBSET (1 .. k) |-> IF T = {} THEN 0 ELSE Op(g[T \ {Max(T)}], text[Max(T)])]
           All == {k \in Nat : \E g : Is(g, k)}
<1>1. 0 \in All
  <2> DEFINE g0 == [T \in SUBSET (1 .. 0) |-> 0]
  <2>1. \A T \in SUBSET (1 .. 0) : T = {} OBVIOUS
  <2>2. Is(g0, 0) BY <2>1
  <2> QED BY <2>2
<1>2. ASSUME NEW k \in Nat, k \in All PROVE k + 1 \in All
  <2>1. PICK g : Is(g, k) BY <1>2
  <2> DEFINE h == [T \in SUBSET (1 .. k + 1) |-> IF k + 1 \in T THEN Op(g[T \ {k + 1}], text[k + 1]) ELSE g[T]]
  <2> HIDE DEF Op
  <2>2. ASSUME NEW T \in SUBSET (1 .. k + 1)
        PROVE  h[T] = IF T = {} THEN 0 ELSE Op(h[T \ {Max(T)}], text[Max(T)])
    <3>1. CASE k + 1 \in T
      <4>1. Max(T) = k + 1 BY <3>1, MaxOfPrefix
      <4>2. T \ {k + 1} \in SUBSET (1 .. k + 1) /\ k + 1 \notin T \ {k + 1} OBVIOUS
      <4>3. h[T \ {k + 1}] = g[T \ {k + 1}] BY <4>2
      <4> QED BY <3>1, <4>1, <4>3
    <3>2. CASE k + 1 \notin T
      <4>1. T \in SUBSET (1 .. k) BY <3>2
      <4>2. h[T] = g[T] BY <3>2
      <4>3. g[T] = IF T = {} THEN 0 ELSE Op(g[T \ {Max(T)}], text[Max(T)]) BY <2>1, <4>1
      <4>4. T \ {Max(T)} \in SUBSET (1 .. k + 1) /\ k + 1 \notin T \ {Max(T)} BY <3>2
      <4>5. h[T \ {Max(T)}] = g[T \ {Max(T)}] BY <4>4
      <4> QED BY <4>2, <4>3, <4>5
    <3> QED BY <3>1, <3>2
  <2>3. Is(h, k + 1) BY <2>2
  <2>4. \E x : Is(x, k + 1) BY <2>3
  <2> HIDE DEF Is
  <2> QED BY <2>4
<1>3. n \in All
  <2> HIDE DEF All
  <2> QED BY <1>1, <1>2, Induction
<1>4. PICK f : Is(f, n) BY <1>3, Zenon
<1>5. SizeOf(text) = (CHOOSE g : Is(g, n))[1 .. n]
  BY DEF SizeOf, FoldLeft, MapThenFoldSet
<1> DEFINE c == CHOOSE g : Is(g, n)
<1>6. Is(c, n) BY <1>4, Zenon
<1> HIDE DEF c, Op
<1> DEFINE e == [k \in 0 .. n |-> c[1 .. k]]
<1>7. e[0] = 0
  <2>1. 1 .. 0 = {} /\ {} \in SUBSET (1 .. n) OBVIOUS
  <2> QED BY <1>6, <2>1
<1>8. ASSUME NEW k \in 1 .. n PROVE e[k] = Op(e[k - 1], text[k])
  <2>1. 1 .. k \in SUBSET (1 .. n) /\ 1 .. k # {} /\ (1 .. k) \ {k} = 1 .. (k - 1) OBVIOUS
  <2>2. Max(1 .. k) = k
    <3>1. k - 1 \in Nat /\ 1 .. k \in SUBSET (1 .. (k - 1) + 1) /\ (k - 1) + 1 \in 1 .. k /\ (k - 1) + 1 = k OBVIOUS
    <3> QED BY <3>1, MaxOfPrefix
  <2>3. c[1 .. k] = Op(c[1 .. (k - 1)], text[k]) BY <1>6, <2>1, <2>2
  <2> QED BY <2>3
<1>9. SizeOf(text) = e[n] BY <1>5 DEF c
<1> HIDE DEF e
<1> QED BY <1>7, <1>8, <1>9 DEF Op, SizeBy

\* A name keeps its pieces one after the other.
KeptBy(g, text, room, n) ==
  /\ g[0] = <<>>
  /\ \A k \in 1 .. n : g[k] = KeepsPiece(g[k - 1], text[k], room)
  /\ Kept(text, room) = g[n]
\* The pieces of a text that are kept, by those of its prefixes.
LEMMA KeptUnfolds ==
  ASSUME NEW text, NEW room, NEW n \in Nat, DOMAIN text = 1 .. n
  PROVE  \E g : KeptBy(g, text, room, n)
<1> DEFINE Op(kept, w) == KeepsPiece(kept, w, room)
           Is(g, k) == g = [T \in SUBSET (1 .. k) |-> IF T = {} THEN <<>> ELSE Op(g[T \ {Max(T)}], text[Max(T)])]
           All == {k \in Nat : \E g : Is(g, k)}
<1>1. 0 \in All
  <2> DEFINE g0 == [T \in SUBSET (1 .. 0) |-> <<>>]
  <2>1. \A T \in SUBSET (1 .. 0) : T = {} OBVIOUS
  <2>2. Is(g0, 0) BY <2>1
  <2> QED BY <2>2
<1>2. ASSUME NEW k \in Nat, k \in All PROVE k + 1 \in All
  <2>1. PICK g : Is(g, k) BY <1>2
  <2> DEFINE h == [T \in SUBSET (1 .. k + 1) |-> IF k + 1 \in T THEN Op(g[T \ {k + 1}], text[k + 1]) ELSE g[T]]
  <2> HIDE DEF Op
  <2>2. ASSUME NEW T \in SUBSET (1 .. k + 1)
        PROVE  h[T] = IF T = {} THEN <<>> ELSE Op(h[T \ {Max(T)}], text[Max(T)])
    <3>1. CASE k + 1 \in T
      <4>1. Max(T) = k + 1 BY <3>1, MaxOfPrefix
      <4>2. T \ {k + 1} \in SUBSET (1 .. k + 1) /\ k + 1 \notin T \ {k + 1} OBVIOUS
      <4>3. h[T \ {k + 1}] = g[T \ {k + 1}] BY <4>2
      <4> QED BY <3>1, <4>1, <4>3
    <3>2. CASE k + 1 \notin T
      <4>1. T \in SUBSET (1 .. k) BY <3>2
      <4>2. h[T] = g[T] BY <3>2
      <4>3. g[T] = IF T = {} THEN <<>> ELSE Op(g[T \ {Max(T)}], text[Max(T)]) BY <2>1, <4>1
      <4>4. T \ {Max(T)} \in SUBSET (1 .. k + 1) /\ k + 1 \notin T \ {Max(T)} BY <3>2
      <4>5. h[T \ {Max(T)}] = g[T \ {Max(T)}] BY <4>4
      <4> QED BY <4>2, <4>3, <4>5
    <3> QED BY <3>1, <3>2
  <2>3. Is(h, k + 1) BY <2>2
  <2>4. \E x : Is(x, k + 1) BY <2>3
  <2> HIDE DEF Is
  <2> QED BY <2>4
<1>3. n \in All
  <2> HIDE DEF All
  <2> QED BY <1>1, <1>2, Induction
<1>4. PICK f : Is(f, n) BY <1>3, Zenon
<1>5. Kept(text, room) = (CHOOSE g : Is(g, n))[1 .. n]
  BY DEF Kept, FoldLeft, MapThenFoldSet
<1> DEFINE c == CHOOSE g : Is(g, n)
<1>6. Is(c, n) BY <1>4, Zenon
<1> HIDE DEF c, Op
<1> DEFINE e == [k \in 0 .. n |-> c[1 .. k]]
<1>7. e[0] = <<>>
  <2>1. 1 .. 0 = {} /\ {} \in SUBSET (1 .. n) OBVIOUS
  <2> QED BY <1>6, <2>1
<1>8. ASSUME NEW k \in 1 .. n PROVE e[k] = Op(e[k - 1], text[k])
  <2>1. 1 .. k \in SUBSET (1 .. n) /\ 1 .. k # {} /\ (1 .. k) \ {k} = 1 .. (k - 1) OBVIOUS
  <2>2. Max(1 .. k) = k
    <3>1. k - 1 \in Nat /\ 1 .. k \in SUBSET (1 .. (k - 1) + 1) /\ (k - 1) + 1 \in 1 .. k /\ (k - 1) + 1 = k OBVIOUS
    <3> QED BY <3>1, MaxOfPrefix
  <2>3. c[1 .. k] = Op(c[1 .. (k - 1)], text[k]) BY <1>6, <2>1, <2>2
  <2> QED BY <2>3
<1>9. Kept(text, room) = e[n] BY <1>5 DEF c
<1> HIDE DEF e
<1> QED BY <1>7, <1>8, <1>9 DEF Op, KeptBy

\* The attempts to attach a volume, one after the other.
AttachBy(g, owners, uid, others, n) ==
  /\ g[0] = [owners |-> owners, done |-> FALSE]
  /\ \A k \in 1 .. n : g[k] = Attaches(g[k - 1], uid, others[k])
  /\ Attach(owners, uid, others) = g[n]
\* The attempts to attach a volume, by the attempts before.
LEMMA AttachUnfolds ==
  ASSUME NEW owners, NEW uid, NEW others, NEW n \in Nat, DOMAIN others = 1 .. n
  PROVE  \E g : AttachBy(g, owners, uid, others, n)
<1> DEFINE Op(s, other) == Attaches(s, uid, other)
           Is(g, k) == g = [T \in SUBSET (1 .. k) |-> IF T = {} THEN [owners |-> owners, done |-> FALSE]
                                                      ELSE Op(g[T \ {Max(T)}], others[Max(T)])]
           All == {k \in Nat : \E g : Is(g, k)}
<1>1. 0 \in All
  <2> DEFINE g0 == [T \in SUBSET (1 .. 0) |-> [owners |-> owners, done |-> FALSE]]
  <2>1. \A T \in SUBSET (1 .. 0) : T = {} OBVIOUS
  <2>2. Is(g0, 0) BY <2>1
  <2> QED BY <2>2
<1>2. ASSUME NEW k \in Nat, k \in All PROVE k + 1 \in All
  <2>1. PICK g : Is(g, k) BY <1>2
  <2> DEFINE h == [T \in SUBSET (1 .. k + 1) |-> IF k + 1 \in T THEN Op(g[T \ {k + 1}], others[k + 1]) ELSE g[T]]
  <2> HIDE DEF Op
  <2>2. ASSUME NEW T \in SUBSET (1 .. k + 1)
        PROVE  h[T] = IF T = {} THEN [owners |-> owners, done |-> FALSE] ELSE Op(h[T \ {Max(T)}], others[Max(T)])
    <3>1. CASE k + 1 \in T
      <4>1. Max(T) = k + 1 BY <3>1, MaxOfPrefix
      <4>2. T \ {k + 1} \in SUBSET (1 .. k + 1) /\ k + 1 \notin T \ {k + 1} OBVIOUS
      <4>3. h[T \ {k + 1}] = g[T \ {k + 1}] BY <4>2
      <4> QED BY <3>1, <4>1, <4>3
    <3>2. CASE k + 1 \notin T
      <4>1. T \in SUBSET (1 .. k) BY <3>2
      <4>2. h[T] = g[T] BY <3>2
      <4>3. g[T] = IF T = {} THEN [owners |-> owners, done |-> FALSE] ELSE Op(g[T \ {Max(T)}], others[Max(T)]) BY <2>1, <4>1
      <4>4. T \ {Max(T)} \in SUBSET (1 .. k + 1) /\ k + 1 \notin T \ {Max(T)} BY <3>2
      <4>5. h[T \ {Max(T)}] = g[T \ {Max(T)}] BY <4>4
      <4> QED BY <4>2, <4>3, <4>5
    <3> QED BY <3>1, <3>2
  <2>3. Is(h, k + 1) BY <2>2
  <2>4. \E x : Is(x, k + 1) BY <2>3
  <2> HIDE DEF Is
  <2> QED BY <2>4
<1>3. n \in All
  <2> HIDE DEF All
  <2> QED BY <1>1, <1>2, Induction
<1>4. PICK f : Is(f, n) BY <1>3, Zenon
<1>5. Attach(owners, uid, others) = (CHOOSE g : Is(g, n))[1 .. n]
  BY DEF Attach, FoldLeft, MapThenFoldSet
<1> DEFINE c == CHOOSE g : Is(g, n)
<1>6. Is(c, n) BY <1>4, Zenon
<1> HIDE DEF c, Op
<1> DEFINE e == [k \in 0 .. n |-> c[1 .. k]]
<1>7. e[0] = [owners |-> owners, done |-> FALSE]
  <2>1. 1 .. 0 = {} /\ {} \in SUBSET (1 .. n) OBVIOUS
  <2> QED BY <1>6, <2>1
<1>8. ASSUME NEW k \in 1 .. n PROVE e[k] = Op(e[k - 1], others[k])
  <2>1. 1 .. k \in SUBSET (1 .. n) /\ 1 .. k # {} /\ (1 .. k) \ {k} = 1 .. (k - 1) OBVIOUS
  <2>2. Max(1 .. k) = k
    <3>1. k - 1 \in Nat /\ 1 .. k \in SUBSET (1 .. (k - 1) + 1) /\ (k - 1) + 1 \in 1 .. k /\ (k - 1) + 1 = k OBVIOUS
    <3> QED BY <3>1, MaxOfPrefix
  <2>3. c[1 .. k] = Op(c[1 .. (k - 1)], others[k]) BY <1>6, <2>1, <2>2
  <2> QED BY <2>3
<1>9. Attach(owners, uid, others) = e[n] BY <1>5 DEF c
<1> HIDE DEF e
<1> QED BY <1>7, <1>8, <1>9 DEF Op, AttachBy

\* h[k] is the size of the first k pieces of a text.
IsSizes(text, h) ==
  /\ h \in [0 .. Len(text) -> Nat] /\ h[0] = 0 /\ h[Len(text)] = SizeOf(text)
  /\ \A k \in 1 .. Len(text) : h[k] = h[k - 1] + text[k].size
\* The sizes of the beginnings of a text are there, and they are numbers.
LEMMA SizesThere ==
  ASSUME NEW text \in Seq(PieceType)
  PROVE  \E h : IsSizes(text, h)
<1> DEFINE n == Len(text)
<1>1. n \in Nat /\ DOMAIN text = 1 .. n BY LenProperties
<1>2. \A k \in 1 .. n : text[k].size \in Nat
  <2>1. \A k \in 1 .. n : text[k] \in PieceType BY <1>1, ElementOfSeq
  <2> QED BY <2>1 DEF PieceType
<1>3. PICK g : SizeBy(g, text, n) BY <1>1, SizeUnfolds
<1> HIDE DEF n
<1> DEFINE Good(k) == k <= n => g[k] \in Nat
           All == {k \in Nat : Good(k)}
<1>4. \A k \in Nat : k \in All
  <2>1. Good(0) BY <1>3 DEF SizeBy
  <2>2. ASSUME NEW k \in Nat, Good(k) PROVE Good(k + 1)
    <3> SUFFICES ASSUME k + 1 <= n PROVE g[k + 1] \in Nat OBVIOUS
    <3>1. k + 1 \in 1 .. n /\ (k + 1) - 1 = k BY <1>1
    <3>2. g[k + 1] = g[k] + text[k + 1].size BY <1>3, <3>1 DEF SizeBy
    <3> QED BY <1>1, <1>2, <2>2, <3>1, <3>2
  <2> HIDE DEF Good
  <2>3. 0 \in All /\ \A k \in Nat : k \in All => k + 1 \in All BY <2>1, <2>2
  <2> HIDE DEF All
  <2> QED BY <2>3, Induction
<1> DEFINE h == [k \in 0 .. n |-> g[k]]
<1>5. h \in [0 .. n -> Nat]
  <2>1. \A k \in 0 .. n : g[k] \in Nat BY <1>1, <1>4
  <2> QED BY <2>1
<1>6. h[0] = 0 /\ h[n] = SizeOf(text) BY <1>1, <1>3 DEF SizeBy
<1>7. \A k \in 1 .. n : h[k] = h[k - 1] + text[k].size BY <1>1, <1>3 DEF SizeBy
<1> HIDE DEF h
<1>8. IsSizes(text, h) BY <1>5, <1>6, <1>7 DEF IsSizes, n
<1> QED BY <1>8

\* Two texts that are joined are as long as both.
LEMMA SizeOfBoth ==
  ASSUME NEW a \in Seq(PieceType), NEW b \in Seq(PieceType)
  PROVE  /\ a \o b \in Seq(PieceType) /\ SizeOf(a \o b) = SizeOf(a) + SizeOf(b)
         /\ SizeOf(a) \in Nat /\ SizeOf(b) \in Nat
<1> DEFINE c == a \o b
           n == Len(a)
           m == Len(b)
<1>1. /\ n \in Nat /\ m \in Nat /\ c \in Seq(PieceType) /\ Len(c) = n + m
      /\ \A i \in 1 .. n + m : c[i] = IF i <= n THEN a[i] ELSE b[i - n]
  BY LenProperties, ConcatProperties
<1> HIDE DEF c
<1>2. PICK ha : IsSizes(a, ha) BY SizesThere
<1>3. PICK hb : IsSizes(b, hb) BY SizesThere
<1>4. PICK hc : IsSizes(c, hc) BY <1>1, SizesThere
<1>5. /\ ha \in [0 .. n -> Nat] /\ ha[0] = 0 /\ ha[n] = SizeOf(a) /\ \A k \in 1 .. n : ha[k] = ha[k - 1] + a[k].size
      /\ hb \in [0 .. m -> Nat] /\ hb[0] = 0 /\ hb[m] = SizeOf(b) /\ \A k \in 1 .. m : hb[k] = hb[k - 1] + b[k].size
      /\ hc \in [0 .. n + m -> Nat] /\ hc[0] = 0 /\ hc[n + m] = SizeOf(c)
      /\ \A k \in 1 .. n + m : hc[k] = hc[k - 1] + c[k].size
  BY <1>1, <1>2, <1>3, <1>4 DEF IsSizes
<1> HIDE DEF n, m
<1> DEFINE First(k) == k <= n => hc[k] = ha[k]
           Firsts == {k \in Nat : First(k)}
           Second(k) == k <= m => hc[n + k] = ha[n] + hb[k]
           Seconds == {k \in Nat : Second(k)}
<1>6. \A k \in Nat : k \in Firsts
  <2>1. First(0) BY <1>5
  <2>2. ASSUME NEW k \in Nat, First(k) PROVE First(k + 1)
    <3> SUFFICES ASSUME k + 1 <= n PROVE hc[k + 1] = ha[k + 1] OBVIOUS
    <3>1. k + 1 \in 1 .. n /\ k + 1 \in 1 .. n + m /\ (k + 1) - 1 = k /\ k <= n BY <1>1
    <3>2. c[k + 1] = a[k + 1] BY <1>1, <3>1
    <3>3. hc[k + 1] = hc[k] + c[k + 1].size BY <1>5, <3>1
    <3>4. ha[k + 1] = ha[k] + a[k + 1].size BY <1>5, <3>1
    <3>5. hc[k] = ha[k] BY <2>2, <3>1
    <3> QED BY <3>2, <3>3, <3>4, <3>5
  <2> HIDE DEF First
  <2>3. 0 \in Firsts /\ \A k \in Nat : k \in Firsts => k + 1 \in Firsts BY <2>1, <2>2
  <2> HIDE DEF Firsts
  <2> QED BY <2>3, Induction
<1>7. hc[n] = ha[n] BY <1>1, <1>6
<1>8. \A k \in Nat : k \in Seconds
  <2>1. Second(0) BY <1>1, <1>5, <1>7
  <2>2. ASSUME NEW k \in Nat, Second(k) PROVE Second(k + 1)
    <3> SUFFICES ASSUME k + 1 <= m PROVE hc[n + (k + 1)] = ha[n] + hb[k + 1] OBVIOUS
    <3>1. k + 1 \in 1 .. m /\ n + (k + 1) \in 1 .. n + m /\ (n + (k + 1)) - 1 = n + k /\ (k + 1) - 1 = k
          /\ (n + (k + 1)) - n = k + 1 /\ k <= m /\ ~(n + (k + 1) <= n)
      BY <1>1
    <3>2. c[n + (k + 1)] = b[k + 1] BY <1>1, <3>1
    <3>3. hc[n + (k + 1)] = hc[n + k] + b[k + 1].size
      <4> DEFINE j == n + (k + 1)
      <4>1. j \in 1 .. n + m /\ j - 1 = n + k /\ c[j] = b[k + 1] BY <3>1, <3>2
      <4> HIDE DEF j
      <4>2. hc[j] = hc[j - 1] + c[j].size BY <1>5, <4>1
      <4>3. hc[j] = hc[n + k] + b[k + 1].size BY <4>1, <4>2
      <4> QED BY <4>3 DEF j
    <3>4. hb[k + 1] = hb[k] + b[k + 1].size /\ hb[k] \in Nat /\ ha[n] \in Nat
      <4>1. hb[k + 1] = hb[k] + b[k + 1].size BY <1>5, <3>1
      <4>2. k \in 0 .. m /\ n \in 0 .. n BY <1>1, <3>1
      <4> QED BY <1>5, <4>1, <4>2
    <3>5. b[k + 1].size \in Nat
      <4>1. b[k + 1] \in PieceType BY <3>1, ElementOfSeq DEF m
      <4> QED BY <4>1 DEF PieceType
    <3>6. hc[n + k] = ha[n] + hb[k] BY <1>1, <2>2, <3>1
    <3> QED BY <3>3, <3>4, <3>5, <3>6
  <2> HIDE DEF Second
  <2>3. 0 \in Seconds /\ \A k \in Nat : k \in Seconds => k + 1 \in Seconds BY <2>1, <2>2
  <2> HIDE DEF Seconds
  <2> QED BY <2>3, Induction
<1>9. SizeOf(c) = SizeOf(a) + SizeOf(b) BY <1>1, <1>5, <1>8
<1>10. SizeOf(a) \in Nat /\ SizeOf(b) \in Nat BY <1>1, <1>5
<1> QED BY <1>1, <1>9, <1>10 DEF c

\* One piece is a text of its own size.
LEMMA SizeOfOne ==
  ASSUME NEW w \in PieceType
  PROVE  <<w>> \in Seq(PieceType) /\ SizeOf(<<w>>) = w.size
<1> DEFINE t == <<w>>
<1>1. t \in Seq(PieceType) /\ Len(t) = 1 /\ t[1] = w OBVIOUS
<1> HIDE DEF t
<1>2. PICK h : IsSizes(t, h) BY <1>1, SizesThere
<1>3. h[0] = 0 /\ h[1] = h[0] + w.size /\ h[1] = SizeOf(t) BY <1>1, <1>2 DEF IsSizes
<1>4. w.size \in Nat BY DEF PieceType
<1> QED BY <1>1, <1>3, <1>4 DEF t

\* A text that there is room for is kept.
LEMMA AllKept ==
  ASSUME NEW text \in Seq(PieceType), NEW room \in Nat, SizeOf(text) <= room
  PROVE  Kept(text, room) = text
<1> DEFINE n == Len(text)
<1>1. n \in Nat /\ DOMAIN text = 1 .. n BY LenProperties
<1>2. PICK h : IsSizes(text, h) BY SizesThere
<1>3. /\ h \in [0 .. n -> Nat] /\ h[0] = 0 /\ h[n] <= room /\ \A k \in 1 .. n : h[k] = h[k - 1] + text[k].size
  BY <1>2 DEF IsSizes
<1>4. \A k \in 1 .. n : text[k] \in PieceType BY <1>1, ElementOfSeq
<1>5. PICK g : KeptBy(g, text, room, n) BY <1>1, KeptUnfolds
<1> HIDE DEF n
<1> DEFINE Fits(k) == k <= n => h[n - k] <= room
           AllFit == {k \in Nat : Fits(k)}
<1>6. \A k \in Nat : k \in AllFit
  <2>1. Fits(0) BY <1>1, <1>3
  <2>2. ASSUME NEW k \in Nat, Fits(k) PROVE Fits(k + 1)
    <3> SUFFICES ASSUME k + 1 <= n PROVE h[n - (k + 1)] <= room OBVIOUS
    <3>1. n - k \in 1 .. n /\ (n - k) - 1 = n - (k + 1) /\ n - k \in 0 .. n /\ n - (k + 1) \in 0 .. n BY <1>1
    <3>2. h[n - k] = h[n - (k + 1)] + text[n - k].size BY <1>3, <3>1
    <3>3. text[n - k].size \in Nat BY <1>4, <3>1 DEF PieceType
    <3>4. h[n - k] \in Nat /\ h[n - (k + 1)] \in Nat BY <1>3, <3>1
    <3> QED BY <1>1, <2>2, <3>2, <3>3, <3>4
  <2> HIDE DEF Fits
  <2>3. 0 \in AllFit /\ \A k \in Nat : k \in AllFit => k + 1 \in AllFit BY <2>1, <2>2
  <2> HIDE DEF AllFit
  <2> QED BY <2>3, Induction
<1>7. \A k \in 0 .. n : h[k] <= room
  <2> TAKE k \in 0 .. n
  <2>1. n - k \in Nat /\ n - k <= n /\ n - (n - k) = k BY <1>1
  <2>2. Fits(n - k) BY <1>6, <2>1
  <2> QED BY <2>1, <2>2
<1> DEFINE Start(k) == [i \in 1 .. k |-> text[i]]
           Good(k) == k <= n => g[k] = Start(k) /\ SizeOf(Start(k)) = h[k]
           All == {k \in Nat : Good(k)}
<1> HIDE DEF AllFit, Fits
<1>8. \A k \in Nat : k \in All
  <2>1. Good(0)
    <3>1. g[0] = <<>> /\ Start(0) = <<>> BY <1>5 DEF KeptBy
    <3>2. SizeOf(<<>>) = 0
      <4>1. <<>> \in Seq(PieceType) /\ Len(<<>>) = 0 BY EmptySeq
      <4>2. PICK e : IsSizes(<<>>, e) BY <4>1, SizesThere
      <4> QED BY <4>1, <4>2 DEF IsSizes
    <3> QED BY <1>3, <3>1, <3>2
  <2>2. ASSUME NEW k \in Nat, Good(k) PROVE Good(k + 1)
    <3> SUFFICES ASSUME k + 1 <= n PROVE g[k + 1] = Start(k + 1) /\ SizeOf(Start(k + 1)) = h[k + 1] OBVIOUS
    <3>1. k + 1 \in 1 .. n /\ (k + 1) - 1 = k /\ k <= n /\ k + 1 \in 0 .. n /\ k \in 0 .. n BY <1>1
    <3> DEFINE w == text[k + 1]
               t == Start(k)
    <3>2. w \in PieceType BY <1>4, <3>1
    <3>3. t \in Seq(PieceType) /\ Len(t) = k
      <4>1. \A i \in 1 .. k : text[i] \in PieceType BY <1>1, <1>4, <3>1
      <4>2. t \in Seq(PieceType) BY <4>1, IsASeq
      <4> QED BY <4>2
    <3>4. Start(k + 1) = t \o <<w>> /\ Append(t, w) = t \o <<w>>
      <4>1. \A i \in 1 .. k + 1 : Start(k + 1)[i] = IF i <= k THEN t[i] ELSE w OBVIOUS
      <4>2. Start(k + 1) \in Seq(PieceType) /\ Len(Start(k + 1)) = k + 1
        <5>1. \A i \in 1 .. k + 1 : text[i] \in PieceType BY <1>1, <1>4, <3>1
        <5>2. Start(k + 1) \in Seq(PieceType) BY <5>1, IsASeq
        <5> QED BY <5>2
      <4>3. <<w>> \in Seq(PieceType) /\ Len(<<w>>) = 1 /\ <<w>>[1] = w BY <3>2
      <4> DEFINE j == t \o <<w>>
      <4> HIDE DEF t, w, Start
      <4>4. j \in Seq(PieceType) /\ Len(j) = k + 1 /\ \A i \in 1 .. k + 1 : j[i] = IF i <= k THEN t[i] ELSE w
        BY <3>3, <4>3, ConcatProperties
      <4>5. Append(t, w) \in Seq(PieceType) /\ Len(Append(t, w)) = k + 1
            /\ \A i \in 1 .. k + 1 : Append(t, w)[i] = IF i <= k THEN t[i] ELSE w
        BY <3>2, <3>3, AppendProperties
      <4> HIDE DEF j
      <4>6. Start(k + 1) = j BY <4>1, <4>2, <4>4, SeqEqual
      <4>7. Append(t, w) = j BY <4>4, <4>5, SeqEqual
      <4> QED BY <4>6, <4>7 DEF j
    <3> HIDE DEF t, w
    <3>5. SizeOf(t) = h[k] /\ g[k] = t BY <2>2, <3>1 DEF t
    <3>6. h[k + 1] = h[k] + w.size /\ h[k] \in Nat /\ h[k + 1] <= room /\ w.size \in Nat \ {0}
      BY <1>3, <1>7, <3>1, <3>2 DEF w, PieceType
    <3>7. SizeOf(t \o <<w>>) = h[k + 1] BY <3>2, <3>3, <3>5, <3>6, SizeOfBoth, SizeOfOne
    <3>8. g[k + 1] = KeepsPiece(t, w, room) BY <1>5, <3>1, <3>5 DEF KeptBy, w
    <3>9. KeepsPiece(t, w, room) = Append(t, w)
      <4> DEFINE left == room - SizeOf(t)
      <4>1. left > 0 /\ w.size <= left /\ left \in Nat BY <3>5, <3>6
      <4>2. Min({w.size, left}) = w.size
        <5>1. {w.size, left} \subseteq Nat /\ {w.size, left} # {} BY <3>6, <4>1
        <5> HIDE DEF left
        <5>2. Min({w.size, left}) \in {w.size, left} /\ Min({w.size, left}) <= w.size BY <5>1, MinOfNumbers
        <5> QED BY <3>6, <4>1, <5>2
      <4>3. [w EXCEPT !.size = w.size] = w BY <3>2 DEF PieceType
      <4>4. KeepsPiece(t, w, room) = IF left > 0 THEN Append(t, [w EXCEPT !.size = Min({w.size, left})]) ELSE t
        BY DEF KeepsPiece
      <4> HIDE DEF left
      <4> QED BY <4>1, <4>2, <4>3, <4>4
    <3> QED BY <3>4, <3>7, <3>8, <3>9
  <2> HIDE DEF Good
  <2>3. 0 \in All /\ \A k \in Nat : k \in All => k + 1 \in All BY <2>1, <2>2
  <2> HIDE DEF All
  <2> QED BY <2>3, Induction
<1>9. Kept(text, room) = Start(n)
  <2>1. n \in All /\ n <= n BY <1>1, <1>8
  <2>2. g[n] = Start(n) BY <2>1
  <2> QED BY <1>5, <2>2 DEF KeptBy
<1>10. Start(n) = text BY <1>1
<1> QED BY <1>9, <1>10

\* The names made for two runs differ where the runs do, as long as they have room.
LEMMA NamesDiffer ==
  ASSUME NEW run \in Seq(PieceType), NEW other \in Seq(PieceType), NEW prefix \in Seq(PieceType),
         SizeOf(run) = 26, SizeOf(other) = 26, run # other
  PROVE  /\ MakeRunSandboxClaimName(run) # MakeRunSandboxClaimName(other)
         /\ MakeRunWorkspacePvcName(run) # MakeRunWorkspacePvcName(other)
         /\ SizeOf(prefix \o run) <= 51 =>
              MakeRunSandboxTemplateName(run, prefix) # MakeRunSandboxTemplateName(other, prefix)
<1>1. ASSUME NEW a \in Seq(PieceType) PROVE a \o run # a \o other BY <1>1, ConcatSimplifications
<1>2. Kept(run, 60) = run /\ Kept(other, 60) = other BY AllKept
<1>3. MakeRunSandboxClaimName(run) # MakeRunSandboxClaimName(other)
  <2> DEFINE w == Piece("sf", 3)
  <2>1. w \in PieceType
    <3>1. "sf" \in Words BY WordsAssumption
    <3> QED BY <3>1 DEF Piece, PieceType
  <2>2. MakeRunSandboxClaimName(run) = <<w>> \o run /\ MakeRunSandboxClaimName(other) = <<w>> \o other
    BY <1>2 DEF MakeRunSandboxClaimName, MakeK8sJobName
  <2> HIDE DEF w
  <2>3. <<w>> \in Seq(PieceType) BY <2>1
  <2> QED BY <1>1, <2>2, <2>3
<1>4. ASSUME NEW w \in PieceType, NEW r \in Seq(PieceType), w.size + SizeOf(r) <= 63
      PROVE  NormalizeK8sName(r, w) = <<w>> \o r
  <2>1. <<w>> \in Seq(PieceType) /\ SizeOf(<<w>>) = w.size BY SizeOfOne
  <2>2. <<w>> \o r \in Seq(PieceType) /\ SizeOf(<<w>> \o r) = w.size + SizeOf(r) BY <2>1, SizeOfBoth
  <2>3. Kept(<<w>> \o r, 63) = <<w>> \o r BY <1>4, <2>2, AllKept
  <2> QED BY <2>3 DEF NormalizeK8sName
<1>5. MakeRunWorkspacePvcName(run) # MakeRunWorkspacePvcName(other)
  <2> DEFINE w == Piece("sf-run-ws", 10)
  <2>1. w \in PieceType /\ w.size = 10
    <3>1. "sf-run-ws" \in Words BY WordsAssumption
    <3> QED BY <3>1 DEF Piece, PieceType
  <2>2. MakeRunWorkspacePvcName(run) = NormalizeK8sName(run, w) /\ MakeRunWorkspacePvcName(other) = NormalizeK8sName(other, w)
    BY DEF MakeRunWorkspacePvcName
  <2> HIDE DEF w
  <2>3. NormalizeK8sName(run, w) = <<w>> \o run /\ NormalizeK8sName(other, w) = <<w>> \o other BY SMTT(30), <1>4, <2>1
  <2>4. <<w>> \in Seq(PieceType) BY <2>1
  <2> QED BY <1>1, <2>2, <2>3, <2>4
<1>6. ASSUME SizeOf(prefix \o run) <= 51
      PROVE  MakeRunSandboxTemplateName(run, prefix) # MakeRunSandboxTemplateName(other, prefix)
  <2> DEFINE w == Piece("sf-template", 12)
  <2>1. w \in PieceType /\ w.size = 12
    <3>1. "sf-template" \in Words BY WordsAssumption
    <3> QED BY <3>1 DEF Piece, PieceType
  <2>2. /\ MakeRunSandboxTemplateName(run, prefix) = NormalizeK8sName(prefix \o run, w)
        /\ MakeRunSandboxTemplateName(other, prefix) = NormalizeK8sName(prefix \o other, w)
    BY DEF MakeRunSandboxTemplateName
  <2> HIDE DEF w
  <2>3. /\ prefix \o run \in Seq(PieceType) /\ SizeOf(prefix \o run) = SizeOf(prefix) + 26
        /\ prefix \o other \in Seq(PieceType) /\ SizeOf(prefix \o other) = SizeOf(prefix) + 26
        /\ SizeOf(prefix) \in Nat
    BY SizeOfBoth
  <2> DEFINE a == prefix \o run
             b == prefix \o other
  <2>9. /\ a \in Seq(PieceType) /\ w.size + SizeOf(a) <= 63
        /\ b \in Seq(PieceType) /\ w.size + SizeOf(b) <= 63
    BY <1>6, <2>1, <2>3
  <2> HIDE DEF a, b
  <2>4. NormalizeK8sName(a, w) = <<w>> \o a BY <1>4, <2>1, <2>9
  <2>5. NormalizeK8sName(b, w) = <<w>> \o b BY <1>4, <2>1, <2>9
  <2>6. a # b BY <1>1 DEF a, b
  <2>7. <<w>> \in Seq(PieceType) BY <2>1
  <2>8. <<w>> \o a # <<w>> \o b BY <2>6, <2>7, <2>9, ConcatSimplifications
  <2> QED BY <2>2, <2>4, <2>5, <2>8 DEF a, b
<1> QED BY <1>3, <1>5, <1>6

\* What became of a volume after k attempts to attach it.
AttachGood(owners, uid, others, s, k) ==
  /\ s = [owners |-> s.owners, done |-> s.done] /\ s.done \in BOOLEAN
  /\ owners \subseteq s.owners /\ (s.done <=> uid \in s.owners)
  /\ ~s.done <=> \A j \in 1 .. k : others[j] # {}
  /\ \A i \in 1 .. k : (\A j \in 1 .. i : others[j] # {}) => others[i] \subseteq s.owners
\* An attempt keeps the owners there are, and ends with the job among them unless others
\* were in between.
LEMMA AttachesGood ==
  ASSUME NEW owners, NEW uid, NEW others, NEW s, NEW k \in Nat, AttachGood(owners, uid, others, s, k),
         uid \notin others[k + 1]
  PROVE  AttachGood(owners, uid, others, Attaches(s, uid, others[k + 1]), k + 1)
<1> DEFINE o == others[k + 1]
           v == Attaches(s, uid, o)
<1>1. /\ s = [owners |-> s.owners, done |-> s.done] /\ s.done \in BOOLEAN /\ uid \notin o
      /\ owners \subseteq s.owners /\ (s.done <=> uid \in s.owners)
  BY DEF AttachGood
<1>2. 1 .. k \subseteq 1 .. k + 1 /\ k + 1 \in 1 .. k + 1 /\ \A j \in 1 .. k + 1 : j \in 1 .. k \/ j = k + 1
  OBVIOUS
<1>3. \A i \in 1 .. k : (\A j \in 1 .. i : others[j] # {}) => others[i] \subseteq s.owners BY DEF AttachGood
<1>4. ~s.done <=> \A j \in 1 .. k : others[j] # {} BY DEF AttachGood
<1>5. SUFFICES /\ v = [owners |-> v.owners, done |-> v.done] /\ v.done \in BOOLEAN
               /\ s.owners \subseteq v.owners /\ (v.done <=> uid \in v.owners)
               /\ (~v.done <=> ~s.done /\ o # {}) /\ (~s.done => o \subseteq v.owners)
  <2> HIDE DEF v
  <2>1. ASSUME s.owners \subseteq v.owners, ~s.done => o \subseteq v.owners,
               NEW i \in 1 .. k + 1, \A j \in 1 .. i : others[j] # {}
        PROVE  others[i] \subseteq v.owners
    <3>1. CASE i \in 1 .. k BY <1>3, <2>1, <3>1
    <3>2. CASE i = k + 1
      <4>1. ~s.done BY <1>2, <1>4, <2>1, <3>2
      <4> QED BY <2>1, <3>2, <4>1
    <3> QED BY <1>2, <3>1, <3>2
  <2>2. ASSUME ~v.done <=> ~s.done /\ o # {} PROVE ~v.done <=> \A j \in 1 .. k + 1 : others[j] # {}
    BY <1>2, <1>4, <2>2
  <2> QED BY <1>1, <2>1, <2>2 DEF AttachGood, v
<1>6. CASE s.done
  <2>1. v = s BY <1>1, <1>6 DEF Attaches
  <2> HIDE DEF v
  <2> QED BY <1>1, <1>6, <2>1
<1>7. CASE ~s.done
  <2>1. uid \notin s.owners BY <1>1, <1>7
  <2>2. CASE o = {}
    <3>1. v = [owners |-> WithOwner(s.owners, uid), done |-> TRUE] BY <1>7, <2>1, <2>2 DEF Attaches
    <3>2. WithOwner(s.owners, uid) = s.owners \cup {uid} BY <2>1 DEF WithOwner
    <3> HIDE DEF v
    <3> QED BY <1>7, <2>2, <3>1, <3>2
  <2>3. CASE o # {}
    <3>1. v = [s EXCEPT !.owners = s.owners \cup o] BY <1>7, <2>1, <2>3 DEF Attaches
    <3> HIDE DEF v
    <3>2. v.owners = s.owners \cup o /\ v.done = s.done /\ v = [owners |-> v.owners, done |-> v.done] BY <1>1, <3>1
    <3> QED BY <1>1, <1>7, <2>1, <2>3, <3>2
  <2> QED BY <2>2, <2>3
<1> QED BY <1>6, <1>7

\* A volume keeps its owners, and gets its job unless others were in between each time.
LEMMA OwnersTrue ==
  ASSUME NEW s, s \in Owners
  PROVE  OwnerTrue(s, CreateJob(s.pvc, s.exists, s.uid, s.others))
<1> DEFINE owners == s.pvc.owners
           uid == s.uid
           others == s.others
           v == CreateJob(s.pvc, s.exists, uid, others)
           n == Len(others)
<1>1. others \in Seq(ToSet(others)) /\ uid \notin owners /\ \A other \in ToSet(others) : uid \notin other
  BY OwnersAssumption
<1>2. n \in Nat /\ DOMAIN others = 1 .. n BY <1>1, LenProperties
<1>3. \A i \in 1 .. n : uid \notin others[i] BY <1>1, <1>2 DEF ToSet
<1>4. v = IF s.exists THEN [owners |-> owners, done |-> FALSE]
          ELSE IF uid = Unset THEN [owners |-> owners, done |-> TRUE] ELSE Attach(owners, uid, others)
  BY Zenon DEF CreateJob
<1> HIDE DEF owners, uid, others, v, n
<1>5. PICK g : AttachBy(g, owners, uid, others, n) BY <1>2, AttachUnfolds
<1> DEFINE Good(k) == k <= n => AttachGood(owners, uid, others, g[k], k)
           All == {k \in Nat : Good(k)}
<1>6. \A k \in Nat : k \in All
  <2>1. Good(0)
    <3>1. g[0] = [owners |-> owners, done |-> FALSE] BY <1>5 DEF AttachBy
    <3>2. \A j \in 1 .. 0 : FALSE OBVIOUS
    <3> QED BY <1>1, <3>1, <3>2 DEF AttachGood
  <2>2. ASSUME NEW k \in Nat, Good(k) PROVE Good(k + 1)
    <3> SUFFICES ASSUME k + 1 <= n PROVE AttachGood(owners, uid, others, g[k + 1], k + 1) OBVIOUS
    <3>1. k + 1 \in 1 .. n /\ (k + 1) - 1 = k /\ k <= n BY <1>2
    <3>2. g[k + 1] = Attaches(g[k], uid, others[k + 1]) BY <1>5, <3>1 DEF AttachBy
    <3>3. AttachGood(owners, uid, others, g[k], k) /\ uid \notin others[k + 1] BY <1>3, <2>2, <3>1
    <3> QED BY <3>2, <3>3, AttachesGood
  <2> HIDE DEF Good
  <2>3. 0 \in All /\ \A k \in Nat : k \in All => k + 1 \in All BY <2>1, <2>2
  <2> HIDE DEF All
  <2> QED BY <2>3, Induction
<1>7. AttachGood(owners, uid, others, Attach(owners, uid, others), n)
  <2>1. n \in All /\ n <= n BY <1>2, <1>6
  <2>2. Attach(owners, uid, others) = g[n] BY <1>5 DEF AttachBy
  <2> QED BY <2>1, <2>2
<1> HIDE DEF All, Good
<1>8. CASE s.exists
  <2>1. v.owners = owners /\ v.done = FALSE BY <1>4, <1>8
  <2> QED BY <1>8, <2>1 DEF OwnerTrue, owners, v, uid, others
<1>9. CASE ~s.exists /\ uid = Unset
  <2>1. v.owners = owners /\ v.done = TRUE BY <1>4, <1>9
  <2> QED BY <1>9, <2>1 DEF OwnerTrue, owners, v, uid, others
<1>10. CASE ~s.exists /\ uid # Unset
  <2>1. AttachGood(owners, uid, others, v, n) BY <1>4, <1>7, <1>10
  <2>2. /\ owners \subseteq v.owners /\ (v.done => uid \in v.owners)
        /\ ~v.done => \A i \in DOMAIN others : others[i] # {}
        /\ \A i \in DOMAIN others : (\A j \in 1 .. i : others[j] # {}) => others[i] \subseteq v.owners
    BY <1>2, <2>1 DEF AttachGood
  <2> QED BY <1>10, <2>2, Zenon DEF OwnerTrue, owners, v, uid, others
<1> QED BY <1>8, <1>9, <1>10

\* A dispatcher that has started can dispatch, and a host is not asked for the cluster's
\* resources.
LEMMA StartsTrue ==
  ASSUME NEW s, s \in Starts
  PROVE  StartTrue(s)
<1> DEFINE p == s.platform
           flag == s.flag
           whole == p.whole
<1>1. p \in [readable : BOOLEAN, whole : BOOLEAN, sandbox : BOOLEAN] BY StartsAssumption
<1>2. ASSUME DispatchValid(p, flag, s.crds, s.k8sMode), s.k8sMode, p.readable PROVE DispatchHosts(p, flag)
  <2>1. HostingEnabled(p, flag) BY <1>2, Zenon DEF DispatchValid
  <2> DEFINE q == [p EXCEPT !.whole = p.whole /\ p.readable]
  <2>2. q.whole = (p.whole /\ p.readable) BY <1>1
  <2>3. p.readable = TRUE /\ p.whole \in BOOLEAN BY <1>1, <1>2
  <2>4. q.whole = p.whole BY <2>2, <2>3
  <2>5. DispatchHosts(p, flag) = HostingEnabled(q, flag) BY Zenon DEF DispatchHosts
  <2> HIDE DEF q
  <2> QED BY <2>1, <2>4, <2>5, Zenon DEF HostingEnabled
<1>3. ResolveHostingMode(Unset, "k8s-agent-sandbox", TRUE, s.backend) = "k8s-agent-sandbox"
  <2> DEFINE m == "k8s-agent-sandbox"
             tried == <<Unset, m>>
             good == {i \in DOMAIN tried : tried[i] \in HostingModes}
  <2>1. Unset \notin HostingModes BY Zenon DEF Unset, HostingModes
  <2>2. m \in HostingModes BY DEF HostingModes
  <2> HIDE DEF m
  <2>3. DOMAIN tried = {1, 2} /\ tried[1] = Unset /\ tried[2] = m OBVIOUS
  <2>4. good = {2} BY <2>1, <2>2, <2>3
  <2>5. Min(good) = 2
    <3>1. good \subseteq Nat /\ good # {} BY <2>4
    <3> HIDE DEF good
    <3> QED BY <2>4, <3>1, MinOfNumbers
  <2>6. FirstIn(tried, HostingModes) = m BY <2>3, <2>5 DEF FirstIn
  <2>7. {Unset, m} \cap HostingModes # {} BY <2>2
  <2> HIDE DEF tried, good
  <2> QED BY <2>6, <2>7, Zenon DEF ResolveHostingMode, tried, m
<1>4. HostingValid(p, flag, TRUE, {}) BY DEF HostingValid
<1>5. ExecutionBackend(s.backend, Unset, flag, TRUE) = "local" BY Zenon DEF ExecutionBackend
<1> QED BY <1>2, <1>3, <1>4, <1>5 DEF StartTrue

\* The command line reads the file that is there, as long as no other is tried before it.
LEMMA Loads ==
  ASSUME NEW files, NEW arg, NEW file, file = MountedConfig(arg), PlatformFile \in DOMAIN files,
         file \in DOMAIN files, files[file] # Unset,
         arg # Unset => <<Unset, arg, "yaml">> \notin DOMAIN files
  PROVE  LoadConfig(files, arg) = files[file]
<1> DEFINE tried == TriedFiles(arg)
           read == {f \in DOMAIN files : files[f] # Unset}
           good == {i \in DOMAIN tried : tried[i] \in read}
<1>1. \E n \in Nat : DOMAIN tried = 1 .. n /\ n \in DOMAIN tried /\ tried[n] = file /\ good = {n}
  <2>1. CASE arg = Unset
    <3>1. tried = <<ProjectFile>> /\ file = ProjectFile BY <2>1 DEF TriedFiles, MountedConfig
    <3>2. DOMAIN tried = 1 .. 1 /\ tried[1] = file BY <3>1
    <3> HIDE DEF tried
    <3>3. good = {1} BY <3>2
    <3> QED BY <3>2, <3>3
  <2>2. CASE arg # Unset
    <3> DEFINE twin == <<Unset, arg, "yaml">>
    <3>1. tried = <<twin, file>> BY <2>2 DEF TriedFiles, MountedConfig
    <3>2. twin \notin read BY <2>2
    <3> HIDE DEF twin
    <3>3. DOMAIN tried = 1 .. 2 /\ tried[1] = twin /\ tried[2] = file BY <3>1
    <3> HIDE DEF tried
    <3>4. good = {2} BY <3>2, <3>3
    <3> QED BY <3>3, <3>4
  <2> QED BY <2>1, <2>2
<1>2. PICK n \in Nat : DOMAIN tried = 1 .. n /\ n \in DOMAIN tried /\ tried[n] = file /\ good = {n} BY <1>1
<1>3. Min(good) = n
  <2>1. good \subseteq Nat /\ good # {} BY <1>2
  <2> HIDE DEF good
  <2> QED BY <1>2, <2>1, MinOfNumbers
<1>4. FirstIn(tried, read) = file
  <2>1. FirstIn(tried, read) = tried[Min(good)] BY DEF FirstIn
  <2> HIDE DEF good
  <2> QED BY <1>2, <1>3, <2>1
<1>5. ToSet(tried) \cap read # {}
  <2>1. file \in ToSet(tried)
    <3> HIDE DEF tried
    <3> QED BY <1>2 DEF ToSet
  <2> QED BY <2>1
<1> HIDE DEF tried, read
<1> QED BY <1>4, <1>5, Zenon DEF LoadConfig, tried, read

\* What is created for a run is named after it and refers to each other.
LEMMA HostNames ==
  ASSUME NEW task, NEW names, NEW prefix, NEW sink, NEW h, h = Host(task, names, prefix, sink)
  PROVE  /\ h.claim.name = MakeRunSandboxClaimName(task.run)
         /\ h.pvc.name = MakeRunWorkspacePvcName(task.run)
         /\ h.template.name = MakeRunSandboxTemplateName(task.run, prefix)
         /\ h.claim.template = h.template.name
         /\ h.claim.workspace = MakeRunWorkspacePvcName(task.run)
         /\ h.template.workspace = MakeRunWorkspacePvcName(task.run)
         /\ h.template.pod = RunnerPod(task, names, sink, "k8s-agent-sandbox")
<1>1. h.pvc = WorkspacePvc(task) /\ h.template = Template(task, names, prefix, sink) /\ h.claim = Claim(task, prefix)
  BY DEF Host
<1>2. h.pvc.name = MakeRunWorkspacePvcName(task.run) BY <1>1 DEF WorkspacePvc
<1>3. /\ h.claim.name = MakeRunSandboxClaimName(task.run)
      /\ h.claim.template = MakeRunSandboxTemplateName(task.run, prefix)
      /\ h.claim.workspace = MakeRunWorkspacePvcName(task.run)
  BY <1>1 DEF Claim
<1>4. /\ h.template.name = MakeRunSandboxTemplateName(task.run, prefix)
      /\ h.template.pod = RunnerPod(task, names, sink, "k8s-agent-sandbox")
      /\ h.template.workspace = MakeRunWorkspacePvcName(task.run)
  BY <1>1 DEF Template
<1> QED BY <1>2, <1>3, <1>4

\* A job is named after its run as its claim would be.
LEMMA JobNames ==
  ASSUME NEW task, NEW names, NEW sink, NEW j, j = JobManifest(task, names, sink)
  PROVE  j.name = MakeRunSandboxClaimName(task.run) /\ j.pod = RunnerPod(task, names, sink, "k8s-job-whole-run")
BY DEF JobManifest, MakeRunSandboxClaimName

\* The pod of a run works on its volume, with its arguments and its project's configuration.
LEMMA PodIs ==
  ASSUME NEW task, NEW names, NEW sink, NEW mode, NEW p, p = RunnerPod(task, names, sink, mode)
  PROVE  /\ p.workspace = MakeRunWorkspacePvcName(task.run) /\ p.args = RunnerArgs(task)
         /\ p.env = RunnerEnv(task, names, sink, mode)
         /\ p.config.at = MountedConfig(task.arg) /\ p.config.from = names.configMap
BY DEF RunnerPod

\* The environment of a run names it.
LEMMA EnvRun ==
  ASSUME NEW task, NEW names, NEW sink, NEW mode, NEW e, e = RunnerEnv(task, names, sink, mode)
  PROVE  e.run = task.run
BY DEF RunnerEnv

\* The environment of a run lets it resume by itself.
LEMMA EnvResumes ==
  ASSUME NEW task, NEW names, NEW sink, NEW mode
  PROVE  RunnerEnv(task, names, sink, mode).autoResume
BY DEF RunnerEnv

\* A task for a project file.
TaskFor(arg) == [run : Seq(PieceType), project : STRING, arg : {arg}, source : STRING, ticket : STRING, prompt : STRING,
                 agent : STRING, stage : STRING, branch : STRING, pr : STRING]
\* A task is asked for unless it is a prompt without a text.
LEMMA TaskAsked ==
  ASSUME NEW arg, NEW task \in TaskFor(arg), task.source # "prompt" => task.ticket # Unset,
         ~(task.source = "prompt" /\ task.prompt = Unset)
  PROVE  Asked(RunnerArgs(task)) /\ RunnerArgs(task).arg = arg
<1> DEFINE ticket == IF task.source = "prompt" THEN Unset ELSE task.ticket
           prompt == IF task.source = "prompt" THEN task.prompt ELSE Unset
           args == [task EXCEPT !.ticket = ticket, !.prompt = prompt]
<1>1. RunnerArgs(task) = args BY Zenon DEF RunnerArgs
<1> HIDE DEF ticket, prompt
<1>2. args.ticket = ticket /\ args.prompt = prompt /\ args.source = task.source /\ args.arg = arg BY DEF TaskFor
<1> HIDE DEF args
<1>3. task.source = "prompt" => prompt # Unset BY Zenon DEF prompt
<1>4. task.source # "prompt" => ticket # Unset BY Zenon DEF ticket
<1>5. Asked(args) BY <1>2, <1>3, <1>4, Zenon DEF Asked
<1> QED BY <1>1, <1>2, <1>5

\* What the command line does of a task whose project file it can read.
LEMMA CommandRuns ==
  ASSUME NEW args, Asked(args), NEW files, LoadConfig(files, args.arg) # Unset, NEW env, NEW session, NEW agents, NEW mine
  PROVE  LET v == RunCommand(args, files, env, session, agents, mine)
         IN  /\ v.project = LoadConfig(files, args.arg)
             /\ v.does = IF env.autoResume THEN AutoResume(env.run, session) ELSE "fresh"
<1> DEFINE does == CASE ~Asked(args) \/ LoadConfig(files, args.arg) = Unset -> "refuses"
                     [] OTHER -> IF env.autoResume THEN AutoResume(env.run, session) ELSE "fresh"
           agent == Default(args.agent, DefaultAgent(agents, mine))
           project == LoadConfig(files, args.arg)
           v == [does |-> does, project |-> project, agent |-> agent]
<1>1. RunCommand(args, files, env, session, agents, mine) = v BY Zenon DEF RunCommand
<1>2. does = IF env.autoResume THEN AutoResume(env.run, session) ELSE "fresh" BY Zenon
<1> HIDE DEF does, agent, project
<1>3. v.does = does /\ v.project = project OBVIOUS
<1> HIDE DEF v
<1> QED BY <1>1, <1>2, <1>3, Zenon DEF project

\* A queued task becomes the run it asks for, of its project, and of no other run's.
LEMMA LaunchesTrue ==
  ASSUME NEW s, s \in Launches
  PROVE  LaunchTrue(s, Launch(s))
<1> DEFINE arg == ProjectArg(s.file)
           names == ProjectContract(s.task.project, s.env)
           task == [s.task EXCEPT !.arg = arg]
           h == Host(task, names, s.prefix, s.sink)
           pod == h.template.pod
           agents == <<[type |-> "qa", role |-> "qa"], [type |-> "developer", role |-> "developer"]>>
           job == JobManifest(task, names, s.sink)
           other == Host(s.other, names, s.prefix, s.sink)
           inPod == RunCommand(pod.args, Mounted(pod, s.image), pod.env, s.session, agents, <<>>)
           here == RunCommand(LocalArgs(task), s.files, [run |-> <<>>, autoResume |-> FALSE], s.session, agents, <<>>)
           seen == Interpolated("TOKEN", [TOKEN |-> "mine"], SecretEnv(s.mounted, s.written))
           used == Interpolated("TOKEN", [TOKEN |-> "mine"], SecretEnv(s.mounted, s.task.project))
           v == Launch(s)
           refused == s.task.source = "prompt" /\ s.task.prompt = Unset
           twin == <<Unset, arg, "yaml">>
<1>1. v = [host |-> h, job |-> job, other |-> other, pod |-> inPod, local |-> here, seen |-> seen, used |-> used]
  BY Zenon DEF Launch
<1>2. /\ s.task \in TaskType /\ s.other \in TaskType /\ s.prefix \in Seq(PieceType)
      /\ SizeOf(s.task.run) = 26 /\ SizeOf(s.other.run) = 26
      /\ s.task.source # "prompt" => s.task.ticket # Unset
      /\ s.task.project # Unset /\ s.task.project \o "-config" # Unset
      /\ s.file \in DOMAIN s.files /\ s.files[s.file] = s.task.project
      /\ PlatformFile \in DOMAIN s.files /\ PlatformFile \in DOMAIN s.image
  BY LaunchesAssumption
<1>3. /\ task \in TaskFor(arg) /\ task.run = s.task.run /\ task.arg = arg /\ task.source = s.task.source
      /\ task.ticket = s.task.ticket /\ task.prompt = s.task.prompt
  <2> HIDE DEF arg
  <2> QED BY <1>2 DEF TaskType, TaskFor
<1>4. names.configMap # Unset
  <2> DEFINE config == s.task.project \o "-config"
  <2>1. config # Unset BY <1>2
  <2>2. names.configMap = Default(s.env.configMap, config) BY DEF ProjectContract
  <2> HIDE DEF config
  <2> QED BY <2>1, <2>2, Zenon DEF Default
<1> DEFINE volume == MakeRunWorkspacePvcName(task.run)
<1>5. /\ h.claim.name = MakeRunSandboxClaimName(task.run) /\ h.pvc.name = volume
      /\ h.template.name = MakeRunSandboxTemplateName(task.run, s.prefix)
      /\ h.claim.template = h.template.name /\ job.name = h.claim.name
      /\ job.pod.workspace = volume /\ h.claim.workspace = volume
      /\ h.template.workspace = volume /\ h.template.pod.workspace = volume
      /\ pod.args = RunnerArgs(task)
      /\ pod.env = RunnerEnv(task, names, s.sink, "k8s-agent-sandbox")
      /\ pod.config.at = MountedConfig(task.arg)
      /\ pod.config.from = names.configMap
  <2> DEFINE prefix == s.prefix
             sink == s.sink
  <2>1. h = Host(task, names, prefix, sink) /\ job = JobManifest(task, names, sink) OBVIOUS
  <2>2. pod = h.template.pod OBVIOUS
  <2>6. volume = MakeRunWorkspacePvcName(task.run) OBVIOUS
  <2> HIDE DEF task, names, prefix, sink, h, job, pod, volume
  <2>3. /\ h.claim.name = MakeRunSandboxClaimName(task.run) /\ h.pvc.name = volume
        /\ h.template.name = MakeRunSandboxTemplateName(task.run, prefix)
        /\ h.claim.template = h.template.name
        /\ h.claim.workspace = volume /\ h.template.workspace = volume
        /\ pod = RunnerPod(task, names, sink, "k8s-agent-sandbox")
    BY <2>1, <2>2, <2>6, HostNames
  <2> DEFINE jobpod == job.pod
  <2>4. job.name = h.claim.name /\ jobpod = RunnerPod(task, names, sink, "k8s-job-whole-run")
    BY <2>1, <2>3, JobNames
  <2> HIDE DEF jobpod
  <2>5. jobpod.workspace = volume BY <2>4, <2>6, PodIs
  <2>7. /\ pod.workspace = volume /\ pod.args = RunnerArgs(task)
        /\ pod.env = RunnerEnv(task, names, sink, "k8s-agent-sandbox")
        /\ pod.config.at = MountedConfig(task.arg) /\ pod.config.from = names.configMap
    BY <2>3, <2>6, PodIs
  <2> QED BY <2>2, <2>3, <2>4, <2>5, <2>7 DEF prefix, sink, jobpod
<1>6. /\ other.claim.name = MakeRunSandboxClaimName(s.other.run) /\ other.pvc.name = MakeRunWorkspacePvcName(s.other.run)
      /\ other.template.name = MakeRunSandboxTemplateName(s.other.run, s.prefix)
  <2> DEFINE prefix == s.prefix
             sink == s.sink
             o == s.other
             j == JobManifest(o, names, sink)
             w == MakeRunWorkspacePvcName(o.run)
  <2>1. other = Host(o, names, prefix, sink) /\ j = JobManifest(o, names, sink) OBVIOUS
  <2>6. w = MakeRunWorkspacePvcName(o.run) OBVIOUS
  <2> HIDE DEF names, prefix, sink, o, other, j, w
  <2>2. /\ other.claim.name = MakeRunSandboxClaimName(o.run) /\ other.pvc.name = w
        /\ other.template.name = MakeRunSandboxTemplateName(o.run, prefix)
    BY <2>1, <2>6, HostNames
  <2> QED BY <2>2 DEF prefix, o, w
<1>7. v.host = h /\ v.job = job /\ v.other = other /\ v.pod = inPod /\ v.local = here /\ v.seen = seen /\ v.used = used
  <2> HIDE DEF h, job, other, inPod, here, seen, used, v
  <2> QED BY <1>1
<1>8. ASSUME s.other.run # s.task.run
      PROVE  /\ h.claim.name # other.claim.name /\ h.pvc.name # other.pvc.name
             /\ SizeOf(s.prefix \o s.task.run) <= 51 => h.template.name # other.template.name
  <2> DEFINE run == s.task.run
             o == s.other.run
             prefix == s.prefix
  <2>1. run \in Seq(PieceType) /\ o \in Seq(PieceType) /\ prefix \in Seq(PieceType) /\ run # o
        /\ SizeOf(run) = 26 /\ SizeOf(o) = 26
    BY <1>2, <1>8 DEF TaskType
  <2> HIDE DEF run, o, prefix, h, other, task, names
  <2>2. /\ MakeRunSandboxClaimName(run) # MakeRunSandboxClaimName(o)
        /\ MakeRunWorkspacePvcName(run) # MakeRunWorkspacePvcName(o)
        /\ SizeOf(prefix \o run) <= 51 => MakeRunSandboxTemplateName(run, prefix) # MakeRunSandboxTemplateName(o, prefix)
    BY <2>1, NamesDiffer
  <2>3. run = task.run /\ volume = MakeRunWorkspacePvcName(run) BY <1>3 DEF run
  <2> HIDE DEF volume
  <2> QED BY <1>5, <1>6, <2>2, <2>3 DEF run, o, prefix
<1> HIDE DEF h, other, job, names, v, volume, pod, agents, seen, used, inPod, here, arg, twin, refused
<1>9. ~refused => Asked(RunnerArgs(task)) /\ RunnerArgs(task).arg = arg
  <2> HIDE DEF task
  <2> QED BY <1>2, <1>3, TaskAsked DEF refused
<1> HIDE DEF task
<1>10. ASSUME twin \notin DOMAIN s.image, ~refused
       PROVE  /\ inPod.project = pod.config.from /\ inPod.does # "refuses"
              /\ s.session.status = "executing" => inPod.does \in {"resume", "restart"}
  <2> DEFINE files == Mounted(pod, s.image)
             at == MountedConfig(arg)
  <2>1. pod.config.at = at /\ pod.config.from = names.configMap /\ pod.config.from # Unset BY <1>3, <1>4, <1>5
  <2>2. /\ DOMAIN files = {at} \cup DOMAIN s.image /\ files[at] = pod.config.from
    BY <2>1 DEF Mounted
  <2>3. arg # Unset => twin # at
    <3> SUFFICES ASSUME arg # Unset PROVE twin # at OBVIOUS
    <3>1. at = <<"project-", arg, "yaml">> BY DEF MountedConfig
    <3>2. Unset # "project-" BY Zenon DEF Unset
    <3> HIDE DEF at
    <3> QED BY <3>1, <3>2 DEF twin
  <2> HIDE DEF files
  <2>4. arg # Unset => <<Unset, arg, "yaml">> \notin DOMAIN files BY <1>10, <2>2, <2>3 DEF twin
  <2> DEFINE file == at
  <2>5. file = MountedConfig(arg) /\ PlatformFile \in DOMAIN files /\ file \in DOMAIN files /\ files[file] # Unset
    BY <1>2, <2>1, <2>2
  <2> HIDE DEF file, at
  <2>6. LoadConfig(files, arg) = files[file] BY <2>4, <2>5, Loads
  <2>7. LoadConfig(files, arg) = pod.config.from BY <2>2, <2>6 DEF file
  <2>8. Asked(pod.args) /\ pod.args.arg = arg BY <1>5, <1>9, <1>10
  <2> DEFINE args == pod.args
             env == pod.env
             session == s.session
             none == <<>>
  <2>9. inPod = RunCommand(args, files, env, session, agents, none) BY DEF inPod, files
  <2>10. Asked(args) /\ LoadConfig(files, args.arg) = pod.config.from /\ pod.config.from # Unset BY <2>1, <2>7, <2>8
  <2>11. env.autoResume /\ env.run = s.task.run
    <3> DEFINE sink == s.sink
    <3>1. env = RunnerEnv(task, names, sink, "k8s-agent-sandbox") BY <1>5
    <3> HIDE DEF env, sink
    <3>2. env.run = task.run BY <3>1, EnvRun
    <3>3. env.autoResume BY <3>1, EnvResumes, Zenon
    <3> QED BY <1>3, <3>2, <3>3
  <2> HIDE DEF args, env, session, none
  <2>12. inPod.project = pod.config.from /\ inPod.does = IF env.autoResume THEN AutoResume(env.run, session) ELSE "fresh"
    BY <2>9, <2>10, CommandRuns
  <2>13. inPod.does = AutoResume(s.task.run, session) BY <2>11, <2>12
  <2>14. s.task.run # <<>>
    <3>1. SizeOf(<<>>) = 0
      <4>1. <<>> \in Seq(PieceType) /\ Len(<<>>) = 0 BY EmptySeq
      <4>2. PICK e : IsSizes(<<>>, e) BY <4>1, SizesThere
      <4> QED BY <4>1, <4>2 DEF IsSizes
    <3> QED BY <1>2, <3>1
  <2>15. AutoResume(s.task.run, session) \in {"fresh", "resume", "restart"} BY Zenon DEF AutoResume
  <2>16. session.status = "executing" => AutoResume(s.task.run, session) \in {"resume", "restart"}
    BY <2>14, Zenon DEF AutoResume
  <2> QED BY <2>12, <2>13, <2>15, <2>16 DEF session
<1>11. ASSUME s.file = MountedConfig(arg), s.file = ProjectFile \/ twin \notin DOMAIN s.files, ~refused
       PROVE  here.does = "fresh" /\ here.project = s.task.project
  <2>1. arg # Unset => <<Unset, arg, "yaml">> \notin DOMAIN s.files
    <3> SUFFICES ASSUME arg # Unset PROVE twin \notin DOMAIN s.files BY DEF twin
    <3>1. s.file = <<"project-", arg, "yaml">> BY <1>11 DEF MountedConfig
    <3>2. Unset # "project-" BY Zenon DEF Unset
    <3>3. s.file # ProjectFile BY <3>1, <3>2 DEF ProjectFile
    <3> QED BY <1>11, <3>3
  <2> DEFINE files == s.files
             file == s.file
  <2>2. /\ file = MountedConfig(arg) /\ PlatformFile \in DOMAIN files /\ file \in DOMAIN files /\ files[file] # Unset
        /\ files[file] = s.task.project
    BY <1>2, <1>11
  <2>3. arg # Unset => <<Unset, arg, "yaml">> \notin DOMAIN files BY <2>1
  <2> HIDE DEF files, file
  <2>4. LoadConfig(files, arg) = s.task.project BY <2>2, <2>3, Loads
  <2> DEFINE args == LocalArgs(task)
             env == [run |-> <<>>, autoResume |-> FALSE]
             session == s.session
             none == <<>>
  <2>5. here = RunCommand(args, files, env, session, agents, none) BY DEF here, files
  <2>6. args = RunnerArgs(task) BY DEF LocalArgs
  <2>7. ~env.autoResume OBVIOUS
  <2> HIDE DEF args, env, session, none
  <2>8. Asked(args) /\ LoadConfig(files, args.arg) = s.task.project BY <1>9, <1>11, <2>4, <2>6
  <2>9. here.project = s.task.project /\ here.does = IF env.autoResume THEN AutoResume(env.run, session) ELSE "fresh"
    BY <1>2, <2>5, <2>8, CommandRuns
  <2> QED BY <2>7, <2>9
<1>12. s.written = s.task.project => seen = used BY DEF seen, used
<1>13. {job.pod.workspace, h.claim.workspace, h.template.workspace, h.template.pod.workspace} = {h.pvc.name} BY <1>5
<1>14. h.template.pod = pod BY DEF pod
<1>15. /\ v.host.claim.template = v.host.template.name /\ v.job.name = v.host.claim.name
       /\ {v.job.pod.workspace, v.host.claim.workspace, v.host.template.workspace, v.host.template.pod.workspace}
            = {v.host.pvc.name}
  BY <1>5, <1>7, <1>13
<1>16. s.other.run # s.task.run =>
          /\ v.host.claim.name # v.other.claim.name /\ v.host.pvc.name # v.other.pvc.name
          /\ SizeOf(s.prefix \o s.task.run) <= 51 => v.host.template.name # v.other.template.name
  BY <1>7, <1>8
<1>17. twin \notin DOMAIN s.image /\ ~refused =>
          /\ v.pod.project = v.host.template.pod.config.from /\ v.pod.does # "refuses"
          /\ s.session.status = "executing" => v.pod.does \in {"resume", "restart"}
  BY <1>7, <1>10, <1>14
<1>18. s.file = MountedConfig(twin[2]) /\ (s.file = ProjectFile \/ twin \notin DOMAIN s.files) /\ ~refused =>
          v.local.does = "fresh" /\ v.local.project = s.task.project
  <2>1. twin[2] = arg BY DEF twin
  <2> QED BY <1>7, <1>11, <2>1
<1>19. s.written = s.task.project => v.seen = v.used BY <1>7, <1>12
<1> HIDE DEF v
<1> QED BY <1>15, <1>16, <1>17, <1>18, <1>19, Zenon DEF LaunchTrue, refused, twin, arg, v

\* Whatever task is launched, platform checked or volume attached, what comes of it is
\* what was asked for: dispatchTask with its manifests, the run command and loadConfig.
THEOREM LaunchesHold == Spec => []LaunchesSound
<1>1. DecisionInv => LaunchesSound
  <2> SUFFICES ASSUME DecisionInv PROVE LaunchesSound OBVIOUS
  <2>1. ASSUME Decided("launch") PROVE LaunchTrue(subject, verdict[1])
    <3>1. verdict # <<>> /\ subject.about = "launch" BY <2>1 DEF Decided
    <3>2. subject \in Launches /\ verdict[1] = Launch(subject) BY <3>1, InputKinds DEF DecisionInv, Reported
    <3> QED BY <3>2, LaunchesTrue
  <2>2. ASSUME Decided("start") PROVE StartTrue(subject)
    <3>1. subject \in Starts BY <2>2, InputKinds DEF DecisionInv, Decided
    <3> QED BY <3>1, StartsTrue
  <2>3. ASSUME Decided("owner") PROVE OwnerTrue(subject, verdict[1])
    <3>1. verdict # <<>> /\ subject.about = "owner" BY <2>3 DEF Decided
    <3>2. subject \in Owners /\ verdict[1] = CreateJob(subject.pvc, subject.exists, subject.uid, subject.others)
      BY <3>1, InputKinds DEF DecisionInv, Reported
    <3> QED BY <3>2, OwnersTrue
  <2> QED BY <2>1, <2>2, <2>3 DEF LaunchesSound
<1> QED BY <1>1, DecisionInvHolds, PTL
=============================================================================
