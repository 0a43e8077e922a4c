----------------------------- MODULE MonitorFeed -----------------------------
\* A page of the monitor that is kept up to date while runs go on: the stream of events
\* the server sends (from the files, from Redis, or by polling the database), the requests
\* the page makes, and their answers, which may overtake each other.
\* The n-th event of a run r is <<r, n>>.
EXTENDS Integers, Sequences, FiniteSets, SequencesExt

CONSTANTS Clients,  \* pages: "detail" and "list" of v4 and v5, "v3"
          Backends, \* where the server reads from: "file", "redis", "db"
          Written,  \* bound: how many events there are of each run
          MaxAsks, MaxQueue, MaxFaults, MaxSwitches \* bounds: requests and messages under way, faults, switches

Runs == DOMAIN Written

\* Pages are opened for the first run.
ASSUME PagesAssumption == 1 \in Runs

NoAnswer == <<>> \* and <<x>> is an answer
VARIABLES backend,
          log,    \* how much of each run is written, in half lines
          stream, \* the server's end: [open, offset, last, queue]
          asks,   \* requests under way: [key, run, status, events]
          page,   \* [client, run, key, status, events, timer]
          faults

feedVars == <<backend, log, stream, asks, page, faults>>

Lines(n) == n \div 2
Content == [r \in Runs |-> Lines(log[r])]
EventsOf(r) == [n \in 1 .. Content[r] |-> <<r, n>>]
Unread == [r \in Runs |-> 0]
About(r) == IF page.client = "list" THEN Content ELSE [Unread EXCEPT ![r] = Content[r]]

\* useRunDetail's fetch_, useRuns's fetchRuns and v3's refresh: two requests at once
Ask == [key |-> page.key, run |-> page.run, status |-> NoAnswer, events |-> NoAnswer]
MayAsk == Len(asks) < MaxAsks
Sends(requests) == asks' = requests /\ UNCHANGED <<backend, log, faults>>

\* The stream route of the server: a file is followed from its end on, the database from
\* now on.  It is told of the runs at once, and again every five seconds.
Opened == [open |-> TRUE, offset |-> log, last |-> <<>>,
           queue |-> IF page.client = "detail" THEN <<>> ELSE <<<<"runs", Content>>>>]
Closed == [open |-> FALSE, offset |-> Unread, last |-> <<>>, queue |-> <<>>]
Watched == IF page.client = "list" THEN Runs ELSE {page.run}

FeedInit ==
  /\ backend \in Backends
  /\ log \in [Runs -> {0, 2}] /\ \A r \in Runs : log[r] = 2 <=> r # 1
  /\ page \in [client : Clients, run : {1}, key : {1}, status : {Unread}, events : {<<>>}, timer : {FALSE}]
  /\ stream = Opened
  /\ asks = <<Ask>>
  /\ faults = 0

\* No page is open.
FeedOff ==
  /\ backend = "" /\ log = Unread /\ stream = Closed /\ asks = <<>> /\ faults = 0
  /\ page = [client |-> "", run |-> 1, key |-> 1, status |-> Unread, events |-> <<>>, timer |-> FALSE]

\* A run writes half a line, or has an event stored, and published to who listens.
Appends(r) ==
  /\ log[r] < 2 * Written[r]
  /\ log' = [log EXCEPT ![r] = IF backend = "file" THEN @ + 1 ELSE @ + 2]
  /\ stream' = IF backend = "redis" /\ stream.open /\ r \in Watched
                 THEN [stream EXCEPT !.queue = Append(@, <<"event", <<r, Lines(log'[r])>>>>)] ELSE stream
  /\ UNCHANGED <<backend, asks, page, faults>>

\* readNewEventsFromOffset: what is whole since the last look; half a line is lost
Noticed(r) ==
  LET new == SubSeq(EventsOf(r), (stream.offset[r] + 1) \div 2 + 1, Content[r])
  IN  [i \in DOMAIN new |-> <<"event", new[i]>>]
NoticesFile(r) ==
  /\ backend = "file" /\ stream.open /\ r \in Watched
  /\ log[r] > stream.offset[r] /\ Len(stream.queue) < MaxQueue
  /\ stream' = [stream EXCEPT !.queue = @ \o Noticed(r), !.offset[r] = log[r]]
  /\ UNCHANGED <<backend, log, asks, page, faults>>

\* readNewEventsFromDbSince: the cursor is kept in milliseconds, before the last row, which
\* is therefore read again.
PollsDatabase(r) ==
  /\ backend = "db" /\ stream.open /\ r \in Watched /\ Len(stream.queue) < MaxQueue
  /\ log[r] > stream.offset[r] \/ (stream.last # <<>> /\ stream.last[1] = r)
  /\ LET from == IF stream.last # <<>> /\ stream.last[1] = r THEN stream.last[2] ELSE Lines(stream.offset[r]) + 1
         new  == SubSeq(EventsOf(r), from, Content[r])
     IN  stream' = [stream EXCEPT !.queue = @ \o [i \in DOMAIN new |-> <<"event", new[i]>>],
                                  !.offset[r] = log[r], !.last = Last(new)]
  /\ UNCHANGED <<backend, log, asks, page, faults>>

\* sendRunsSummary
TellsRuns ==
  /\ stream.open /\ page.client # "detail" /\ Len(stream.queue) < MaxQueue
  /\ stream' = [stream EXCEPT !.queue = Append(@, <<"runs", Content>>)]
  /\ UNCHANGED <<backend, log, asks, page, faults>>

-----------------------------------------------------------------------------
\* The page's listeners, of each client.
HearsDetail(message) ==
  /\ page.client = "detail" /\ MayAsk
  /\ page' = [page EXCEPT !.events = Append(@, message[2])]
  /\ Sends(Append(asks, Ask))
HearsList(message) ==
  /\ page.client = "list"
  /\ CASE message[1] = "runs" -> page' = [page EXCEPT !.status = message[2]] /\ Sends(asks)
       [] OTHER -> MayAsk /\ Sends(Append(asks, Ask)) /\ UNCHANGED page
\* scheduleLiveRefresh: a refresh that is due is put off.
HearsV3 ==
  /\ page.client = "v3"
  /\ page' = [page EXCEPT !.timer = TRUE]
  /\ Sends(asks)
Hears ==
  /\ stream.queue # <<>>
  /\ stream' = [stream EXCEPT !.queue = Tail(@)]
  /\ LET message == Head(stream.queue) IN HearsDetail(message) \/ HearsList(message) \/ HearsV3
TimerFires ==
  /\ page.timer /\ MayAsk
  /\ page' = [page EXCEPT !.timer = FALSE]
  /\ Sends(Append(asks, Ask)) /\ UNCHANGED stream
MutRefreshes == MayAsk /\ page.client = "v3" /\ Sends(Append(asks, Ask)) /\ UNCHANGED <<stream, page>>
\* setInterval; the list has none, and lives on what it is told.
Refreshes ==
  /\ MayAsk /\ page.client \in {"detail", "v3"}
  /\ Sends(Append(asks, Ask)) /\ UNCHANGED <<stream, page>>

\* The server answers the two requests, each when it comes to it.
AnswersRun(i) ==
  /\ asks[i].status = NoAnswer
  /\ Sends([asks EXCEPT ![i].status = <<About(asks[i].run)>>]) /\ UNCHANGED <<stream, page>>
AnswersEvents(i) ==
  /\ asks[i].events = NoAnswer
  /\ Sends([asks EXCEPT ![i].events = <<EventsOf(asks[i].run)>>]) /\ UNCHANGED <<stream, page>>
MutCurrent(ask) == TRUE
\* requestKeyRef: an answer for a page that was left is dropped.
Current(ask) == page.client = "detail" => ask.key = page.key
Arrives(i) ==
  /\ NoAnswer \notin {asks[i].status, asks[i].events}
  /\ page' = IF Current(asks[i]) THEN [page EXCEPT !.status = asks[i].status[1], !.events = asks[i].events[1]] ELSE page
  /\ Sends(RemoveAt(asks, i)) /\ UNCHANGED stream
\* A request fails: what is shown stays.
RequestFails(i) ==
  /\ faults < MaxFaults /\ faults' = faults + 1
  /\ asks' = RemoveAt(asks, i)
  /\ UNCHANGED <<backend, log, stream, page>>

\* The connection is lost; the detail page closes its own for good, the list opens it
\* again after a while, and so does the browser for v3.
StreamBreaks ==
  /\ stream.open /\ faults < MaxFaults /\ faults' = faults + 1
  /\ stream' = Closed
  /\ UNCHANGED <<backend, log, asks, page>>
Reconnects ==
  /\ ~stream.open /\ page.client \in {"list", "v3"}
  /\ stream' = Opened
  /\ UNCHANGED <<backend, log, asks, page, faults>>

\* useRunDetail for another run: everything is begun anew.
Switches(r) ==
  /\ page.client = "detail" /\ r # page.run /\ page.key <= MaxSwitches /\ MayAsk
  /\ page' = [page EXCEPT !.run = r, !.key = @ + 1, !.status = Unread, !.events = <<>>]
  /\ stream' = [Closed EXCEPT !.open = TRUE, !.offset = log]
  /\ asks' = Append(asks, [Ask EXCEPT !.key = page.key + 1, !.run = r])
  /\ UNCHANGED <<backend, log, faults>>

FeedNext ==
  \/ \E r \in Runs : Appends(r) \/ NoticesFile(r) \/ PollsDatabase(r) \/ Switches(r)
  \/ TellsRuns \/ Hears \/ TimerFires \/ Refreshes \/ StreamBreaks \/ Reconnects
  \/ \E i \in DOMAIN asks : AnswersRun(i) \/ AnswersEvents(i) \/ Arrives(i) \/ RequestFails(i)

\* Timers go off, the server answers, and messages arrive.
FeedFairness ==
  /\ WF_feedVars(Refreshes) /\ WF_feedVars(TimerFires) /\ WF_feedVars(TellsRuns)
  /\ WF_feedVars(Hears) /\ WF_feedVars(Reconnects)
  /\ WF_feedVars(asks # <<>> /\ (AnswersRun(1) \/ AnswersEvents(1) \/ Arrives(1)))

-----------------------------------------------------------------------------
\* A page of a run shows events of this run only, whatever was asked for before.
ShowsSelected == page.client # "list" => \A e \in ToSet(page.events) : e[1] = page.run

\* Again and again, a page shows all there is: requests that fail, answers that overtake
\* each other, lines cut in half and streams that are lost are made up for.
Shown == CASE page.client = "list" -> page.status = Content
           [] OTHER -> page.status[page.run] = Content[page.run] /\ page.events = EventsOf(page.run)
CatchesUp == []<>Shown
=============================================================================
