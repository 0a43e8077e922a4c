---------------------------- MODULE IngestService ----------------------------
\* The ingestion service's four writing routes over its database and Redis: what becomes
\* of the requests that come to it, one after another.
EXTENDS IngestRules, FiniteSetsExt

\* What the parsers require, and what they take if it is there.  A field of a body is
\* "ok", "long", "bad" (of the wrong kind, or at odds with another field) or "".
RequiredFields ==
  [events |-> {"event_id", "run_id", "event_type", "timestamp", "data"},
   runs   |-> {"run_id", "project_id", "ticket_id", "ticket_source", "ticket_title", "status", "current_step",
               "total_steps", "total_tokens", "total_cost_usd", "created_at", "updated_at"},
   steps  |-> {"run_id", "step_number", "step_attempt", "agent", "status", "started_at", "completed_at", "result"},
   logs   |-> {"run_id", "step_number", "step_attempt", "agent", "runtime_provider", "sequence", "stream", "chunk",
               "byte_length", "is_final", "timestamp"}]
OptionalFields ==
  {"hosting_mode", "plan_classification", "workspace_path", "branch", "pr_url", "completed_at", "error"}
Routes == DOMAIN RequiredFields
Fields(route) == RequiredFields[route] \cup (IF route = "runs" THEN OptionalFields ELSE {})

PostType(route) ==
  [route : {route}, id : Nat, key : STRING, run : STRING, token : {"", "basic", "wrong", "right"},
   big : BOOLEAN, object : BOOLEAN, body : [Fields(route) -> {"ok", "long", "bad", ""}],
   db : {"up", "down", "lost"}, redis : BOOLEAN]

\* What is too long is refused if there is a limit; of what is not required only the date
\* of the end is looked at, and the rest is left out if it is bad.
FieldRefused(route, field, value, limited) ==
  \/ value = "long" /\ limited
  \/ value \in {"", "bad"} /\ field \in RequiredFields[route]
  \/ value = "bad" /\ field = "completed_at"
BodyValid(r, limited) ==
  r.object /\ \A f \in Fields(r.route) : ~FieldRefused(r.route, f, r.body[f], limited)
Cleaned(r) == {f \in Fields(r.route) : r.body[f] \in {"ok", "long"}}

\* A row is what its request brought; a run keeps when it was created, and is of an
\* unknown class if it has none.
InsertedRow(r) == [id |-> r.id, fields |-> Cleaned(r), created |-> r.id,
           class |-> IF "plan_classification" \in Cleaned(r) THEN r.id ELSE 0]
Upserted(rows, key, row) == [k \in DOMAIN rows \cup {key} |-> IF k = key THEN row ELSE rows[k]]
MutRowsAfter(rows, r) == Upserted(rows, r.key, InsertedRow(r))
RowsAfter(rows, r) ==
  IF r.key \in DOMAIN rows /\ r.route \in {"events", "logs"} THEN rows
  ELSE IF r.key \in DOMAIN rows /\ r.route = "runs"
         THEN Upserted(rows, r.key, [InsertedRow(r) EXCEPT !.created = rows[r.key].created])
  ELSE Upserted(rows, r.key, InsertedRow(r))

\* ensureConnected: an attempt to connect that failed is the one that is waited for ever
\* after.
Connects(redis, up) == IF redis # "idle" THEN redis ELSE IF up THEN "connected" ELSE "broken"
\* Events that were not there before are published; if that fails it is only logged.
Announced(s, r) ==
  LET redis == Connects(s.redis, r.redis)
  IN  [s EXCEPT !.redis = redis,
                !.published = IF redis = "connected" /\ r.redis THEN Append(@, r.key) ELSE @]

Responds(s, code) == [s EXCEPT !.answers = Append(@, code)]
\* Rows refer to a run that is there.  A database that is lost answers nobody, and may
\* have done what it was asked to.
Writes(s, r) ==
  LET fresh == r.key \notin DOMAIN s.tables[r.route]
      after == [s EXCEPT !.tables[r.route] = RowsAfter(@, r)]
  IN  IF r.db = "down" \/ (r.route # "runs" /\ r.run \notin DOMAIN s.tables.runs) THEN Responds(s, 503)
      ELSE IF r.db = "lost" THEN Responds(after, 503)
      ELSE CASE r.route = "events" /\ fresh -> Responds(Announced(after, r), 201)
             [] r.route = "logs" /\ fresh -> Responds(after, 201)
             [] OTHER -> Responds(after, 200)

\* Token, rate, size and content are looked at in this order.
AuthAnswer(token) == CASE token \in {"", "basic"} -> 401 [] token = "wrong" -> 403 [] OTHER -> 0
Handles(s, r, limits) ==
  LET refused == AuthAnswer(r.token)
      bucket  == Consume(s.buckets[r.route], 0, 1, limits.rate)
      counted == [s EXCEPT !.buckets[r.route] = bucket]
  IN  IF refused # 0 THEN Responds(s, refused)
      ELSE IF ~bucket.allowed THEN Responds(counted, 429)
      ELSE IF r.big /\ limits.size THEN Responds(counted, 413)
      ELSE IF ~BodyValid(r, limits.size) THEN Responds(counted, 422) ELSE Writes(counted, r)

ServiceInit ==
  [tables |-> [route \in Routes |-> <<>>], published |-> <<>>, redis |-> "idle",
   buckets |-> [route \in Routes |-> NoBucket], answers |-> <<>>]
Serves(requests, limits) == FoldLeft(LAMBDA s, r : Handles(s, r, limits), ServiceInit, requests)

-----------------------------------------------------------------------------
\* Of the requests that were taken, those that wrote a row.
Writers(requests, answers, route, key) ==
  {i \in DOMAIN requests : answers[i] \in {200, 201} /\ requests[i].route = route /\ requests[i].key = key}
\* What was taken is there, an event or a piece of a log as it was first sent, a run or a
\* result as it was last, and of a run it is still known when it was first sent.
RowTrue(requests, s, route, key) ==
  LET writers == Writers(requests, s.answers, route, key)
      row     == s.tables[route][key]
  IN  writers # {} =>
        /\ key \in DOMAIN s.tables[route]
        /\ route \in {"events", "logs"} => row.id = requests[Min(writers)].id
        /\ route \in {"runs", "steps"} => row.id = requests[Max(writers)].id
        /\ route = "runs" => row.created = requests[Min(writers)].id

\* What a service that answered these requests may be counted on for.  Unless the database
\* was lost, its rows are true, and there are no others; nothing is there without a run or
\* from a request that was refused; each event is announced at most once, and if its
\* sender was told that it was new and Redis had never been away it is.
ServiceTrue(requests, s) ==
  LET keys(route) == {requests[i].key : i \in {i \in DOMAIN requests : requests[i].route = route}}
  IN  /\ (\A i \in DOMAIN requests : requests[i].db # "lost") =>
           \A route \in Routes : \A key \in keys(route) :
             /\ RowTrue(requests, s, route, key)
             /\ key \in DOMAIN s.tables[route] => Writers(requests, s.answers, route, key) # {}
      /\ \A route \in Routes : \A key \in DOMAIN s.tables[route] :
           /\ s.tables.runs # <<>>
           /\ \E i \in DOMAIN requests : /\ requests[i].id = s.tables[route][key].id
                                         /\ requests[i].token = "right" /\ s.answers[i] \in {200, 201, 503}
                                         /\ \A f \in RequiredFields[route] : requests[i].body[f] \in {"ok", "long"}
      /\ IsInjective(s.published) /\ ToSet(s.published) \subseteq DOMAIN s.tables.events
      /\ \A i \in DOMAIN requests :
           requests[i].route = "events" /\ s.answers[i] = 201 /\ (\A j \in 1 .. i : requests[j].redis)
             => requests[i].key \in ToSet(s.published)
=============================================================================
