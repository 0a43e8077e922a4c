----------------------------- MODULE IngestRules -----------------------------
\* What the ingestion service decides without its database: the limits it loads and
\* the fixed window of its rate limiter.
EXTENDS Naturals, Sequences, FiniteSets, SequencesExt

\* A limit that is undefined in JavaScript, where it compares as false with every
\* number; the limits that are set are positive (parsePositiveInteger).
Undefined == 0
Reached(n, limit) == limit # Undefined /\ n >= limit

\* loadRateLimit: spreads of the defaults, of the environment, whose object has every
\* field, undefined ones included, and of the overrides, which have some.
Loaded(defaults, env, overrides) ==
  [f \in DOMAIN defaults |-> IF f \in DOMAIN overrides THEN overrides[f] ELSE env[f]]

\* FixedWindowRateLimiter.consume for one key: the bucket after a request, and
\* whether the request is allowed.
NoBucket == [count |-> 0, start |-> 0, allowed |-> FALSE, fresh |-> TRUE]
Consume(bucket, now, window, limit) ==
  IF bucket.fresh \/ Reached(now - bucket.start, window)
    THEN [count |-> 1, start |-> now, allowed |-> TRUE, fresh |-> FALSE]
  ELSE IF Reached(bucket.count, limit) THEN [bucket EXCEPT !.allowed = FALSE]
  ELSE [bucket EXCEPT !.count = @ + 1, !.allowed = TRUE]

\* The times of the requests that are allowed, of those that come at the times given.
Allowed(times, window, limit) ==
  LET step(s, now) == LET b == Consume(s.bucket, now, window, limit)
                      IN  [bucket |-> b, times |-> IF b.allowed THEN Append(s.times, now) ELSE s.times]
  IN  FoldLeft(step, [bucket |-> NoBucket, times |-> <<>>], times).times

-----------------------------------------------------------------------------
\* The requests let through when they come at the given times: fewer than twice the
\* limit within any one window's length, wherever it starts, and none is turned away
\* unless another was let through less than a window's length before it.
RateBounded(times, window, limit, allowed) ==
  LET Within(from) == Cardinality({i \in DOMAIN allowed : from <= allowed[i] /\ allowed[i] < from + window})
  IN  /\ \A i \in DOMAIN times : Within(times[i]) <= 2 * limit - 1
      /\ \A i \in DOMAIN times :
           times[i] \in ToSet(allowed) \/ \E a \in ToSet(allowed) : a <= times[i] /\ times[i] - a < window
=============================================================================
