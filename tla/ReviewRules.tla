----------------------------- MODULE ReviewRules -----------------------------
\* The lifecycle manager and the GitHub plugin it asks: what one poll makes of a
\* watched pull request, from what the requests of the poll answer.
EXTENDS Naturals, Sequences, FiniteSets, SequencesExt, FiniteSetsExt

\* resolveCombinedStatus
CombinedStatus(status) ==
  IF status.count = 0 THEN "none"
  ELSE CASE status.state = "success" -> "passing"
         [] status.state \in {"failure", "error"} -> "failing"
         [] status.state = "pending" -> "pending"
         [] OTHER -> "none"

\* resolveCheckRunsStatus: the first check that is unfinished or failed decides.
FailingConclusions == {"action_required", "cancelled", "failure", "startup_failure", "stale", "timed_out"}
Unfinished(check) == check.status # "completed" \/ check.conclusion = ""
Failed(check) == ~Unfinished(check) /\ check.conclusion \in FailingConclusions
MutCheckRunsStatus(checks) ==
  IF checks = <<>> THEN "none"
  ELSE IF Unfinished(Last(checks)) THEN "pending"
  ELSE IF Failed(Last(checks)) THEN "failing" ELSE "passing"
CheckRunsStatus(checks) ==
  LET telling == {i \in DOMAIN checks : Unfinished(checks[i]) \/ Failed(checks[i])}
  IN  IF checks = <<>> THEN "none"
      ELSE IF telling = {} THEN "passing"
      ELSE IF Unfinished(checks[Min(telling)]) THEN "pending" ELSE "failing"

\* What GitHub tells of a commit
CheckType == [status : STRING, conclusion : STRING]
SummaryType == [status : [count : Nat, state : STRING], checks : Seq(CheckType)]

\* getCISummary of the commit at the head of the pull request
CISummary(ci) ==
  LET found == {CombinedStatus(ci.status), CheckRunsStatus(ci.checks)}
  IN  IF "failing" \in found THEN "failing"
      ELSE IF "pending" \in found THEN "pending"
      ELSE IF "passing" \in found THEN "passing" ELSE "none"

\* getReviewDecision: the last review that approves or asks for changes, whoever wrote it.
ReviewDecision(reviews, requested) ==
  LET telling == SelectSeq(reviews, LAMBDA r : r \in {"changes_requested", "approved"})
  IN  IF telling # <<>> THEN Last(telling) ELSE IF requested THEN "pending" ELSE "none"

\* What the requests of a poll answer.  fails names the one that fails, or is "".
AnswerType == [listed : BOOLEAN, state : {"open", "merged", "closed"}, fails : STRING,
               ci : SummaryType, ciAgain : SummaryType,
               reviews : Seq(STRING), requested : BOOLEAN, mergeable : BOOLEAN]

\* getMergeability asks for everything again; an unknown `mergeable' is no blocker.
Mergeable(answers) ==
  /\ CISummary(answers.ciAgain) \notin {"failing", "pending"}
  /\ ReviewDecision(answers.reviews, answers.requested) \notin {"changes_requested", "pending"}
  /\ answers.mergeable # FALSE

-----------------------------------------------------------------------------
\* A watched run: WatchedRun, and the notifications sent, newest last.  A trigger has
\* no reaction, or one that is [automatic, retries]: automatic is `auto' with the action
\* trigger-rework or auto-merge.
ReactionType == [automatic : BOOLEAN, retries : Nat]
NoReaction == [automatic |-> FALSE, retries |-> 99]
Watch == [watched |-> TRUE, failures |-> 0, rejections |-> 0, sent |-> <<>>]
Tell(w, kind) == [w EXCEPT !.sent = Append(@, kind)]

\* handleCIFailure
OnCIFailure(w, reaction) ==
  LET counted == [w EXCEPT !.failures = @ + 1]
  IN  IF reaction = NoReaction THEN w
      ELSE Tell(counted, CASE counted.failures > reaction.retries -> "ci: urgent"
                           [] OTHER -> IF reaction.automatic THEN "ci: rework" ELSE "ci: attention")

\* handleChangesRequested: the comments are asked for before the rework is announced.
OnChangesRequested(w, reaction, answers) ==
  LET counted == [w EXCEPT !.rejections = @ + 1]
      over    == counted.rejections > reaction.retries
  IN  CASE reaction = NoReaction -> w
        [] reaction # NoReaction /\ over -> Tell(counted, "review: urgent")
        [] reaction # NoReaction /\ ~over /\ ~reaction.automatic -> Tell(counted, "review: attention")
        [] OTHER -> IF answers.fails = "comments" THEN counted ELSE Tell(counted, "review: rework")

\* handleReadyToMerge: nothing is merged, since no callback is given to the manager.
OnReadyToMerge(w, reaction, answers) ==
  CASE reaction = NoReaction -> w
    [] reaction # NoReaction /\ ~reaction.automatic -> Tell(w, "merge: ready")
    [] OTHER -> CASE answers.fails = "mergeability" -> w
                  [] OTHER -> IF Mergeable(answers) THEN [Tell(w, "merge: done") EXCEPT !.watched = FALSE]
                                                    ELSE Tell(w, "merge: blocked")

\* checkRun: a request that fails ends the poll where it is.  A change of state between
\* the two requests of the poll shows a pull request that was listed as open as merged.
CheckRun(w, answers, reactions) ==
  LET ci     == CISummary(answers.ci)
      review == ReviewDecision(answers.reviews, answers.requested)
      told   == IF ci = "failing" THEN OnCIFailure(w, reactions.ci) ELSE w
      judged == CASE review = "changes_requested" -> OnChangesRequested(told, reactions.review, answers)
                  [] review = "approved" /\ ci = "passing" -> OnReadyToMerge(told, reactions.merge, answers)
                  [] OTHER -> told
  IN  IF ~w.watched \/ ~answers.listed \/ answers.fails \in {"detect", "state"} THEN w
      ELSE CASE answers.state = "merged" -> [Tell(w, "merged") EXCEPT !.watched = FALSE]
             [] answers.state = "closed" -> [w EXCEPT !.watched = FALSE]
             [] answers.state = "open" ->
                  CASE answers.fails = "ci" -> w [] answers.fails = "reviews" -> told [] OTHER -> judged

\* pollAll, once for every answer in turn: the watch after each of them.
Polls(answers, reactions) ==
  FoldLeft(LAMBDA ws, a : Append(ws, CheckRun(Last(ws), a, reactions)), <<Watch>>, answers)

-----------------------------------------------------------------------------
\* A summary is "passing" only if no check is unfinished or failed and something passed.
GreenOnly(ci, summary) ==
  summary = "passing" =>
    /\ \A c \in ToSet(ci.checks) : ~Unfinished(c) /\ ~Failed(c)
    /\ CombinedStatus(ci.status) \notin {"failing", "pending"}
    /\ ci.checks # <<>> \/ CombinedStatus(ci.status) = "passing"

\* Over a watch: reworks are announced no oftener than retries allow, and every failing
\* summary beyond them is urgent; a merge is announced last, on checks that passed, a
\* review that approved, and with nothing found against it.
WatchSound(answers, reactions, watches) ==
  LET sent == Last(watches).sent
      Sent(kind) == Cardinality({i \in DOMAIN sent : sent[i] = kind})
      seen == {i \in DOMAIN answers : /\ watches[i].watched /\ answers[i].listed
                                      /\ answers[i].state = "open"
                                      /\ answers[i].fails \notin {"detect", "state", "ci"}}
      red  == {i \in seen : CISummary(answers[i].ci) = "failing"}
  IN  /\ reactions.ci # NoReaction =>
           /\ Sent("ci: rework") + Sent("ci: attention") + Sent("ci: urgent") = Cardinality(red)
           /\ Sent("ci: rework") <= reactions.ci.retries
           /\ Cardinality(red) > reactions.ci.retries => Sent("ci: urgent") = Cardinality(red) - reactions.ci.retries
      /\ Sent("review: rework") <= reactions.review.retries
      /\ "merge: done" \in ToSet(sent) =>
           /\ Last(sent) = "merge: done"
           /\ \E i \in seen : /\ ~watches[i + 1].watched
                              /\ CISummary(answers[i].ci) = "passing"
                              /\ CISummary(answers[i].ciAgain) \notin {"failing", "pending"}
                              /\ ReviewDecision(answers[i].reviews, answers[i].requested) = "approved"
=============================================================================
