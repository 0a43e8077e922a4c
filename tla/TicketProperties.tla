---------------------------- MODULE TicketProperties ----------------------------
\* What the ticket workflow promises.
EXTENDS TicketFlow

Tasks(seq, stage) == {n \in DOMAIN seq : seq[n].stage = stage}
Asked(stage) == Cardinality(Tasks(queue, stage)) + Cardinality(Tasks(runs, stage))
Moves == {n \in DOMAIN acts : acts[n] = "moves"}

\* A developer works once for each time somebody moves the ticket to its state, however
\* often Linear sends the webhook, edits the ticket or reports the workflow's own moves.
WorkWasAsked == Asked("developer") <= Cardinality(Moves)

\* Whatever developers have pushed to a branch when its pull request is opened was
\* there when qa worked on it, however developer and qa runs of the ticket overlap.
PullRequestsChecked ==
  [][\A b \in open' \ open : \A n \in DOMAIN commits'[b] :
       commits'[b][n] = "developer" => n <= checked'[b]]_vars

\* A ticket is done only once a pull request for it has been merged.
DoneMeansMerged == ticket.state = "done" => \E b \in Titles : merged[b] > 0

\* A ticket that is moved to its developer state and left alone reaches its final state
\* when nothing outside goes wrong: each stage's own change to Linear or GitHub starts
\* the next.
ReachesDone ==
  [](faults = 0 /\ Len(acts) <= 1) => (ticket.state = "todo" ~> ticket.state = "done")
=============================================================================
