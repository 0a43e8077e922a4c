-------------------------- MODULE TicketFlow_proofs --------------------------
(* Type correctness of TicketFlow, that a developer works once for each move of *)
(* the ticket, that a pull request shows nothing qa has not had before it, and  *)
(* that a ticket is done only after a merge, for any number of titles, slots,   *)
(* runs, webhooks and faults.                                                   *)
EXTENDS TicketProperties, FiniteSetTheorems, SequenceTheorems, TLAPS

USE BoundsAssumption

-----------------------------------------------------------------------------
(* Types.                                                                     *)

States == {"backlog", "todo", "review", "done"}
Phases == {"starting", "working", "finalizing", "opened", "found", "mergeable", "merged",
           "completed", "failed"}

Body == [event : {"Issue.update", "pull_request"}, from : States \cup {None},
         to : States \cup {None}, branch : Titles \cup {None}]
Hook == [id : Nat, event : {"Issue.update", "pull_request"}, from : States \cup {None},
         to : States \cup {None}, branch : Titles \cup {None}]
TaskType == [stage : Stages, branch : Titles \cup {None}]
Run == [stage : Stages, branch : Titles \cup {None}, phase : Phases, base : Nat, ahead : BOOLEAN]

\* A run has its branch once it has been prepared.
Prepared(r) == r.phase \notin {"starting", "failed"} => r.branch \in Titles

TypeInv ==
  /\ ticket \in [state : States, title : Titles]
  /\ commits \in [Titles -> Seq(Stages)]
  /\ open \subseteq Titles
  /\ merged \in [Titles -> Nat] /\ checked \in [Titles -> Nat]
  /\ hooks \subseteq Hook /\ sent \in Nat /\ seen \subseteq Nat
  /\ queue \in Seq(TaskType)
  /\ runs \in Seq(Run) /\ \A i \in DOMAIN runs : Prepared(runs[i])
  /\ acts \in Seq({"moves", "renames"})
  /\ faults \in 0 .. MaxFaults

-----------------------------------------------------------------------------
(* WorkWasAsked.  What still awaits its webhook counts as work.               *)

\* A webhook that asks for a developer.
AsksDeveloper(h) == h.event = "Issue.update" /\ h.from # None /\ h.to = "todo"
Awaited == {h \in hooks : h.id \notin seen /\ AsksDeveloper(h)}

HooksNumbered ==
  /\ IsFiniteSet(hooks)
  /\ \A h \in hooks : h.id <= sent
  /\ \A n \in seen : n <= sent
  /\ \A g, h \in hooks : g.id = h.id => g = h
AskInv ==
  /\ HooksNumbered
  /\ Cardinality(Awaited) + Asked("developer") <= Cardinality(Moves)

-----------------------------------------------------------------------------
(* PullRequestsChecked.                                                       *)

\* What a qa run that has done its work has fetched or pushed of its branch.
CheckedUpTo(r) ==
  \A n \in 1 .. r.base : commits[r.branch][n] = "developer" => n <= checked[r.branch]

BaseHolds(r) ==
  /\ r.phase \in {"working", "finalizing"} => r.base <= Len(commits[r.branch])
  /\ r.phase = "finalizing" /\ r.stage = "qa" => CheckedUpTo(r)
BaseInv == \A i \in DOMAIN runs : BaseHolds(runs[i])

-----------------------------------------------------------------------------
(* DoneMeansMerged.                                                           *)

SomeMerged == \E b \in Titles : merged[b] > 0
MergeInv ==
  /\ \A b \in open : commits[b] # <<>>
  /\ \A i \in DOMAIN runs : runs[i].phase = "merged" => SomeMerged
  /\ DoneMeansMerged

-----------------------------------------------------------------------------
(* Counting the tasks of a sequence.                                          *)

\* The tasks of one stage are finitely many.
LEMMA TasksFinite ==
  ASSUME NEW S, NEW s \in Seq(S), NEW g
  PROVE  /\ Tasks(s, g) \subseteq 1 .. Len(s)
         /\ IsFiniteSet(Tasks(s, g)) /\ Cardinality(Tasks(s, g)) \in Nat
<1>1. Len(s) \in Nat /\ DOMAIN s = 1 .. Len(s)
  BY LenProperties
<1>2. Tasks(s, g) \subseteq 1 .. Len(s)
  BY <1>1 DEF Tasks
<1>3. IsFiniteSet(1 .. Len(s))
  BY <1>1, FS_Interval
<1>4. QED
  BY <1>2, <1>3, FS_Subset, FS_CardinalityType

\* One more task is counted for its stage.
LEMMA TasksAppend ==
  ASSUME NEW S, NEW s \in Seq(S), NEW e \in S, NEW g
  PROVE  Cardinality(Tasks(Append(s, e), g))
           = IF e.stage = g THEN Cardinality(Tasks(s, g)) + 1 ELSE Cardinality(Tasks(s, g))
<1>1. /\ Len(s) \in Nat /\ DOMAIN s = 1 .. Len(s)
      /\ DOMAIN Append(s, e) = 1 .. (Len(s) + 1)
      /\ \A n \in 1 .. Len(s) : Append(s, e)[n] = s[n]
      /\ Append(s, e)[Len(s) + 1] = e
  BY LenProperties, AppendProperties
<1>2. Tasks(Append(s, e), g) = IF e.stage = g THEN Tasks(s, g) \cup {Len(s) + 1} ELSE Tasks(s, g)
  BY <1>1 DEF Tasks
<1>3. Len(s) + 1 \notin Tasks(s, g) /\ IsFiniteSet(Tasks(s, g))
  BY <1>1, TasksFinite
<1>4. QED
  BY <1>2, <1>3, FS_AddElement

\* A task that is taken from the queue is no longer counted.
LEMMA TasksTail ==
  ASSUME NEW S, NEW s \in Seq(S), s # <<>>, NEW g
  PROVE  Cardinality(Tasks(s, g))
           = IF Head(s).stage = g THEN Cardinality(Tasks(Tail(s), g)) + 1
             ELSE Cardinality(Tasks(Tail(s), g))
<1> DEFINE T == Tasks(Tail(s), g)
           U == Tasks(s, g) \ {1}
           f == [n \in T |-> n + 1]
<1>1. /\ Len(s) \in Nat \ {0} /\ DOMAIN s = 1 .. Len(s) /\ Head(s) = s[1]
      /\ DOMAIN Tail(s) = 1 .. (Len(s) - 1)
      /\ \A n \in 1 .. (Len(s) - 1) : Tail(s)[n] = s[n + 1]
  BY LenProperties, HeadTailProperties, EmptySeq
<1>2. \A n \in T : n \in 1 .. (Len(s) - 1) /\ n + 1 \in U
  BY <1>1 DEF Tasks
<1>3. \A m \in U : m - 1 \in T /\ m = (m - 1) + 1
  BY <1>1 DEF Tasks
<1>4. f \in Bijection(T, U)
  <2>1. f \in [T -> U]
    BY <1>2
  <2>2. \A a, b \in T : f[a] = f[b] => a = b
    BY <1>2
  <2>3. \A m \in U : \E n \in T : f[n] = m
    BY <1>3
  <2>4. QED
    <3> HIDE DEF f, T, U
    <3> QED
      BY <2>1, <2>2, <2>3 DEF Bijection, Injection, Surjection, IsInjective
<1>5. IsFiniteSet(T) /\ Cardinality(T) \in Nat
  BY TasksFinite, HeadTailProperties
<1>6. Cardinality(U) = Cardinality(T)
  <2> HIDE DEF f, T, U
  <2> QED
    BY <1>4, <1>5, FS_Bijection DEF ExistsBijection
<1>7. IsFiniteSet(Tasks(s, g)) /\ Cardinality(Tasks(s, g)) \in Nat
  BY TasksFinite
<1>8. (1 \in Tasks(s, g)) = (Head(s).stage = g)
  BY <1>1 DEF Tasks
<1>9. Cardinality(U) = IF 1 \in Tasks(s, g) THEN Cardinality(Tasks(s, g)) - 1
                       ELSE Cardinality(Tasks(s, g))
  BY <1>7, FS_RemoveElement
<1>10. QED
  BY <1>5, <1>6, <1>7, <1>8, <1>9

\* A run that goes on stays in its stage.
LEMMA TasksExcept ==
  ASSUME NEW S, NEW s \in Seq(S), NEW i \in DOMAIN s, NEW e \in S, e.stage = s[i].stage, NEW g
  PROVE  Tasks([s EXCEPT ![i] = e], g) = Tasks(s, g)
<1>1. /\ i \in 1 .. Len(s) /\ DOMAIN s = 1 .. Len(s)
      /\ DOMAIN [s EXCEPT ![i] = e] = DOMAIN s
      /\ \A n \in 1 .. Len(s) : [s EXCEPT ![i] = e][n] = IF n = i THEN e ELSE s[n]
  BY LenProperties, ExceptSeq
<1>2. QED
  BY <1>1 DEF Tasks

\* The moves people have made are finitely many, and each one more counts.
LEMMA MovesCounted ==
  ASSUME TypeInv, NEW a \in {"moves", "renames"}
  PROVE  /\ IsFiniteSet(Moves) /\ Cardinality(Moves) \in Nat
         /\ acts' = Append(acts, a)
              => Cardinality(Moves') = IF a = "moves" THEN Cardinality(Moves) + 1
                                       ELSE Cardinality(Moves)
<1>1. acts \in Seq({"moves", "renames"})
  BY DEF TypeInv
<1>2. /\ Len(acts) \in Nat /\ DOMAIN acts = 1 .. Len(acts)
      /\ DOMAIN Append(acts, a) = 1 .. (Len(acts) + 1)
      /\ \A n \in 1 .. Len(acts) : Append(acts, a)[n] = acts[n]
      /\ Append(acts, a)[Len(acts) + 1] = a
  BY <1>1, LenProperties, AppendProperties
<1>3. Moves \subseteq 1 .. Len(acts)
  BY <1>2 DEF Moves
<1>4. IsFiniteSet(Moves) /\ Cardinality(Moves) \in Nat /\ Len(acts) + 1 \notin Moves
  <2>1. IsFiniteSet(1 .. Len(acts))
    BY <1>2, FS_Interval
  <2>2. Len(acts) + 1 \notin Moves
    BY <1>2, <1>3
  <2>3. QED
    BY <2>1, <2>2, <1>3, FS_Subset, FS_CardinalityType
<1>5. ASSUME acts' = Append(acts, a)
      PROVE  Moves' = IF a = "moves" THEN Moves \cup {Len(acts) + 1} ELSE Moves
  BY <1>2, <1>5 DEF Moves
<1>6. QED
  BY <1>4, <1>5, FS_AddElement

-----------------------------------------------------------------------------
(* What one step of a run does.                                               *)

\* A run that goes on: it keeps its stage, takes no task and moves nobody's ticket to
\* the developer state.
RunGoesOn(i) ==
  /\ \E r \in Run : Prepared(r) /\ r.stage = runs[i].stage /\ runs' = [runs EXCEPT ![i] = r]
  /\ UNCHANGED <<seen, queue, acts>>
  /\ \/ UNCHANGED <<hooks, sent>>
     \/ \E h \in Body : ~AsksDeveloper(h) /\ Sends(h)
RemoteType ==
  /\ ticket \in [state : States, title : Titles]
  /\ commits \in [Titles -> Seq(Stages)]
  /\ open \subseteq Titles
  /\ merged \in [Titles -> Nat] /\ checked \in [Titles -> Nat]
  /\ faults \in 0 .. MaxFaults

\* What is known of a run that has been dispatched.
LEMMA RunFacts ==
  ASSUME TypeInv, NEW i \in DOMAIN runs
  PROVE  /\ runs[i] \in Run /\ Prepared(runs[i])
         /\ runs[i].stage \in Stages /\ runs[i].branch \in Titles \cup {None}
         /\ runs[i].phase \in Phases /\ runs[i].base \in Nat /\ runs[i].ahead \in BOOLEAN
<1>1. runs \in Seq(Run) /\ Prepared(runs[i])
  BY DEF TypeInv
<1>2. i \in 1 .. Len(runs)
  BY <1>1, LenProperties
<1>3. runs[i] \in Run
  BY <1>1, <1>2, ElementOfSeq
<1>4. QED
  BY <1>1, <1>3 DEF Run

\* A run that only changes its phase.
LEMMA RunBecomes ==
  ASSUME TypeInv, NEW i \in DOMAIN runs, NEW phase \in Phases, Becomes(i, phase),
         phase \in {"starting", "failed"} \/ runs[i].branch \in Titles
  PROVE  \E r \in Run : Prepared(r) /\ r.stage = runs[i].stage /\ runs' = [runs EXCEPT ![i] = r]
<1> DEFINE r == [runs[i] EXCEPT !.phase = phase]
<1>1. runs[i] \in Run
  BY RunFacts
<1>2. r \in Run /\ Prepared(r) /\ r.stage = runs[i].stage
  BY <1>1 DEF Run, Prepared
<1>3. runs' = [runs EXCEPT ![i] = r]
  BY DEF Becomes
<1>4. QED
  BY <1>2, <1>3

\* A workflow move of a ticket is no request for a developer.
LEMMA MovesOn ==
  ASSUME TypeInv, NEW state \in {"review", "done"}, MovesTo(state)
  PROVE  /\ ticket' \in [state : States, title : Titles]
         /\ ticket'.state = state /\ ticket'.title = ticket.title
         /\ \/ UNCHANGED <<hooks, sent>>
            \/ \E h \in Body : ~AsksDeveloper(h) /\ Sends(h)
<1>1. ticket \in [state : States, title : Titles] /\ ticket.state \in States
  BY DEF TypeInv
<1>2. ticket' = [ticket EXCEPT !.state = state] /\ state \in States
  BY DEF MovesTo, States
<1>3. StateHook(ticket.state, state) \in Body /\ ~AsksDeveloper(StateHook(ticket.state, state))
  BY <1>1, <1>2 DEF StateHook, Body, AsksDeveloper
<1>4. QED
  BY <1>1, <1>2, <1>3 DEF MovesTo

\* Nor is what happens to a pull request.
LEMMA PrHookFacts ==
  ASSUME NEW b \in Titles
  PROVE  PrHook(b) \in Body /\ ~AsksDeveloper(PrHook(b))
BY DEF PrHook, Body, AsksDeveloper

\* Prepares: the run gets its branch, or fails without one.
LEMMA PreparesGoes ==
  ASSUME TypeInv, NEW i \in DOMAIN runs, Prepares(i)
  PROVE  RunGoesOn(i) /\ RemoteType'
<1> DEFINE branch == BranchOf(runs[i])
           r == [runs[i] EXCEPT !.phase = "working", !.branch = branch,
                                !.base = Len(commits[branch])]
<1>1. runs[i] \in Run /\ runs[i].branch \in Titles \cup {None}
  BY RunFacts
<1>2. branch \in Titles
  BY <1>1 DEF BranchOf, TypeInv
<1>3. Len(commits[branch]) \in Nat
  BY <1>2, LenProperties DEF TypeInv
<1>4. r \in Run /\ Prepared(r) /\ r.stage = runs[i].stage
  BY <1>1, <1>2, <1>3 DEF Run, Prepared, Phases
<1>5. \E q \in Run : Prepared(q) /\ q.stage = runs[i].stage /\ runs' = [runs EXCEPT ![i] = q]
  <2>1. CASE Becomes(i, "failed")
    BY <2>1, RunBecomes DEF Phases
  <2>2. CASE runs' = [runs EXCEPT ![i] = r]
    BY <2>2, <1>4
  <2>3. runs' = [runs EXCEPT ![i] = r] \/ Becomes(i, "failed")
    BY DEF Prepares
  <2>4. QED
    BY <2>1, <2>2, <2>3
<1>6. UNCHANGED <<ticket, remote, inbox, queue, acts, faults>>
  BY DEF Prepares
<1>7. QED
  BY <1>5, <1>6 DEF RunGoesOn, RemoteType, TypeInv, remote, inbox

\* Works: the agent's commit and its push.
LEMMA WorksGoes ==
  ASSUME TypeInv, NEW i \in DOMAIN runs, NEW changes \in BOOLEAN, Works(i, changes)
  PROVE  RunGoesOn(i) /\ RemoteType'
<1> DEFINE b == runs[i].branch
           q == [runs[i] EXCEPT !.phase = "finalizing", !.base = @ + 1]
           r == [runs[i] EXCEPT !.phase = "finalizing", !.ahead = TRUE]
           t == [runs[i] EXCEPT !.phase = "finalizing", !.ahead = changes]
<1>1. /\ runs[i] \in Run /\ b \in Titles /\ runs[i].base \in Nat /\ runs[i].stage \in Stages
      /\ runs[i].phase = "working"
  BY RunFacts DEF Works, Prepared
<1>2. /\ q \in Run /\ Prepared(q) /\ q.stage = runs[i].stage
      /\ r \in Run /\ Prepared(r) /\ r.stage = runs[i].stage
      /\ t \in Run /\ Prepared(t) /\ t.stage = runs[i].stage
  <2>1. q \in Run /\ Prepared(q) /\ q.stage = runs[i].stage
    <3>1. PICK n \in Nat : n = runs[i].base + 1
      BY <1>1
    <3>2. q = [runs[i] EXCEPT !.phase = "finalizing", !.base = n]
      BY <1>1, <3>1 DEF Run
    <3>3. QED
      BY <1>1, <3>2 DEF Run, Prepared, Phases
  <2>2. r \in Run /\ Prepared(r) /\ r.stage = runs[i].stage
    BY <1>1 DEF Run, Prepared, Phases
  <2>3. t \in Run /\ Prepared(t) /\ t.stage = runs[i].stage
    BY <1>1 DEF Run, Prepared, Phases
  <2>4. QED
    BY <2>1, <2>2, <2>3
<1>3. \/ /\ Pushes(b, runs[i].stage) /\ runs' = [runs EXCEPT ![i] = q] /\ UNCHANGED faults
      \/ /\ runs' = [runs EXCEPT ![i] = r] /\ faults < MaxFaults /\ faults' = faults + 1
         /\ UNCHANGED <<commits, hooks, sent>>
      \/ /\ runs' = [runs EXCEPT ![i] = t] /\ UNCHANGED <<commits, hooks, sent, faults>>
  BY DEF Works
<1>4. \E p \in Run : Prepared(p) /\ p.stage = runs[i].stage /\ runs' = [runs EXCEPT ![i] = p]
  <2> HIDE DEF q, r, t
  <2> QED
    BY <1>2, <1>3
<1>5. commits' \in [Titles -> Seq(Stages)]
  <2>1. Append(commits[b], runs[i].stage) \in Seq(Stages)
    BY <1>1, AppendProperties DEF TypeInv
  <2>2. Pushes(b, runs[i].stage) => commits' = [commits EXCEPT ![b] = Append(@, runs[i].stage)]
    BY DEF Pushes
  <2>3. QED
    BY <1>3, <2>1, <2>2 DEF TypeInv
<1>6. UNCHANGED <<hooks, sent>> \/ \E h \in Body : ~AsksDeveloper(h) /\ Sends(h)
  BY <1>1, <1>3, PrHookFacts DEF Pushes
<1>7. checked' \in [Titles -> Nat]
  BY <1>1 DEF Works, TypeInv
<1>8. faults' \in 0 .. MaxFaults
  BY <1>3 DEF TypeInv
<1>9. UNCHANGED <<ticket, open, merged, seen, queue, acts>>
  BY DEF Works
<1>10. QED
  BY <1>4, <1>5, <1>6, <1>7, <1>8, <1>9 DEF RunGoesOn, RemoteType, TypeInv

\* The end of a developer run.
LEMMA FinishesDeveloperGoes ==
  ASSUME TypeInv, NEW i \in DOMAIN runs, FinishesDeveloper(i)
  PROVE  RunGoesOn(i) /\ RemoteType'
<1>1. MovesTo("review") /\ Becomes(i, "completed") /\ UNCHANGED <<remote, seen, queue, acts, faults>>
  BY DEF FinishesDeveloper, TargetOf
<1>2. runs[i].branch \in Titles
  BY RunFacts DEF FinishesDeveloper, Prepared
<1>3. QED
  BY <1>1, <1>2, MovesOn, RunBecomes DEF RunGoesOn, RemoteType, TypeInv, remote, Phases

\* The end of a qa run.
LEMMA FinishesQaGoes ==
  ASSUME TypeInv, NEW i \in DOMAIN runs, FinishesQa(i)
  PROVE  RunGoesOn(i) /\ RemoteType'
<1>1. MovesTo("review") /\ Becomes(i, "completed") /\ UNCHANGED <<remote, seen, queue, acts, faults>>
  BY DEF FinishesQa, TargetOf
<1>2. runs[i].branch \in Titles
  BY RunFacts DEF FinishesQa, Prepared
<1>3. QED
  BY <1>1, <1>2, MovesOn, RunBecomes DEF RunGoesOn, RemoteType, TypeInv, remote, Phases

\* The end of a merge run.
LEMMA FinishesMergeGoes ==
  ASSUME TypeInv, NEW i \in DOMAIN runs, FinishesMerge(i)
  PROVE  RunGoesOn(i) /\ RemoteType'
<1>1. MovesTo("done") /\ Becomes(i, "completed") /\ UNCHANGED <<remote, seen, queue, acts, faults>>
  BY DEF FinishesMerge, TargetOf
<1>2. runs[i].branch \in Titles
  BY RunFacts DEF FinishesMerge, Prepared
<1>3. QED
  BY <1>1, <1>2, MovesOn, RunBecomes DEF RunGoesOn, RemoteType, TypeInv, remote, Phases

\* createPullRequest: a push and an open pull request.
LEMMA OpensGoes ==
  ASSUME TypeInv, NEW i \in DOMAIN runs, OpensPullRequest(i)
  PROVE  RunGoesOn(i) /\ RemoteType'
<1> DEFINE b == runs[i].branch
           now == IF runs[i].ahead THEN Append(commits[b], "qa") ELSE commits[b]
<1>1. b \in Titles /\ runs[i].phase = "finalizing"
  BY RunFacts DEF OpensPullRequest, Prepared
<1>2. now \in Seq(Stages)
  <2>1. commits[b] \in Seq(Stages) /\ "qa" \in Stages
    BY <1>1 DEF TypeInv, Stages
  <2>2. QED
    BY <2>1, AppendProperties
<1>3. UNCHANGED <<ticket, merged, checked, seen, queue, acts, faults>>
  BY DEF OpensPullRequest
<1>4. CASE Becomes(i, "failed") /\ UNCHANGED <<commits, open, hooks, sent>>
  BY <1>3, <1>4, RunBecomes DEF RunGoesOn, RemoteType, TypeInv, Phases
<1>5. CASE /\ Becomes(i, "opened")
           /\ commits' = [commits EXCEPT ![b] = now]
           /\ open' = IF Len(now) > merged[b] THEN open \cup {b} ELSE open
           /\ Sends(PrHook(b)) \/ UNCHANGED <<hooks, sent>>
  <2>1. commits' \in [Titles -> Seq(Stages)] /\ open' \subseteq Titles
    <3> HIDE DEF now
    <3> QED
      BY <1>1, <1>2, <1>5 DEF TypeInv
  <2>2. \E r \in Run : Prepared(r) /\ r.stage = runs[i].stage /\ runs' = [runs EXCEPT ![i] = r]
    BY <1>1, <1>5, RunBecomes DEF Phases
  <2>3. UNCHANGED <<hooks, sent>> \/ \E h \in Body : ~AsksDeveloper(h) /\ Sends(h)
    BY <1>1, <1>5, PrHookFacts
  <2>4. QED
    BY <1>3, <2>1, <2>2, <2>3 DEF RunGoesOn, RemoteType, TypeInv
<1>6. QED
  BY <1>4, <1>5 DEF OpensPullRequest

\* mergePR, and what else a merge run asks of GitHub before it.
LEMMA MergeGoes ==
  ASSUME TypeInv, NEW i \in DOMAIN runs,
         FindsPullRequest(i) \/ ChecksMergeability(i) \/ Merges(i) \/ RunFails(i)
  PROVE  RunGoesOn(i) /\ RemoteType'
<1>1. CASE FindsPullRequest(i)
  <2>1. runs[i].branch \in Titles
    BY <1>1, RunFacts DEF FindsPullRequest, Prepared
  <2>2. \E phase \in {"found", "failed"} : Becomes(i, phase)
    BY <1>1 DEF FindsPullRequest
  <2>3. \E r \in Run : Prepared(r) /\ r.stage = runs[i].stage /\ runs' = [runs EXCEPT ![i] = r]
    BY <2>1, <2>2, RunBecomes DEF Phases
  <2>4. UNCHANGED <<ticket, remote, inbox, queue, acts, faults>>
    BY <1>1 DEF FindsPullRequest
  <2>5. QED
    BY <2>3, <2>4 DEF RunGoesOn, RemoteType, TypeInv, remote, inbox
<1>2. CASE ChecksMergeability(i)
  <2>1. runs[i].branch \in Titles
    BY <1>2, RunFacts DEF ChecksMergeability, Prepared
  <2>2. \E phase \in {"mergeable", "failed"} : Becomes(i, phase)
    BY <1>2 DEF ChecksMergeability
  <2>3. \E r \in Run : Prepared(r) /\ r.stage = runs[i].stage /\ runs' = [runs EXCEPT ![i] = r]
    BY <2>1, <2>2, RunBecomes DEF Phases
  <2>4. /\ UNCHANGED <<ticket, remote, inbox, queue, acts>>
        /\ faults' \in 0 .. MaxFaults
    BY SMTT(30), <1>2 DEF ChecksMergeability, TypeInv
  <2>5. QED
    BY <2>3, <2>4 DEF RunGoesOn, RemoteType, TypeInv, remote, inbox
<1>3. CASE Merges(i)
  <2>1. runs[i].branch \in Titles
    BY <1>3, RunFacts DEF Merges, Prepared
  <2>2. \E phase \in {"merged", "failed"} : Becomes(i, phase)
    BY <1>3 DEF Merges
  <2>3. \E r \in Run : Prepared(r) /\ r.stage = runs[i].stage /\ runs' = [runs EXCEPT ![i] = r]
    BY <2>1, <2>2, RunBecomes DEF Phases
  <2>4. UNCHANGED <<ticket, commits, checked, inbox, queue, acts, faults>>
    BY <1>3 DEF Merges
  <2>5. Len(commits[runs[i].branch]) \in Nat
    BY <2>1, LenProperties DEF TypeInv
  <2>6. open' \subseteq Titles /\ merged' \in [Titles -> Nat]
    BY <1>3, <2>1, <2>5 DEF Merges, TypeInv
  <2>7. QED
    BY <2>3, <2>4, <2>6 DEF RunGoesOn, RemoteType, TypeInv, inbox
<1>4. CASE RunFails(i)
  <2>1. \E r \in Run : Prepared(r) /\ r.stage = runs[i].stage /\ runs' = [runs EXCEPT ![i] = r]
    BY <1>4, RunBecomes DEF RunFails, Phases
  <2>2. /\ UNCHANGED <<ticket, remote, inbox, queue, acts>>
        /\ faults' \in 0 .. MaxFaults
    BY <1>4 DEF RunFails, TypeInv
  <2>3. QED
    BY <2>1, <2>2 DEF RunGoesOn, RemoteType, TypeInv, remote, inbox
<1>5. QED
  BY <1>1, <1>2, <1>3, <1>4

\* Every step of a run.
LEMMA RunGoes ==
  ASSUME TypeInv, NEW i \in DOMAIN runs, RunSteps(i) \/ RunFails(i)
  PROVE  RunGoesOn(i) /\ RemoteType'
BY PreparesGoes, WorksGoes, FinishesDeveloperGoes, OpensGoes, FinishesQaGoes, MergeGoes,
   FinishesMergeGoes DEF RunSteps

\* What runs become of it.
LEMMA RunGoesFacts ==
  ASSUME TypeInv, NEW i \in DOMAIN runs, RunGoesOn(i)
  PROVE  /\ runs' \in Seq(Run) /\ DOMAIN runs' = DOMAIN runs
         /\ \A j \in DOMAIN runs' : Prepared(runs'[j])
         /\ \A j \in DOMAIN runs : j # i => runs'[j] = runs[j]
         /\ \A stage : Tasks(runs', stage) = Tasks(runs, stage)
<1>1. PICK r \in Run : Prepared(r) /\ r.stage = runs[i].stage /\ runs' = [runs EXCEPT ![i] = r]
  BY DEF RunGoesOn
<1>2. runs \in Seq(Run) /\ i \in 1 .. Len(runs) /\ DOMAIN runs = 1 .. Len(runs)
  BY LenProperties DEF TypeInv
<1>3. runs' \in Seq(Run) /\ DOMAIN runs' = DOMAIN runs
  BY <1>1, <1>2, ExceptSeq
<1>4. runs'[i] = r /\ \A j \in DOMAIN runs : j # i => runs'[j] = runs[j]
  BY <1>1, <1>2
<1>5. \A j \in DOMAIN runs' : Prepared(runs'[j])
  BY <1>1, <1>3, <1>4 DEF TypeInv
<1>6. \A stage : Tasks(runs', stage) = Tasks(runs, stage)
  <2> SUFFICES ASSUME NEW stage PROVE Tasks(runs', stage) = Tasks(runs, stage)
    OBVIOUS
  <2>1. runs \in Seq(Run) /\ i \in DOMAIN runs /\ r \in Run /\ r.stage = runs[i].stage
    BY <1>1, <1>2
  <2>2. Tasks([runs EXCEPT ![i] = r], stage) = Tasks(runs, stage)
    BY <2>1, TasksExcept
  <2>3. QED
    BY <1>1, <2>2
<1>7. QED
  BY <1>3, <1>4, <1>5, <1>6

-----------------------------------------------------------------------------
(* Webhooks, tasks and people.                                                *)

\* A webhook that is sent has a number of its own.
LEMMA SendsFacts ==
  ASSUME TypeInv, NEW h \in Body, Sends(h)
  PROVE  /\ hooks' \subseteq Hook /\ sent' = sent + 1 /\ sent' \in Nat
         /\ hooks' = hooks \cup {Identified(h, sent + 1)}
         /\ Identified(h, sent + 1).id = sent + 1
         /\ AsksDeveloper(Identified(h, sent + 1)) = AsksDeveloper(h)
<1>1. sent \in Nat /\ hooks \subseteq Hook
  BY DEF TypeInv
<1>2. PICK n \in Nat : n = sent + 1
  BY <1>1
<1>3. Identified(h, n) \in Hook /\ Identified(h, n).id = n
  BY <1>2 DEF Identified, Body, Hook
<1>4. AsksDeveloper(Identified(h, n)) = AsksDeveloper(h)
  BY DEF Identified, AsksDeveloper
<1>5. QED
  BY <1>1, <1>2, <1>3, <1>4 DEF Sends

\* What a webhook asks for.
LEMMA ResolvedFacts ==
  ASSUME NEW hook \in Hook
  PROVE  \/ Resolved(hook) = <<>>
         \/ \E t \in TaskType : /\ Resolved(hook) = <<t>>
                                /\ t.stage = "developer" => AsksDeveloper(hook)
<1>1. /\ hook.event \in {"Issue.update", "pull_request"} /\ hook.branch \in Titles \cup {None}
  BY DEF Hook
<1>2. CASE hook.event = "pull_request"
  <2>1. Resolved(hook) = <<Task("merge", hook.branch)>>
    BY <1>2 DEF Resolved, PullRequestTask
  <2>2. Task("merge", hook.branch) \in TaskType /\ Task("merge", hook.branch).stage # "developer"
    BY <1>1 DEF Task, TaskType, Stages
  <2>3. QED
    BY <2>1, <2>2
<1>3. CASE hook.event = "Issue.update"
  <2>1. Resolved(hook) = IF StateChanged(hook) /\ StageOf(hook.to) # None
                           THEN <<Task(StageOf(hook.to), None)>> ELSE <<>>
    BY <1>3 DEF Resolved, LinearTask
  <2>2. ASSUME StateChanged(hook), StageOf(hook.to) # None
        PROVE  /\ Task(StageOf(hook.to), None) \in TaskType
               /\ Task(StageOf(hook.to), None).stage = "developer" => AsksDeveloper(hook)
    BY <1>3, <2>2 DEF StageOf, Task, TaskType, Stages, StateChanged, AsksDeveloper
  <2>3. QED
    BY <2>1, <2>2
<1>4. QED
  BY <1>1, <1>2, <1>3

\* What the task of a webhook makes of the queue.
LEMMA QueueGrows ==
  ASSUME TypeInv, NEW hook \in Hook, queue' = queue \o Resolved(hook)
  PROVE  /\ queue' \in Seq(TaskType)
         /\ Cardinality(Tasks(queue', "developer"))
              <= IF AsksDeveloper(hook) THEN Cardinality(Tasks(queue, "developer")) + 1
                 ELSE Cardinality(Tasks(queue, "developer"))
<1>1. queue \in Seq(TaskType)
  BY DEF TypeInv
<1>2. Cardinality(Tasks(queue, "developer")) \in Nat
  BY <1>1, TasksFinite
<1>3. CASE Resolved(hook) = <<>>
  BY <1>1, <1>2, <1>3, ConcatEmptySeq
<1>4. ASSUME NEW t \in TaskType, Resolved(hook) = <<t>>, t.stage = "developer" => AsksDeveloper(hook)
      PROVE  /\ queue' \in Seq(TaskType)
             /\ Cardinality(Tasks(queue', "developer"))
                  <= IF AsksDeveloper(hook) THEN Cardinality(Tasks(queue, "developer")) + 1
                     ELSE Cardinality(Tasks(queue, "developer"))
  <2>1. queue' = Append(queue, t)
    BY <1>1, <1>4, AppendIsConcat
  <2>2. queue' \in Seq(TaskType)
    BY <1>1, <1>4, <2>1, AppendProperties
  <2>3. Cardinality(Tasks(queue', "developer"))
          = IF t.stage = "developer" THEN Cardinality(Tasks(queue, "developer")) + 1
            ELSE Cardinality(Tasks(queue, "developer"))
    <3>1. t \in TaskType
      BY <1>4
    <3>2. Cardinality(Tasks(Append(queue, t), "developer"))
            = IF t.stage = "developer" THEN Cardinality(Tasks(queue, "developer")) + 1
              ELSE Cardinality(Tasks(queue, "developer"))
      BY <1>1, <3>1, TasksAppend
    <3>3. QED
      BY <2>1, <3>2
  <2>4. QED
    BY <1>2, <1>4, <2>2, <2>3
<1>5. QED
  BY <1>3, <1>4, ResolvedFacts

\* A dispatch takes the head of the queue and counts the same work.
LEMMA DispatchFacts ==
  ASSUME TypeInv, Dispatches
  PROVE  /\ queue' \in Seq(TaskType) /\ runs' \in Seq(Run)
         /\ DOMAIN runs' = DOMAIN runs \cup {Len(runs) + 1} /\ Len(runs) + 1 \notin DOMAIN runs
         /\ \A j \in DOMAIN runs : runs'[j] = runs[j]
         /\ runs'[Len(runs) + 1].phase = "starting"
         /\ \A j \in DOMAIN runs' : Prepared(runs'[j])
         /\ Asked("developer")' = Asked("developer")
<1> DEFINE t == Head(queue)
           r == [stage |-> t.stage, branch |-> t.branch, phase |-> "starting",
                 base |-> 0, ahead |-> FALSE]
<1>1. /\ queue \in Seq(TaskType) /\ runs \in Seq(Run) /\ queue # <<>>
      /\ queue' = Tail(queue) /\ runs' = Append(runs, r)
  BY DEF TypeInv, Dispatches
<1>2. t \in TaskType /\ queue' \in Seq(TaskType)
  BY <1>1, HeadTailProperties
<1>3. r \in Run /\ Prepared(r) /\ r.stage = t.stage /\ r.phase = "starting"
  BY <1>2 DEF Run, TaskType, Phases, Prepared
<1>4. /\ Len(runs) \in Nat /\ DOMAIN runs = 1 .. Len(runs) /\ runs' \in Seq(Run)
      /\ DOMAIN runs' = 1 .. (Len(runs) + 1)
      /\ \A j \in 1 .. Len(runs) : runs'[j] = runs[j]
      /\ runs'[Len(runs) + 1] = r
  <2> HIDE DEF r
  <2> QED
    BY <1>1, <1>3, LenProperties, AppendProperties
<1>5. /\ Cardinality(Tasks(queue, "developer"))
            = IF t.stage = "developer" THEN Cardinality(Tasks(queue', "developer")) + 1
              ELSE Cardinality(Tasks(queue', "developer"))
      /\ Cardinality(Tasks(queue', "developer")) \in Nat
  BY <1>1, <1>2, TasksTail, TasksFinite
<1>6. /\ Cardinality(Tasks(runs', "developer"))
            = IF t.stage = "developer" THEN Cardinality(Tasks(runs, "developer")) + 1
              ELSE Cardinality(Tasks(runs, "developer"))
      /\ Cardinality(Tasks(runs, "developer")) \in Nat
  <2> HIDE DEF r
  <2> QED
    BY <1>1, <1>3, TasksAppend, TasksFinite
<1>7. Asked("developer")' = Asked("developer")
  BY <1>5, <1>6 DEF Asked
<1>8. ASSUME NEW j \in DOMAIN runs' PROVE Prepared(runs'[j])
  <2> HIDE DEF r
  <2>1. CASE j = Len(runs) + 1
    BY <1>3, <1>4, <2>1
  <2>2. CASE j \in 1 .. Len(runs)
    BY <1>4, <2>2 DEF TypeInv
  <2>3. QED
    BY <1>4, <1>8, <2>1, <2>2
<1>9. QED
  BY <1>2, <1>3, <1>4, <1>7, <1>8

-----------------------------------------------------------------------------
(* Type correctness.                                                          *)

\* The initial states have their types.
LEMMA TypeInit == Init => TypeInv
BY DEF Init, TypeInv, States, Stages

\* What people do keeps the types.
LEMMA TypePeople ==
  ASSUME TypeInv, PersonMoves \/ \E title \in Titles : PersonRenames(title)
  PROVE  TypeInv'
<1>1. acts' \in Seq({"moves", "renames"})
  <2>1. acts \in Seq({"moves", "renames"})
    BY DEF TypeInv
  <2>2. acts' = Append(acts, "moves") \/ acts' = Append(acts, "renames")
    BY DEF PersonMoves, PersonRenames
  <2>3. QED
    BY SMTT(30), <2>1, <2>2, AppendProperties
<1>2. ticket \in [state : States, title : Titles] /\ ticket.state \in States
  BY DEF TypeInv
<1>3. UNCHANGED <<remote, seen, queue, runs, faults>>
  BY DEF PersonMoves, PersonRenames
<1>4. ticket' \in [state : States, title : Titles]
  BY <1>2 DEF PersonMoves, PersonRenames, MovesTo, States
<1>5. \E h \in Body : Sends(h)
  <2>1. CASE PersonMoves
    <3>1. StateHook(ticket.state, "todo") \in Body
      BY <1>2 DEF StateHook, Body, States
    <3>2. Sends(StateHook(ticket.state, "todo"))
      BY <2>1 DEF PersonMoves, MovesTo
    <3>3. QED
      BY <3>1, <3>2
  <2>2. CASE \E title \in Titles : PersonRenames(title)
    <3>1. EditHook \in Body
      BY <1>2 DEF EditHook, Body
    <3>2. QED
      BY <2>2, <3>1 DEF PersonRenames
  <2>3. QED
    BY <2>1, <2>2
<1>6. hooks' \subseteq Hook /\ sent' \in Nat
  BY <1>5, SendsFacts
<1>7. QED
  BY <1>1, <1>3, <1>4, <1>6 DEF TypeInv, remote

\* And so do the webhooks and the dispatch controller,
LEMMA TypeController ==
  ASSUME TypeInv,
         Dispatches \/ \E hook \in hooks : HookIsLost(hook) \/ \E again \in BOOLEAN : HandlesHook(hook, again)
  PROVE  TypeInv'
<1>1. CASE Dispatches
  BY <1>1, DispatchFacts DEF TypeInv, Dispatches, remote, inbox
<1>2. ASSUME NEW hook \in hooks, HookIsLost(hook) PROVE TypeInv'
  BY <1>2 DEF TypeInv, HookIsLost, remote
<1>3. ASSUME NEW hook \in hooks, NEW again \in BOOLEAN, HandlesHook(hook, again) PROVE TypeInv'
  <2>1. hook \in Hook /\ hook.id \in Nat
    BY <1>3 DEF TypeInv, Hook
  <2>2. queue' \in Seq(TaskType)
    <3>1. queue' = queue \/ queue' = queue \o Resolved(hook)
      BY <1>3 DEF HandlesHook
    <3>2. QED
      BY <2>1, <3>1, QueueGrows DEF TypeInv
  <2>3. hooks' \subseteq Hook /\ seen' \subseteq Nat /\ faults' \in 0 .. MaxFaults
    BY SMTT(30), <1>3, <2>1 DEF TypeInv, HandlesHook
  <2>4. UNCHANGED <<ticket, remote, sent, runs, acts>>
    BY <1>3 DEF HandlesHook
  <2>5. QED
    BY <2>2, <2>3, <2>4 DEF TypeInv, remote
<1>4. QED
  BY <1>1, <1>2, <1>3

\* and the runs.
LEMMA TypeRuns ==
  ASSUME TypeInv, NEW i \in DOMAIN runs, RunSteps(i) \/ RunFails(i)
  PROVE  TypeInv'
<1>1. RunGoesOn(i) /\ RemoteType'
  BY RunGoes
<1>2. runs' \in Seq(Run) /\ \A j \in DOMAIN runs' : Prepared(runs'[j])
  BY <1>1, RunGoesFacts
<1>3. hooks' \subseteq Hook /\ sent' \in Nat
  BY <1>1, SendsFacts DEF RunGoesOn, TypeInv
<1>4. QED
  BY <1>1, <1>2, <1>3 DEF RunGoesOn, RemoteType, TypeInv

\* Every step keeps the types.
LEMMA TypeNext == TypeInv /\ [Next]_vars => TypeInv'
<1> SUFFICES ASSUME TypeInv, [Next]_vars PROVE TypeInv'
  OBVIOUS
<1>1. CASE UNCHANGED vars
  BY <1>1 DEF TypeInv, vars, Prepared
<1>2. CASE Next
  BY <1>2, TypePeople, TypeController, TypeRuns DEF Next
<1>3. QED
  BY <1>1, <1>2

\* In every state that the ticket's workflow reaches, ticket, remote, webhooks, tasks
\* and runs have their types, and a run that has been prepared has its branch.
THEOREM TicketTypeCorrect == Spec => []TypeInv
BY TypeInit, TypeNext, PTL DEF Spec

-----------------------------------------------------------------------------
(* Why a developer works once for each move.                                  *)

\* The work and the moves are finite.
LEMMA WorkFinite ==
  ASSUME TypeInv, HooksNumbered
  PROVE  /\ IsFiniteSet(Awaited) /\ Cardinality(Awaited) \in Nat
         /\ Cardinality(Tasks(queue, "developer")) \in Nat
         /\ Cardinality(Tasks(runs, "developer")) \in Nat
         /\ Asked("developer") \in Nat /\ Cardinality(Moves) \in Nat
<1>1. IsFiniteSet(Awaited) /\ Cardinality(Awaited) \in Nat
  <2>1. Awaited \in SUBSET hooks
    BY DEF Awaited
  <2>2. QED
    BY <2>1, FS_Subset, FS_CardinalityType DEF HooksNumbered
<1>2. /\ Cardinality(Tasks(queue, "developer")) \in Nat
      /\ Cardinality(Tasks(runs, "developer")) \in Nat
  BY TasksFinite DEF TypeInv
<1>3. QED
  BY <1>1, <1>2, MovesCounted DEF Asked

\* So is the work after a step.
LEMMA AwaitedFinite ==
  ASSUME HooksNumbered'
  PROVE  Cardinality(Awaited') \in Nat
<1>1. Awaited' \in SUBSET hooks'
  BY DEF Awaited
<1>2. QED
  BY <1>1, FS_Subset, FS_CardinalityType DEF HooksNumbered

\* A webhook that is sent awaits its handling, when it asks for a developer.
LEMMA AskSends ==
  ASSUME TypeInv, HooksNumbered, NEW h \in Body, Sends(h), seen' = seen
  PROVE  /\ HooksNumbered'
         /\ Cardinality(Awaited') <= IF AsksDeveloper(h) THEN Cardinality(Awaited) + 1
                                     ELSE Cardinality(Awaited)
<1> DEFINE g == Identified(h, sent + 1)
<1>1. /\ sent' = sent + 1 /\ sent' \in Nat /\ hooks' = hooks \cup {g} /\ g.id = sent + 1
      /\ AsksDeveloper(g) = AsksDeveloper(h)
  BY SendsFacts
<1>2. sent \in Nat /\ seen \subseteq Nat /\ \A f \in hooks : f.id \in Nat /\ f.id <= sent
  BY DEF TypeInv, Hook, HooksNumbered
<1> HIDE DEF g
<1>3. HooksNumbered'
  <2>1. IsFiniteSet(hooks')
    BY <1>1, FS_AddElement DEF HooksNumbered
  <2>2. \A f \in hooks' : f.id <= sent'
    BY <1>1, <1>2
  <2>3. \A n \in seen' : n <= sent'
    <3>1. \A n \in seen : n \in Nat /\ n <= sent
      BY <1>2 DEF HooksNumbered
    <3>2. QED
      BY <1>1, <1>2, <3>1
  <2>4. \A e, f \in hooks' : e.id = f.id => e = f
    <3>1. \A f \in hooks : f.id # g.id
      BY <1>1, <1>2
    <3>2. QED
      BY <1>1, <3>1 DEF HooksNumbered
  <2>5. QED
    BY <2>1, <2>2, <2>3, <2>4 DEF HooksNumbered
<1>4. Awaited' \subseteq IF AsksDeveloper(h) THEN Awaited \cup {g} ELSE Awaited
  BY <1>1 DEF Awaited
<1>5. IsFiniteSet(Awaited) /\ Cardinality(Awaited) \in Nat
  BY WorkFinite
<1>6. CASE AsksDeveloper(h)
  <2>1. /\ IsFiniteSet(Awaited \cup {g})
        /\ Cardinality(Awaited \cup {g}) = IF g \in Awaited THEN Cardinality(Awaited)
                                           ELSE Cardinality(Awaited) + 1
    BY <1>5, FS_AddElement
  <2>2. Awaited' \in SUBSET (Awaited \cup {g})
    BY <1>4, <1>6
  <2>3. Cardinality(Awaited') <= Cardinality(Awaited \cup {g}) /\ Cardinality(Awaited') \in Nat
    BY <2>1, <2>2, FS_Subset, FS_CardinalityType
  <2>4. QED
    BY <1>3, <1>5, <1>6, <2>1, <2>3
<1>7. CASE ~AsksDeveloper(h)
  <2>1. Awaited' \in SUBSET Awaited
    BY <1>4, <1>7
  <2>2. QED
    BY <1>3, <1>5, <1>7, <2>1, FS_Subset
<1>8. QED
  BY <1>6, <1>7

\* Webhooks that are lost, handled or seen await no more.
LEMMA AskFewer ==
  ASSUME TypeInv, HooksNumbered, hooks' \subseteq hooks, sent' = sent,
         seen \subseteq seen', \A n \in seen' : n <= sent
  PROVE  /\ HooksNumbered'
         /\ Awaited' \subseteq Awaited /\ Cardinality(Awaited') <= Cardinality(Awaited)
<1>1. HooksNumbered'
  <2>1. IsFiniteSet(hooks')
    BY FS_Subset DEF HooksNumbered
  <2>2. QED
    BY <2>1 DEF HooksNumbered
<1>2. Awaited' \subseteq Awaited
  BY DEF Awaited
<1>3. QED
  BY <1>1, <1>2, WorkFinite, FS_Subset

\* At the start nobody has asked for anything.
LEMMA AskInit == Init => AskInv
<1> SUFFICES ASSUME Init PROVE AskInv
  OBVIOUS
<1>1. hooks = {} /\ seen = {} /\ queue = <<>> /\ runs = <<>> /\ acts = <<>>
  BY DEF Init
<1>2. Awaited = {} /\ Moves = {}
  BY <1>1 DEF Awaited, Moves
<1>3. Tasks(queue, "developer") = {} /\ Tasks(runs, "developer") = {}
  BY <1>1 DEF Tasks
<1>4. IsFiniteSet({}) /\ Cardinality({}) = 0
  BY FS_EmptySet
<1>5. Cardinality(Awaited) + Asked("developer") <= Cardinality(Moves)
  BY <1>2, <1>3, <1>4 DEF Asked
<1>6. HooksNumbered
  BY <1>1, <1>4 DEF HooksNumbered
<1>7. QED
  BY <1>5, <1>6 DEF AskInv

\* Every move of a person is counted, and nothing else a person does asks for work.
LEMMA AskPeople ==
  ASSUME TypeInv, AskInv, PersonMoves \/ \E title \in Titles : PersonRenames(title)
  PROVE  AskInv'
<1>1. HooksNumbered /\ Cardinality(Awaited) + Asked("developer") <= Cardinality(Moves)
  BY DEF AskInv
<1>2. seen' = seen /\ Asked("developer")' = Asked("developer")
  BY DEF PersonMoves, PersonRenames, Asked
<1>3. ticket.state \in States
  BY DEF TypeInv
<1>4. Cardinality(Awaited) \in Nat /\ Asked("developer") \in Nat /\ Cardinality(Moves) \in Nat
  BY <1>1, WorkFinite
<1>5. CASE PersonMoves
  <2> DEFINE h == StateHook(ticket.state, "todo")
  <2>1. h \in Body /\ Sends(h)
    BY <1>3, <1>5 DEF StateHook, Body, States, PersonMoves, MovesTo
  <2> HIDE DEF h
  <2>2. HooksNumbered' /\ Cardinality(Awaited') \in Int
                       /\ Cardinality(Awaited') <= Cardinality(Awaited) + 1
    <3>1. /\ HooksNumbered'
          /\ Cardinality(Awaited') <= IF AsksDeveloper(h) THEN Cardinality(Awaited) + 1
                                      ELSE Cardinality(Awaited)
      BY <1>1, <1>2, <2>1, AskSends
    <3>2. Cardinality(Awaited') \in Nat
      BY <3>1, AwaitedFinite
    <3>3. QED
      BY <1>4, <3>1, <3>2
  <2>3. Cardinality(Moves') = Cardinality(Moves) + 1
    BY <1>5, MovesCounted DEF PersonMoves
  <2>4. Cardinality(Awaited') + Asked("developer")' <= Cardinality(Moves')
    BY <1>1, <1>2, <1>4, <2>2, <2>3
  <2>5. QED
    BY <2>2, <2>4 DEF AskInv
<1>6. ASSUME NEW title \in Titles, PersonRenames(title) PROVE AskInv'
  <2> DEFINE h == EditHook
  <2>1. h \in Body /\ Sends(h) /\ ~AsksDeveloper(h)
    BY <1>3, <1>6 DEF EditHook, Body, AsksDeveloper, PersonRenames
  <2> HIDE DEF h
  <2>2. HooksNumbered' /\ Cardinality(Awaited') <= Cardinality(Awaited)
    BY <1>1, <1>2, <2>1, AskSends
  <2>3. Cardinality(Awaited') \in Nat
    BY <2>2, AwaitedFinite
  <2>4. Cardinality(Moves') = Cardinality(Moves)
    BY <1>6, MovesCounted DEF PersonRenames
  <2>5. Cardinality(Awaited') + Asked("developer")' <= Cardinality(Moves')
    BY <1>1, <1>2, <1>4, <2>2, <2>3, <2>4
  <2>6. QED
    BY <2>2, <2>5 DEF AskInv
<1>7. QED
  BY <1>5, <1>6

\* A webhook that is lost, or handled again, asks for nothing more; one that asks for a
\* developer is exchanged for its task.
LEMMA AskHooks ==
  ASSUME TypeInv, AskInv, NEW hook \in hooks,
         HookIsLost(hook) \/ \E again \in BOOLEAN : HandlesHook(hook, again)
  PROVE  AskInv'
<1>1. HooksNumbered /\ Cardinality(Awaited) + Asked("developer") <= Cardinality(Moves)
  BY DEF AskInv
<1>2. /\ IsFiniteSet(Awaited) /\ Cardinality(Awaited) \in Nat
      /\ Cardinality(Tasks(queue, "developer")) \in Nat
      /\ Cardinality(Tasks(runs, "developer")) \in Nat /\ Cardinality(Moves) \in Nat
  BY <1>1, WorkFinite
<1>3. /\ hooks' \subseteq hooks /\ sent' = sent /\ runs' = runs /\ acts' = acts
      /\ seen \subseteq seen' /\ seen' \subseteq seen \cup {hook.id}
  BY DEF HookIsLost, HandlesHook, inbox
<1>4. hook \in Hook /\ hook.id <= sent /\ \A n \in seen' : n <= sent
  BY <1>1, <1>3 DEF HooksNumbered, TypeInv
<1>5. HooksNumbered' /\ Awaited' \subseteq Awaited /\ Cardinality(Awaited') <= Cardinality(Awaited)
  BY <1>1, <1>3, <1>4, AskFewer
<1>6. /\ Tasks(runs, "developer")' = Tasks(runs, "developer") /\ Moves' = Moves
      /\ Cardinality(Awaited') \in Nat
  BY <1>3, <1>5, AwaitedFinite DEF Tasks, Moves
<1>7. CASE queue' = queue
  <2>1. Tasks(queue, "developer")' = Tasks(queue, "developer")
    BY <1>7 DEF Tasks
  <2>2. QED
    BY <1>1, <1>2, <1>5, <1>6, <2>1 DEF AskInv, Asked
<1>8. CASE hook.id \notin seen /\ queue' = queue \o Resolved(hook) /\ seen' = seen \cup {hook.id}
  <2>1. /\ queue' \in Seq(TaskType)
        /\ Cardinality(Tasks(queue', "developer"))
             <= IF AsksDeveloper(hook) THEN Cardinality(Tasks(queue, "developer")) + 1
                ELSE Cardinality(Tasks(queue, "developer"))
    BY <1>4, <1>8, QueueGrows
  <2>2. Cardinality(Tasks(queue', "developer")) \in Nat
    BY <2>1, TasksFinite
  <2>3. CASE AsksDeveloper(hook)
    <3>1. hook \in Awaited /\ hook \notin Awaited'
      BY <1>8, <2>3 DEF Awaited
    <3>2. Awaited' \in SUBSET (Awaited \ {hook})
      BY <1>5, <3>1
    <3>3. /\ IsFiniteSet(Awaited \ {hook})
          /\ Cardinality(Awaited \ {hook}) = Cardinality(Awaited) - 1
      BY <1>2, <3>1, FS_RemoveElement
    <3>4. Cardinality(Awaited') <= Cardinality(Awaited) - 1
      BY <3>2, <3>3, FS_Subset
    <3>5. /\ Cardinality(Awaited') + (Cardinality(Tasks(queue', "developer"))
                                       + Cardinality(Tasks(runs, "developer")))
                <= Cardinality(Moves)
      BY SMTT(30), <1>1, <1>2, <1>6, <2>1, <2>2, <2>3, <3>4 DEF Asked
    <3>6. QED
      BY <1>5, <1>6, <3>5 DEF AskInv, Asked
  <2>4. CASE ~AsksDeveloper(hook)
    <3>1. /\ Cardinality(Awaited') + (Cardinality(Tasks(queue', "developer"))
                                       + Cardinality(Tasks(runs, "developer")))
                <= Cardinality(Moves)
      BY <1>1, <1>2, <1>5, <1>6, <2>1, <2>2, <2>4 DEF Asked
    <3>2. QED
      BY <1>5, <1>6, <3>1 DEF AskInv, Asked
  <2>5. QED
    BY <2>3, <2>4
<1>9. QED
  BY <1>7, <1>8 DEF HookIsLost, HandlesHook

\* The controller moves a task from the queue to the runs.
LEMMA AskDispatch ==
  ASSUME TypeInv, AskInv, Dispatches
  PROVE  AskInv'
<1>1. UNCHANGED <<hooks, sent, seen, acts>>
  BY DEF Dispatches, inbox
<1>2. HooksNumbered' /\ Awaited' = Awaited /\ Moves' = Moves
  BY <1>1 DEF AskInv, HooksNumbered, Awaited, Moves
<1>3. Asked("developer")' = Asked("developer")
  BY DispatchFacts
<1>4. QED
  BY <1>2, <1>3 DEF AskInv

\* No run asks for a developer.
LEMMA AskRuns ==
  ASSUME TypeInv, AskInv, NEW i \in DOMAIN runs, RunSteps(i) \/ RunFails(i)
  PROVE  AskInv'
<1>1. RunGoesOn(i)
  BY RunGoes
<1>2. UNCHANGED <<seen, queue, acts>>
  BY <1>1 DEF RunGoesOn
<1>3. Asked("developer")' = Asked("developer") /\ Moves' = Moves
  <2>1. Tasks(runs', "developer") = Tasks(runs, "developer")
    BY <1>1, RunGoesFacts
  <2>2. QED
    BY <1>2, <2>1 DEF Asked, Moves, Tasks
<1>4. HooksNumbered
  BY DEF AskInv
<1>5. HooksNumbered' /\ Cardinality(Awaited') <= Cardinality(Awaited)
  <2>1. CASE UNCHANGED <<hooks, sent>>
    BY <1>2, <1>4, <2>1, AskFewer DEF HooksNumbered
  <2>2. CASE \E h \in Body : ~AsksDeveloper(h) /\ Sends(h)
    BY <1>2, <1>4, <2>2, AskSends
  <2>3. QED
    BY <1>1, <2>1, <2>2 DEF RunGoesOn
<1>6. /\ Cardinality(Awaited') \in Nat /\ Cardinality(Awaited) \in Nat
      /\ Asked("developer") \in Nat /\ Cardinality(Moves) \in Nat
  BY <1>4, <1>5, AwaitedFinite, WorkFinite
<1>7. Cardinality(Awaited') + Asked("developer")' <= Cardinality(Moves')
  <2>1. Cardinality(Awaited) + Asked("developer") <= Cardinality(Moves)
    BY DEF AskInv
  <2>2. QED
    BY <1>3, <1>5, <1>6, <2>1
<1>8. QED
  BY <1>5, <1>7 DEF AskInv

\* Every step keeps the account of the work.
LEMMA AskNext == TypeInv /\ AskInv /\ [Next]_vars => AskInv'
<1> SUFFICES ASSUME TypeInv, AskInv, [Next]_vars PROVE AskInv'
  OBVIOUS
<1>1. CASE UNCHANGED vars
  BY <1>1 DEF AskInv, HooksNumbered, Awaited, Asked, Tasks, Moves, vars
<1>2. CASE Next
  BY <1>2, AskPeople, AskHooks, AskDispatch, AskRuns DEF Next
<1>3. QED
  BY <1>1, <1>2

\* What has been asked for is within what the account allows.
LEMMA AskGives == TypeInv /\ AskInv => WorkWasAsked
<1> SUFFICES ASSUME TypeInv, AskInv PROVE WorkWasAsked
  OBVIOUS
<1>1. /\ Cardinality(Awaited) \in Nat /\ Asked("developer") \in Nat /\ Cardinality(Moves) \in Nat
      /\ Cardinality(Awaited) + Asked("developer") <= Cardinality(Moves)
  BY WorkFinite DEF AskInv
<1>2. QED
  BY <1>1 DEF WorkWasAsked

\* However webhooks are lost, sent again and delivered out of order, and whatever the
\* runs report to Linear, a developer is asked for at most once for each time somebody
\* has moved the ticket to the developer state.
THEOREM WorkIsAsked == Spec => []WorkWasAsked
<1>1. Spec => []AskInv
  BY AskInit, AskNext, TicketTypeCorrect, PTL DEF Spec
<1>2. QED
  BY <1>1, TicketTypeCorrect, AskGives, PTL

-----------------------------------------------------------------------------
(* What becomes of the branches.                                              *)

\* Branches only grow, and what qa has had before it is not forgotten.
BranchesGrow ==
  \A b \in Titles :
    /\ Len(commits[b]) \in Nat /\ Len(commits'[b]) \in Nat
    /\ Len(commits[b]) <= Len(commits'[b])
    /\ \A n \in 1 .. Len(commits[b]) : commits'[b][n] = commits[b][n]
    /\ checked[b] \in Nat /\ checked'[b] \in Nat /\ checked[b] <= checked'[b]

\* No branch is reset when a commit is pushed to one.
LEMMA CommitGrows ==
  ASSUME TypeInv, NEW b \in Titles, NEW stage \in Stages,
         commits' = [commits EXCEPT ![b] = Append(commits[b], stage)]
  PROVE  \A c \in Titles :
           /\ Len(commits[c]) \in Nat /\ Len(commits'[c]) \in Nat
           /\ Len(commits[c]) <= Len(commits'[c])
           /\ \A n \in 1 .. Len(commits[c]) : commits'[c][n] = commits[c][n]
<1>1. commits \in [Titles -> Seq(Stages)]
  BY DEF TypeInv
<1>2. SUFFICES ASSUME NEW c \in Titles
               PROVE  /\ Len(commits[c]) \in Nat /\ Len(commits'[c]) \in Nat
                      /\ Len(commits[c]) <= Len(commits'[c])
                      /\ \A n \in 1 .. Len(commits[c]) : commits'[c][n] = commits[c][n]
  OBVIOUS
<1>3. commits[c] \in Seq(Stages) /\ Len(commits[c]) \in Nat
  BY <1>1, LenProperties
<1>4. CASE c = b
  <2>1. commits'[c] = Append(commits[c], stage)
    BY <1>1, <1>4
  <2>2. /\ Len(Append(commits[c], stage)) = Len(commits[c]) + 1
        /\ \A n \in 1 .. Len(commits[c]) : Append(commits[c], stage)[n] = commits[c][n]
    BY <1>3, AppendProperties
  <2>3. QED
    BY <1>3, <2>1, <2>2
<1>5. CASE c # b
  BY <1>1, <1>3, <1>5
<1>6. QED
  BY <1>4, <1>5

\* Neither is one when nothing is pushed.
LEMMA CommitsStay ==
  ASSUME TypeInv, commits' = commits
  PROVE  \A c \in Titles :
           /\ Len(commits[c]) \in Nat /\ Len(commits'[c]) \in Nat
           /\ Len(commits[c]) <= Len(commits'[c])
           /\ \A n \in 1 .. Len(commits[c]) : commits'[c][n] = commits[c][n]
<1>1. \A c \in Titles : commits[c] \in Seq(Stages) /\ Len(commits[c]) \in Nat
  BY SMTT(30), LenProperties DEF TypeInv
<1>2. QED
  BY <1>1

\* Every step lets the branches grow.
LEMMA StepGrows ==
  ASSUME TypeInv, [Next]_vars
  PROVE  BranchesGrow
<1>1. CASE UNCHANGED <<commits, checked>>
  BY SMTT(30), <1>1, CommitsStay DEF BranchesGrow, TypeInv
<1>2. ASSUME NEW i \in DOMAIN runs, NEW changes \in BOOLEAN, Works(i, changes) PROVE BranchesGrow
  <2> DEFINE b == runs[i].branch
  <2>1. b \in Titles /\ runs[i].stage \in Stages /\ runs[i].base \in Nat
    BY <1>2, RunFacts DEF Works, Prepared
  <2>2. \/ commits' = [commits EXCEPT ![b] = Append(commits[b], runs[i].stage)]
        \/ commits' = commits
    BY <1>2 DEF Works, Pushes
  <2>3. \A c \in Titles : checked[c] \in Nat /\ checked'[c] \in Nat /\ checked[c] <= checked'[c]
    <3>1. checked \in [Titles -> Nat]
      BY DEF TypeInv
    <3>2. \/ checked' = checked
          \/ checked' = [checked EXCEPT ![b] = IF runs[i].base > checked[b] THEN runs[i].base
                                                 ELSE checked[b]]
      BY <1>2, <2>1, <3>1 DEF Works
    <3> HIDE DEF b
    <3>3. PICK k \in Nat : k = runs[i].base
      BY <2>1
    <3>4. \/ checked' = checked
          \/ checked' = [checked EXCEPT ![b] = IF k > checked[b] THEN k ELSE checked[b]]
      BY <3>2, <3>3
    <3>5. QED
      BY <2>1, <3>1, <3>4
  <2>4. QED
    BY <2>1, <2>2, <2>3, CommitGrows, CommitsStay DEF BranchesGrow
<1>3. ASSUME NEW i \in DOMAIN runs, OpensPullRequest(i) PROVE BranchesGrow
  <2> DEFINE b == runs[i].branch
  <2>1. b \in Titles /\ "qa" \in Stages
    BY <1>3, RunFacts DEF OpensPullRequest, Prepared, Stages
  <2>2. commits \in [Titles -> Seq(Stages)]
    BY DEF TypeInv
  <2>3. \/ commits' = commits
        \/ commits' = [commits EXCEPT ![b] = IF runs[i].ahead THEN Append(commits[b], "qa")
                                             ELSE commits[b]]
    BY <1>3 DEF OpensPullRequest
  <2>4. commits' = commits \/ commits' = [commits EXCEPT ![b] = Append(commits[b], "qa")]
    BY <2>1, <2>2, <2>3
  <2>5. checked' = checked
    BY <1>3 DEF OpensPullRequest
  <2>6. \A c \in Titles : checked[c] \in Nat /\ checked'[c] \in Nat /\ checked[c] <= checked'[c]
    BY <2>5 DEF TypeInv
  <2> HIDE DEF b
  <2>7. QED
    BY <2>1, <2>4, <2>6, CommitGrows, CommitsStay DEF BranchesGrow
<1>4. QED
  BY <1>1, <1>2, <1>3 DEF Next, RunSteps, vars, remote, PersonMoves, PersonRenames, HookIsLost,
     HandlesHook, Dispatches, Prepares, FinishesDeveloper, FinishesQa, FindsPullRequest,
     ChecksMergeability, Merges, FinishesMerge, RunFails

-----------------------------------------------------------------------------
(* Why what a pull request shows has been before qa.                          *)

\* What a run has fetched stays on its branch, and what qa has checked stays checked.
LEMMA BaseStays ==
  ASSUME BranchesGrow, NEW r \in Run, Prepared(r), BaseHolds(r)
  PROVE  BaseHolds(r)'
<1>1. r.base \in Nat
  BY DEF Run
<1>2. ASSUME r.phase \in {"working", "finalizing"}
      PROVE  /\ r.base <= Len(commits'[r.branch])
             /\ \A n \in 1 .. r.base : commits'[r.branch][n] = commits[r.branch][n]
  <2>1. r.branch \in Titles
    BY <1>2 DEF Prepared
  <2>2. /\ Len(commits[r.branch]) \in Nat /\ Len(commits'[r.branch]) \in Nat
        /\ Len(commits[r.branch]) <= Len(commits'[r.branch])
        /\ \A n \in 1 .. Len(commits[r.branch]) : commits'[r.branch][n] = commits[r.branch][n]
    BY <2>1 DEF BranchesGrow
  <2>3. r.base <= Len(commits[r.branch])
    BY <1>2 DEF BaseHolds
  <2>4. QED
    BY <1>1, <2>2, <2>3
<1>3. ASSUME r.phase = "finalizing", r.stage = "qa"
      PROVE  CheckedUpTo(r)'
  <2>1. CheckedUpTo(r) /\ r.branch \in Titles
    BY <1>3 DEF BaseHolds, Prepared
  <2>2. /\ checked[r.branch] \in Nat /\ checked'[r.branch] \in Nat
        /\ checked[r.branch] <= checked'[r.branch]
    BY <2>1 DEF BranchesGrow
  <2>3. ASSUME NEW n \in 1 .. r.base, commits'[r.branch][n] = "developer"
        PROVE  n <= checked'[r.branch]
    <3>1. commits[r.branch][n] = "developer"
      BY <1>2, <1>3, <2>3
    <3>2. n <= checked[r.branch]
      BY <2>1, <3>1 DEF CheckedUpTo
    <3>3. QED
      BY <1>1, <2>2, <3>2
  <2>4. QED
    BY <2>3 DEF CheckedUpTo
<1>4. QED
  BY <1>2, <1>3 DEF BaseHolds

\* The run that is prepared has fetched the whole branch.
LEMMA BasePrepares ==
  ASSUME TypeInv, NEW i \in DOMAIN runs, Prepares(i)
  PROVE  BaseHolds(runs[i])'
<1> DEFINE branch == BranchOf(runs[i])
           r == [runs[i] EXCEPT !.phase = "working", !.branch = branch,
                                !.base = Len(commits[branch])]
<1>1. runs[i] \in Run /\ runs[i].branch \in Titles \cup {None} /\ commits' = commits
  BY RunFacts DEF Prepares, remote
<1>2. branch \in Titles
  BY <1>1 DEF BranchOf, TypeInv
<1>3. Len(commits[branch]) \in Nat
  BY <1>2, LenProperties DEF TypeInv
<1>4. CASE Becomes(i, "failed")
  <2>1. runs'[i].phase = "failed"
    BY <1>1, <1>4 DEF Becomes, Run
  <2>2. QED
    BY <2>1 DEF BaseHolds
<1>5. CASE runs' = [runs EXCEPT ![i] = r]
  <2>1. /\ runs'[i].phase = "working" /\ runs'[i].branch = branch
        /\ runs'[i].base = Len(commits[branch])
    BY <1>1, <1>5 DEF Run
  <2>2. QED
    BY <1>1, <1>3, <2>1 DEF BaseHolds
<1>6. QED
  BY <1>4, <1>5 DEF Prepares

\* The run that has worked: what it has fetched is checked when it is a qa run, and what
\* it has pushed itself is no developer's.
LEMMA BaseWorks ==
  ASSUME TypeInv, NEW i \in DOMAIN runs, NEW changes \in BOOLEAN, Works(i, changes), BaseHolds(runs[i])
  PROVE  BaseHolds(runs[i])'
<1> DEFINE b == runs[i].branch
           k == runs[i].base
<1>1. /\ runs[i] \in Run /\ b \in Titles /\ k \in Nat /\ runs[i].stage \in Stages
      /\ runs[i].phase = "working"
  BY RunFacts DEF Works, Prepared
<1>2. commits[b] \in Seq(Stages) /\ Len(commits[b]) \in Nat /\ k <= Len(commits[b])
  BY <1>1, LenProperties DEF TypeInv, BaseHolds
<1>3. runs[i].stage = "qa" => checked'[b] \in Nat /\ k <= checked'[b]
  <2>1. checked \in [Titles -> Nat] /\ checked[b] \in Nat
    BY <1>1 DEF TypeInv
  <2>2. ASSUME runs[i].stage = "qa"
        PROVE  checked'[b] = IF k > checked[b] THEN k ELSE checked[b]
    BY <1>1, <2>1, <2>2 DEF Works
  <2>3. QED
    BY <1>1, <2>1, <2>2
<1>4. CASE /\ commits' = commits
           /\ \E ahead \in BOOLEAN :
                runs' = [runs EXCEPT ![i].phase = "finalizing", ![i].ahead = ahead]
  <2>1. /\ runs'[i].phase = "finalizing" /\ runs'[i].base = k /\ runs'[i].branch = b
        /\ runs'[i].stage = runs[i].stage
    BY <1>1, <1>4 DEF Run
  <2>2. QED
    BY <1>1, <1>2, <1>3, <1>4, <2>1 DEF BaseHolds, CheckedUpTo
<1>5. CASE /\ UpToDate(i) /\ commits' = [commits EXCEPT ![b] = Append(commits[b], runs[i].stage)]
           /\ runs' = [runs EXCEPT ![i].phase = "finalizing", ![i].base = @ + 1]
  <2>1. PICK n \in Nat : n = k + 1
    BY <1>1
  <2>2. /\ runs'[i].phase = "finalizing" /\ runs'[i].base = n /\ runs'[i].branch = b
        /\ runs'[i].stage = runs[i].stage
    BY <1>1, <1>5, <2>1 DEF Run
  <2>3. Len(commits[b]) = k
    BY <1>5 DEF UpToDate
  <2>4. commits'[b] = Append(commits[b], runs[i].stage)
    BY <1>1, <1>5 DEF TypeInv
  <2>5. Len(commits'[b]) = n /\ commits'[b][n] = runs[i].stage
    BY <1>1, <1>2, <2>1, <2>3, <2>4, AppendProperties
  <2>6. ASSUME runs[i].stage = "qa", NEW m \in 1 .. n, commits'[b][m] = "developer"
        PROVE  m <= checked'[b]
    <3>1. m # n
      BY <2>5, <2>6
    <3>2. m <= k
      BY <1>1, <2>1, <2>6, <3>1
    <3>3. QED
      BY <1>1, <1>3, <2>6, <3>2
  <2>7. QED
    BY <2>2, <2>5, <2>6 DEF BaseHolds, CheckedUpTo
<1>6. QED
  BY <1>4, <1>5 DEF Works, Pushes

\* In every other phase nothing is asked of what a run has fetched.
LEMMA BaseElsewhere ==
  ASSUME TypeInv, NEW i \in DOMAIN runs, NEW phase, phase \notin {"working", "finalizing"},
         Becomes(i, phase)
  PROVE  BaseHolds(runs[i])'
<1>1. runs'[i].phase = phase
  BY RunFacts DEF Becomes, Run
<1>2. QED
  BY <1>1 DEF BaseHolds

\* A run's own step keeps what it has of its branch,
LEMMA BaseOwn ==
  ASSUME TypeInv, BaseInv, NEW i \in DOMAIN runs, RunSteps(i) \/ RunFails(i)
  PROVE  BaseHolds(runs[i])'
<1>1. BaseHolds(runs[i])
  BY DEF BaseInv
<1>2. CASE Prepares(i)
  BY <1>2, BasePrepares
<1>3. CASE \E changes \in BOOLEAN : Works(i, changes)
  BY <1>1, <1>3, BaseWorks
<1>4. CASE \E phase \in Phases \ {"working", "finalizing"} : Becomes(i, phase)
  BY <1>4, BaseElsewhere
<1>5. \/ Prepares(i) \/ \E changes \in BOOLEAN : Works(i, changes)
      \/ \E phase \in Phases \ {"working", "finalizing"} : Becomes(i, phase)
  BY DEF RunSteps, RunFails, FinishesDeveloper, OpensPullRequest, FinishesQa, FindsPullRequest,
     ChecksMergeability, Merges, FinishesMerge, Phases
<1>6. QED
  BY <1>2, <1>3, <1>4, <1>5

\* and every step of another what the run has.
LEMMA BaseNext == TypeInv /\ BaseInv /\ [Next]_vars => BaseInv'
<1> SUFFICES ASSUME TypeInv, BaseInv, [Next]_vars PROVE BaseInv'
  OBVIOUS
<1>1. BranchesGrow
  BY StepGrows
<1>2. \A i \in DOMAIN runs : runs[i] \in Run /\ Prepared(runs[i]) /\ BaseHolds(runs[i])
  BY RunFacts DEF BaseInv
<1>3. ASSUME NEW j \in DOMAIN runs, NEW r, r = runs[j], r = runs'[j] PROVE BaseHolds(runs[j])'
  <2>1. r \in Run /\ Prepared(r) /\ BaseHolds(r)
    BY <1>2, <1>3
  <2>2. BaseHolds(r)'
    BY <1>1, <2>1, BaseStays
  <2>3. QED
    BY <1>3, <2>2 DEF BaseHolds, CheckedUpTo
<1>4. CASE runs' = runs
  BY <1>3, <1>4 DEF BaseInv
<1>5. ASSUME NEW i \in DOMAIN runs, RunSteps(i) \/ RunFails(i) PROVE BaseInv'
  <2>1. DOMAIN runs' = DOMAIN runs /\ \A j \in DOMAIN runs : j # i => runs'[j] = runs[j]
    BY <1>5, RunGoes, RunGoesFacts
  <2>2. BaseHolds(runs[i])'
    BY <1>5, BaseOwn
  <2>3. QED
    BY <1>3, <2>1, <2>2 DEF BaseInv
<1>6. CASE Dispatches
  <2>1. /\ DOMAIN runs' = DOMAIN runs \cup {Len(runs) + 1}
        /\ \A j \in DOMAIN runs : runs'[j] = runs[j]
        /\ runs'[Len(runs) + 1].phase = "starting"
    BY <1>6, DispatchFacts
  <2>2. ASSUME NEW j \in DOMAIN runs' PROVE BaseHolds(runs[j])'
    <3>1. CASE j \in DOMAIN runs
      BY <1>3, <2>1, <3>1 DEF BaseHolds, CheckedUpTo
    <3>2. CASE j = Len(runs) + 1
      BY <2>1, <3>2 DEF BaseHolds
    <3>3. QED
      BY <2>1, <3>1, <3>2
  <2>3. QED
    BY <2>2 DEF BaseInv, BaseHolds, CheckedUpTo
<1>7. QED
  BY <1>4, <1>5, <1>6 DEF Next, vars, PersonMoves, PersonRenames, HookIsLost, HandlesHook

\* No run has fetched anything at the start.
LEMMA BaseInit == Init => BaseInv
BY DEF Init, BaseInv

\* A pull request is opened on a branch that qa has had before it.
LEMMA OpensChecked ==
  ASSUME TypeInv, BaseInv, [Next]_vars, NEW b \in open' \ open, NEW n \in DOMAIN commits'[b],
         commits'[b][n] = "developer"
  PROVE  n <= checked'[b]
<1>1. PICK i \in DOMAIN runs : OpensPullRequest(i)
  BY DEF Next, RunSteps, vars, remote, PersonMoves, PersonRenames, HookIsLost,
     HandlesHook, Dispatches, Prepares, Works, FinishesDeveloper, FinishesQa, FindsPullRequest,
     ChecksMergeability, Merges, FinishesMerge, RunFails
<1> DEFINE r == runs[i]
<1>2. /\ r.branch \in Titles /\ r.base \in Nat /\ r.stage = "qa" /\ r.phase = "finalizing"
      /\ "qa" \in Stages
  BY <1>1, RunFacts DEF OpensPullRequest, Prepared, Stages
<1>3. b = r.branch /\ UpToDate(i) /\ checked' = checked
  BY <1>1 DEF OpensPullRequest
<1>4. commits \in [Titles -> Seq(Stages)] /\ commits[b] \in Seq(Stages)
  BY <1>2, <1>3 DEF TypeInv
<1>5. Len(commits[b]) = r.base /\ DOMAIN commits[b] = 1 .. r.base
  BY <1>2, <1>3, <1>4, LenProperties DEF UpToDate
<1>6. CheckedUpTo(r)
  BY <1>2 DEF BaseInv, BaseHolds
<1>7. commits'[b] = commits[b] \/ commits'[b] = Append(commits[b], "qa")
  <2>1. \/ commits' = commits
        \/ commits' = [commits EXCEPT ![b] = IF r.ahead THEN Append(commits[b], "qa") ELSE commits[b]]
    BY <1>1, <1>3 DEF OpensPullRequest
  <2>2. commits' = commits \/ commits' = [commits EXCEPT ![b] = Append(commits[b], "qa")]
    BY <1>4, <2>1
  <2>3. b \in Titles
    BY <1>2, <1>3
  <2>4. QED
    BY <1>4, <2>2, <2>3
<1>8. n \in 1 .. r.base /\ commits[b][n] = "developer"
  <2>1. CASE commits'[b] = commits[b]
    BY <1>5, <2>1
  <2>2. CASE commits'[b] = Append(commits[b], "qa")
    <3>1. /\ DOMAIN Append(commits[b], "qa") = 1 .. (r.base + 1)
          /\ \A m \in 1 .. r.base : Append(commits[b], "qa")[m] = commits[b][m]
          /\ Append(commits[b], "qa")[r.base + 1] = "qa"
      BY SMTT(30), <1>2, <1>4, <1>5, AppendProperties, LenProperties
    <3>2. n \in 1 .. (r.base + 1) /\ n # r.base + 1
      BY <2>2, <3>1
    <3>3. n \in 1 .. r.base
      BY <1>2, <3>2
    <3>4. QED
      BY <2>2, <3>1, <3>3
  <2>3. QED
    BY <1>7, <2>1, <2>2
<1>9. QED
  BY SMTT(30), <1>3, <1>6, <1>8 DEF CheckedUpTo

\* Whatever developers have pushed when a pull request is opened was there when qa
\* worked on the branch, for any overlap of developer and qa runs: the push that opens
\* it is rejected when the branch has moved.
THEOREM WhatIsOpenedWasChecked == Spec => PullRequestsChecked
<1>1. TypeInv /\ BaseInv /\ [Next]_vars
        => [\A b \in open' \ open : \A n \in DOMAIN commits'[b] :
              commits'[b][n] = "developer" => n <= checked'[b]]_vars
  BY OpensChecked
<1>2. Spec => []BaseInv
  BY BaseInit, BaseNext, TicketTypeCorrect, PTL DEF Spec
<1>3. QED
  BY <1>1, <1>2, TicketTypeCorrect, PTL DEF Spec, PullRequestsChecked

-----------------------------------------------------------------------------
(* Why a ticket that is done has been merged.                                 *)

\* Nothing is done at the start.
LEMMA MergeInit == Init => MergeInv
BY SMTT(30) DEF Init, MergeInv, DoneMeansMerged

\* A branch with a pull request has commits.
LEMMA OpenNext ==
  ASSUME TypeInv, \A b \in open : commits[b] # <<>>, [Next]_vars
  PROVE  \A b \in open' : commits'[b] # <<>>
<1>1. BranchesGrow
  BY StepGrows
<1>2. \A b \in Titles : commits[b] \in Seq(Stages) /\ merged[b] \in Nat
  BY DEF TypeInv
<1>3. \A b \in open : b \in Titles /\ Len(commits[b]) > 0
  BY <1>2, EmptySeq DEF TypeInv
<1>4. \A b \in open : Len(commits'[b]) > 0
  BY <1>1, <1>3 DEF BranchesGrow
<1>5. CASE open' \subseteq open
  BY <1>4, <1>5, EmptySeq
<1>6. ASSUME NEW i \in DOMAIN runs, OpensPullRequest(i) PROVE \A b \in open' : commits'[b] # <<>>
  <2> DEFINE c == runs[i].branch
             now == IF runs[i].ahead THEN Append(commits[c], "qa") ELSE commits[c]
  <2>1. c \in Titles
    BY <1>6, RunFacts DEF OpensPullRequest, Prepared
  <2>2. \/ open' = open
        \/ open' = open \cup {c} /\ commits' = [commits EXCEPT ![c] = now] /\ Len(now) > merged[c]
    BY <1>6 DEF OpensPullRequest
  <2> HIDE DEF now
  <2>3. open' # open => commits'[c] # <<>>
    BY <1>2, <2>1, <2>2, EmptySeq DEF TypeInv
  <2>4. QED
    BY <1>4, <2>2, <2>3, EmptySeq
<1>7. QED
  BY <1>5, <1>6 DEF Next, RunSteps, vars, remote, PersonMoves, PersonRenames, HookIsLost,
     HandlesHook, Dispatches, Prepares, Works, FinishesDeveloper, FinishesQa, FindsPullRequest,
     ChecksMergeability, Merges, FinishesMerge, RunFails

\* What has been merged stays merged.
LEMMA SomeMergedStays ==
  ASSUME TypeInv, \A b \in open : commits[b] # <<>>, [Next]_vars
  PROVE  /\ SomeMerged => SomeMerged'
         /\ \A i \in DOMAIN runs : Merges(i) /\ runs[i].branch \in open => SomeMerged'
<1>1. ASSUME NEW i \in DOMAIN runs, Merges(i), runs[i].branch \in open PROVE SomeMerged'
  <2>1. runs[i].branch \in Titles /\ commits[runs[i].branch] \in Seq(Stages)
    BY <1>1 DEF TypeInv
  <2>2. Len(commits[runs[i].branch]) > 0
    BY <1>1, <2>1, EmptySeq
  <2>3. merged'[runs[i].branch] = Len(commits[runs[i].branch])
    BY <1>1, <2>1 DEF Merges, TypeInv
  <2>4. QED
    BY <2>1, <2>2, <2>3 DEF SomeMerged
<1>2. CASE merged' = merged
  BY <1>1, <1>2 DEF SomeMerged
<1>3. ASSUME merged' # merged PROVE SomeMerged'
  <2>1. PICK i \in DOMAIN runs : Merges(i)
    BY <1>3 DEF Next, RunSteps, vars, remote, PersonMoves, PersonRenames, HookIsLost,
       HandlesHook, Dispatches, Prepares, Works, OpensPullRequest, FinishesDeveloper, FinishesQa,
       FindsPullRequest, ChecksMergeability, FinishesMerge, RunFails
  <2>2. runs[i].branch \in open
    BY <1>3, <2>1 DEF Merges
  <2>3. QED
    BY <1>1, <2>1, <2>2
<1>4. QED
  BY <1>1, <1>2, <1>3

\* A run is merged only by mergePR.
LEMMA MergedNext ==
  ASSUME TypeInv, MergeInv, [Next]_vars, NEW j \in DOMAIN runs', runs'[j].phase = "merged"
  PROVE  SomeMerged'
<1>1. /\ \A b \in open : commits[b] # <<>>
      /\ \A i \in DOMAIN runs : runs[i].phase = "merged" => SomeMerged
  BY DEF MergeInv
<1>2. ASSUME j \in DOMAIN runs, runs'[j] = runs[j] PROVE SomeMerged'
  BY <1>1, <1>2, SomeMergedStays
<1>3. ASSUME NEW i \in DOMAIN runs, RunSteps(i) \/ RunFails(i) PROVE SomeMerged'
  <2>1. DOMAIN runs' = DOMAIN runs /\ \A k \in DOMAIN runs : k # i => runs'[k] = runs[k]
    BY <1>3, RunGoes, RunGoesFacts
  <2>2. CASE j # i
    BY <1>2, <2>1, <2>2
  <2>3. CASE j = i
    <3>1. CASE Merges(i) /\ runs[i].branch \in open
      BY <1>1, <3>1, SomeMergedStays
    <3>2. CASE \E phase \in Phases \ {"merged"} : Becomes(i, phase)
      <4>1. runs'[i].phase # "merged"
        BY <3>2, RunFacts DEF Becomes, Run
      <4>2. QED
        BY <2>3, <4>1
    <3>3. CASE Prepares(i) \/ \E changes \in BOOLEAN : Works(i, changes)
      <4>1. runs[i] \in Run
        BY RunFacts
      <4>2. \/ \E r : runs' = [runs EXCEPT ![i] = r] /\ r.phase # "merged"
            \/ Becomes(i, "failed")
        <5>1. CASE Prepares(i)
          <6> DEFINE r == [runs[i] EXCEPT !.phase = "working", !.branch = BranchOf(runs[i]),
                                            !.base = Len(commits[BranchOf(runs[i])])]
          <6>2. r.phase = "working"
            BY <4>1 DEF Run
          <6>3. QED
            BY <5>1, <6>2 DEF Prepares
        <5>2. CASE \E changes \in BOOLEAN : Works(i, changes)
          <6>1. PICK changes \in BOOLEAN : Works(i, changes)
            BY <5>2
          <6> DEFINE q == [runs[i] EXCEPT !.phase = "finalizing", !.base = @ + 1]
                     r == [runs[i] EXCEPT !.phase = "finalizing", !.ahead = TRUE]
                     t == [runs[i] EXCEPT !.phase = "finalizing", !.ahead = changes]
          <6>2. /\ q.phase = "finalizing" /\ r.phase = "finalizing" /\ t.phase = "finalizing"
            BY <4>1 DEF Run
          <6>3. \/ runs' = [runs EXCEPT ![i] = q] \/ runs' = [runs EXCEPT ![i] = r]
                \/ runs' = [runs EXCEPT ![i] = t]
            BY <6>1 DEF Works
          <6> HIDE DEF q, r, t
          <6>4. QED
            BY <6>2, <6>3
        <5>3. QED
          BY <3>3, <5>1, <5>2
      <4>3. runs'[i].phase # "merged"
        BY <4>1, <4>2 DEF Becomes, Run
      <4>4. QED
        BY <2>3, <4>3
    <3>4. QED
      BY <1>3, <3>1, <3>2, <3>3 DEF RunSteps, RunFails, FinishesDeveloper, OpensPullRequest,
         FinishesQa, FindsPullRequest, ChecksMergeability, Merges, FinishesMerge, Phases
  <2>4. QED
    BY <2>2, <2>3
<1>4. CASE Dispatches
  <2>1. /\ DOMAIN runs' = DOMAIN runs \cup {Len(runs) + 1}
        /\ \A k \in DOMAIN runs : runs'[k] = runs[k]
        /\ runs'[Len(runs) + 1].phase = "starting"
    BY <1>4, DispatchFacts
  <2>2. QED
    BY <1>2, <2>1
<1>5. CASE runs' = runs
  BY SMTT(30), <1>2, <1>5
<1>6. QED
  BY <1>3, <1>4, <1>5 DEF Next, vars, PersonMoves, PersonRenames, HookIsLost, HandlesHook

\* Only a run that has merged moves a ticket to its final state.
LEMMA DoneNext ==
  ASSUME TypeInv, MergeInv, [Next]_vars, ticket'.state = "done"
  PROVE  SomeMerged'
<1>1. /\ \A b \in open : commits[b] # <<>>
      /\ ticket.state = "done" => SomeMerged
      /\ \A i \in DOMAIN runs : runs[i].phase = "merged" => SomeMerged
  BY DEF MergeInv, DoneMeansMerged, SomeMerged
<1>2. CASE ticket'.state = ticket.state
  BY <1>1, <1>2, SomeMergedStays
<1>3. CASE PersonMoves
  <2>1. ticket'.state = "todo"
    BY <1>3 DEF PersonMoves, MovesTo, TypeInv
  <2>2. QED
    BY <2>1
<1>4. CASE \E title \in Titles : PersonRenames(title)
  <2>1. ticket'.state = ticket.state
    BY <1>4 DEF PersonRenames, TypeInv
  <2>2. QED
    BY <1>2, <2>1
<1>5. ASSUME NEW i \in DOMAIN runs, FinishesDeveloper(i) \/ FinishesQa(i) PROVE SomeMerged'
  <2>1. ticket'.state = "review"
    BY <1>5, MovesOn DEF FinishesDeveloper, FinishesQa, TargetOf
  <2>2. QED
    BY <2>1
<1>6. ASSUME NEW i \in DOMAIN runs, FinishesMerge(i) PROVE SomeMerged'
  BY <1>1, <1>6, SomeMergedStays DEF FinishesMerge
<1>7. CASE ticket' = ticket
  BY <1>2, <1>7
<1>8. QED
  BY <1>3, <1>4, <1>5, <1>6, <1>7 DEF Next, RunSteps, vars, HookIsLost, HandlesHook, Dispatches,
     Prepares, Works, OpensPullRequest, FindsPullRequest, ChecksMergeability, Merges, RunFails

\* Every step keeps it.
LEMMA MergeNext == TypeInv /\ MergeInv /\ [Next]_vars => MergeInv'
<1> SUFFICES ASSUME TypeInv, MergeInv, [Next]_vars PROVE MergeInv'
  OBVIOUS
<1>1. \A b \in open' : commits'[b] # <<>>
  BY OpenNext DEF MergeInv
<1>2. \A j \in DOMAIN runs' : runs'[j].phase = "merged" => SomeMerged'
  BY MergedNext
<1>3. ticket'.state = "done" => SomeMerged'
  BY DoneNext
<1>4. QED
  BY <1>1, <1>2, <1>3 DEF MergeInv, DoneMeansMerged, SomeMerged

\* Whatever overlaps, is lost or sent again, a ticket is in its final state only after
\* some pull request of it has been merged.
THEOREM DoneIsMerged == Spec => []DoneMeansMerged
<1>1. Spec => []MergeInv
  BY MergeInit, MergeNext, TicketTypeCorrect, PTL DEF Spec
<1>2. MergeInv => DoneMeansMerged
  BY DEF MergeInv
<1>3. QED
  BY <1>1, <1>2, PTL

=============================================================================
