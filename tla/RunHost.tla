------------------------------- MODULE RunHost -------------------------------
\* What a run works in: a git worktree of a base clone that the runs of a project share,
\* with a worktree of its own for each step that runs in parallel, and a Docker container
\* or a Kubernetes sandbox that is created for the run and taken down after it.
EXTENDS Naturals, FiniteSets

CONSTANTS Runs,      \* runs of the same ticket
          Steps,     \* the steps of a plan, which is one parallel group
          MaxFaults  \* bound: crashes, calls that fail, pushes by others

ASSUME RunsAssumption == IsFiniteSet(Runs) /\ IsFiniteSet(Steps) /\ Cardinality(Steps) > 1
ASSUME BoundsAssumption == MaxFaults \in Nat
ASSUME NamesAssumption == "none" \notin Runs \cup Steps /\ "other" \notin Runs

VARIABLES
  base,     \* the base clone exists
  refs,     \* its branches: [branch -> commits]
  remote,   \* the branches on the remote
  trees,    \* worktrees: <<run, step>>, or <<run, None>> for the run's own, -> branch
  merging,  \* runs whose worktree holds a merge that stopped at a conflict
  run,      \* [at, branch, handle, backend]
  lanes,    \* of each step of a run: "todo", "working", "committed", "unchanged",
            \* "merged", "idle", "failed", "thrown"
  env,      \* what Docker or Kubernetes holds for a run: "none", "up"
  saved,    \* the handle in run-state.json
  logged,   \* sandbox.created or sandbox.resumed is in the event log
  lost,     \* runs whose environment was created and never recorded (history)
  faults

vars == <<base, refs, remote, trees, merging, run, lanes, env, saved, logged, lost, faults>>
git == <<base, refs, remote, trees, merging>>
recorded == <<saved, logged, lost>>

None == "none"
\* buildBranchName and its two variants: with the run's id, and with a step.
TicketBranch == <<None, None>>
OwnBranch(r) == <<r, None>>
StepBranch(branch, s) == <<branch[1], s>>

Backends == {"docker", "sandbox"}
Handles == {None, "whole", "bare"}   \* "bare": rebuilt from an event, without metadata
Ended == {"completed", "failed"}

Init ==
  /\ base = FALSE /\ trees = <<>> /\ merging = {}
  /\ refs = <<>> /\ remote = <<>>
  /\ \E b \in Backends :
       run = [r \in Runs |-> [at |-> "start", branch |-> <<>>, handle |-> None, backend |-> b]]
  /\ lanes = [r \in Runs |-> [s \in Steps |-> "todo"]]
  /\ env = [r \in Runs |-> "none"] /\ saved = [r \in Runs |-> None]
  /\ logged = [r \in Runs |-> FALSE] /\ lost = {}
  /\ faults = 0

-----------------------------------------------------------------------------
Goes(r, at) == run' = [run EXCEPT ![r].at = at]
Fault == faults < MaxFaults /\ faults' = faults + 1

With(f, x, y) == [z \in DOMAIN f \cup {x} |-> IF z = x THEN y ELSE f[z]]
Without(f, x) == [z \in DOMAIN f \ {x} |-> f[z]]

\* ensureBaseClone.  Two runs may both find no clone; git refuses to clone over the
\* other's.  A fetch into a bare clone has no refspec and moves no branch.
FindsBase(r) ==
  /\ run[r].at = "start"
  /\ Goes(r, IF base THEN "naming" ELSE "cloning")
  /\ UNCHANGED <<git, lanes, env, recorded, faults>>
ClonesBase(r) ==
  /\ run[r].at = "cloning"
  /\ IF base THEN Goes(r, "failed") /\ UNCHANGED <<base, refs>>
     ELSE /\ base' = TRUE /\ refs' = remote
          /\ Goes(r, "naming")
  /\ UNCHANGED <<remote, trees, merging, lanes, env, recorded, faults>>

\* resolveReusableBranchName by the run's branch mode: a stage of the ticket workflow takes
\* the ticket's branch if the clone has it ("reuse-or-create"), or fails without it
\* ("existing"); any other run takes a name that is free, by resolveAvailableBranchName.
\* A fetch makes no refs/remotes/origin here, so that a branch of the remote is found only
\* if it was there when the clone was made.
AvailableName(r) == IF TicketBranch \in DOMAIN refs THEN OwnBranch(r) ELSE TicketBranch
NamesBranch(r) ==
  /\ run[r].at = "naming"
  /\ \/ run' = [run EXCEPT ![r].at = "adding", ![r].branch = AvailableName(r)]
     \/ /\ TicketBranch \in DOMAIN refs
        /\ run' = [run EXCEPT ![r].at = "reusing", ![r].branch = TicketBranch]
     \/ TicketBranch \notin DOMAIN refs /\ Goes(r, "failed")
  /\ UNCHANGED <<git, lanes, env, recorded, faults>>

\* worktree add -b, which fails when another run of this host has taken the name in between.
MutAddsWorktree(r) ==
  LET b == run[r].branch
  IN  /\ run[r].at = "adding"
      /\ refs' = IF b \in DOMAIN refs THEN refs ELSE With(refs, b, {})
      /\ trees' = With(trees, <<r, None>>, b)
      /\ Goes(r, "prepare")
      /\ UNCHANGED <<base, remote, merging, lanes, env, recorded, faults>>
AddsWorktree(r) ==
  LET b == run[r].branch
  IN  /\ run[r].at = "adding"
      /\ IF b \in DOMAIN refs THEN Goes(r, "failed") /\ UNCHANGED <<refs, trees>>
         ELSE /\ refs' = With(refs, b, {})
              /\ trees' = With(trees, <<r, None>>, b)
              /\ Goes(r, "prepare")
      /\ UNCHANGED <<base, remote, merging, lanes, env, recorded, faults>>

\* worktree add of a branch that is there, which no worktree may have: nothing ever calls
\* destroy, and a branch that a run of this host has worked on stays with that run.
CheckedOut(b) == \E place \in DOMAIN trees : trees[place] = b
ReusesBranch(r) ==
  /\ run[r].at = "reusing"
  /\ IF CheckedOut(run[r].branch) THEN Goes(r, "failed") /\ UNCHANGED trees
     ELSE /\ trees' = With(trees, <<r, None>>, run[r].branch)
          /\ Goes(r, "prepare")
  /\ UNCHANGED <<base, refs, remote, merging, lanes, env, recorded, faults>>

-----------------------------------------------------------------------------
\* prepareRunEnvironment

\* The name of a container or claim is the run's: what is there already is in the way.
\* A call that fails or times out may have worked, and then nobody knows.
FailsToCreate(r) ==
  /\ Fault
  /\ \E now \in {"none", "up"} :
       /\ env' = [env EXCEPT ![r] = now]
       /\ lost' = IF now = "up" THEN lost \cup {r} ELSE lost
  /\ Goes(r, "failed")
Creates(r, backend, at, handle) ==
  /\ run[r].at = "prepare" /\ run[r].handle = None /\ run[r].backend = backend
  /\ IF env[r] = "up" THEN Goes(r, "failed") /\ UNCHANGED <<env, lost, faults>>
     ELSE \/ /\ env' = [env EXCEPT ![r] = "up"]
             /\ run' = [run EXCEPT ![r].at = at, ![r].handle = handle]
             /\ UNCHANGED <<lost, faults>>
          \/ FailsToCreate(r)
  /\ UNCHANGED <<git, lanes, saved, logged>>

\* DockerExecutionBackend.prepareRunEnvironment: the container is up when the call returns.
StartsContainer(r) == Creates(r, "docker", "store", "whole")

\* AgentSandboxExecutionBackend.prepareRunEnvironment: the claim is created, and then its
\* sandbox waited for, a minute at most; a claim that did not bind is left behind.
CreatesClaim(r) == Creates(r, "sandbox", "binding", None)
BindsSandbox(r) ==
  /\ run[r].at = "binding"
  /\ \/ /\ run' = [run EXCEPT ![r].at = "store", ![r].handle = "whole"]
        /\ UNCHANGED <<lost, faults>>
     \/ Goes(r, "failed") /\ Fault /\ lost' = lost \cup {r}
  /\ UNCHANGED <<git, lanes, env, saved, logged>>

\* resumeRun: a container is found or made again from the image in the handle; a claim
\* is only waited for, and without its name there is nothing to wait for.
Resumable(r) ==
  CASE run[r].backend = "docker" -> env[r] = "up" \/ run[r].handle = "whole"
    [] run[r].backend = "sandbox" -> env[r] = "up" \/ run[r].handle = "bare"
ResumesEnvironment(r) ==
  /\ run[r].at = "prepare" /\ run[r].handle # None
  /\ IF Resumable(r)
       THEN /\ env' = IF run[r].backend = "docker" THEN [env EXCEPT ![r] = "up"] ELSE env
            /\ Goes(r, "store")
       ELSE Goes(r, "failed") /\ UNCHANGED env
  /\ UNCHANGED <<git, lanes, recorded, faults>>

\* setRunEnvironment and the event; run-state.json follows without being waited for.
StoresHandle(r) ==
  /\ run[r].at = "store"
  /\ Goes(r, "plan")
  /\ logged' = [logged EXCEPT ![r] = TRUE]
  /\ UNCHANGED <<git, lanes, env, saved, lost, faults>>
SavesState(r) ==
  /\ run[r].at \in {"plan", "teardown"} \cup Ended /\ logged[r] /\ run[r].handle # None
  /\ saved[r] # run[r].handle
  /\ saved' = [saved EXCEPT ![r] = run[r].handle]
  /\ UNCHANGED <<git, run, lanes, env, logged, lost, faults>>

-----------------------------------------------------------------------------
\* A parallel group.

LaneGoes(r, s, to) == lanes' = [lanes EXCEPT ![r][s] = to]
Own(r) == trees[<<r, None>>]
Sub(r, s) == StepBranch(run[r].branch, s)

\* createSubWorktree: worktree add -b refuses a branch that is there.
AddsSubWorktree(r, s) ==
  /\ run[r].at = "plan" /\ lanes[r][s] = "todo"
  /\ IF Sub(r, s) \in DOMAIN refs THEN LaneGoes(r, s, "thrown") /\ UNCHANGED <<refs, trees>>
     ELSE /\ refs' = With(refs, Sub(r, s), refs[Own(r)])
          /\ trees' = With(trees, <<r, s>>, Sub(r, s))
          /\ LaneGoes(r, s, "working")
  /\ UNCHANGED <<base, remote, merging, run, env, recorded, faults>>

\* commitStepChanges in the step's worktree pushes the step's branch, too.
CommitsStep(r, s) ==
  LET b == Sub(r, s)
      now == refs[b] \cup {<<r, s>>}
  IN  /\ lanes[r][s] = "working"
      /\ LaneGoes(r, s, "committed")
      /\ refs' = [refs EXCEPT ![b] = now]
      /\ \/ remote' = With(remote, b, now) /\ UNCHANGED faults
         \/ UNCHANGED remote /\ Fault
      /\ UNCHANGED <<base, trees, merging, run, env, recorded>>
ChangesNothing(r, s) ==
  /\ lanes[r][s] = "working"
  /\ LaneGoes(r, s, "unchanged")
  /\ UNCHANGED <<git, run, env, recorded, faults>>

\* removeSubWorktree: the worktree and its branch.
Removes(r, s) ==
  /\ trees' = Without(trees, <<r, s>>)
  /\ refs' = Without(refs, Sub(r, s))

StepFails(r, s) ==
  /\ lanes[r][s] = "working" /\ Fault
  /\ Removes(r, s)
  /\ LaneGoes(r, s, "failed")
  /\ UNCHANGED <<base, remote, merging, run, env, recorded>>

\* mergeSubWorktree without a new commit.
DropsStep(r, s) ==
  /\ lanes[r][s] = "unchanged"
  /\ Removes(r, s)
  /\ LaneGoes(r, s, "idle")
  /\ UNCHANGED <<base, remote, merging, run, env, recorded, faults>>

\* mergeSubWorktree: a conflict is possible once another step has been merged, and
\* leaves the merge open in the run's worktree, where no other merge can begin.
MutMergesStep(r, s) ==
  /\ lanes[r][s] = "committed"
  /\ Removes(r, s)
  /\ LaneGoes(r, s, "merged")
  /\ UNCHANGED <<base, remote, merging, run, env, recorded, faults>>
MergesStep(r, s) ==
  LET theirs == refs[Sub(r, s)]
      mine == refs[Own(r)]
  IN  /\ lanes[r][s] = "committed"
      /\ \/ /\ r \notin merging
            /\ refs' = Without([refs EXCEPT ![Own(r)] = mine \cup theirs], Sub(r, s))
            /\ LaneGoes(r, s, "merged")
            /\ UNCHANGED <<merging, faults>>
         \/ /\ r \in merging \/ mine \ theirs # {}
            /\ IF r \in merging THEN UNCHANGED <<merging, faults>>
               ELSE Fault /\ merging' = merging \cup {r}
            /\ refs' = Without(refs, Sub(r, s))
            /\ LaneGoes(r, s, "thrown")
      /\ trees' = Without(trees, <<r, s>>)
      /\ UNCHANGED <<base, remote, run, env, recorded>>

\* Promise.all settles when every lane has, or rejects at once with the first that throws.
Throws(r) == \E s \in Steps : lanes[r][s] = "thrown"
Done == {"merged", "idle"}
Settled(r) == \A s \in Steps : lanes[r][s] \in Done \cup {"failed", "thrown"}
EndsPlan(r) ==
  /\ run[r].at = "plan" /\ (Throws(r) \/ Settled(r))
  /\ Goes(r, "teardown")
  /\ UNCHANGED <<git, lanes, env, recorded, faults>>

\* teardownRun: a claim whose name the handle does not hold is left alone.
NamesEnvironment(r) == run[r].backend = "docker" \/ run[r].handle = "whole"
\* teardownRunEnvironment: an error is only reported.
MutTearsDown(r) ==
  /\ run[r].at = "teardown"
  /\ env' = IF Throws(r) THEN env ELSE [env EXCEPT ![r] = "none"]
  /\ Goes(r, IF \A s \in Steps : lanes[r][s] \in Done THEN "push" ELSE "failed")
  /\ UNCHANGED <<git, lanes, recorded, faults>>
TearsDown(r) ==
  /\ run[r].at = "teardown"
  /\ \/ /\ env' = IF NamesEnvironment(r) THEN [env EXCEPT ![r] = "none"] ELSE env
        /\ UNCHANGED <<lost, faults>>
     \/ NamesEnvironment(r) /\ Fault /\ UNCHANGED env /\ lost' = lost \cup {r}
  /\ Goes(r, IF \A s \in Steps : lanes[r][s] \in Done THEN "push" ELSE "failed")
  /\ UNCHANGED <<git, lanes, saved, logged>>

\* createPullRequest: here a push that is rejected fails the run.
FastForward(b) == b \notin DOMAIN remote \/ remote[b] \subseteq refs[b]
PushesBranch(r) ==
  LET b == Own(r)
  IN  /\ run[r].at = "push"
      /\ IF FastForward(b) THEN remote' = With(remote, b, refs[b]) /\ Goes(r, "completed")
         ELSE Goes(r, "failed") /\ UNCHANGED remote
      /\ UNCHANGED <<base, refs, trees, merging, lanes, env, recorded, faults>>

-----------------------------------------------------------------------------
\* A run of another host pushes the ticket's branch.
OthersPush ==
  /\ TicketBranch \notin DOMAIN remote /\ Fault
  /\ remote' = With(remote, TicketBranch, {<<"other", None>>})
  /\ UNCHANGED <<base, refs, trees, merging, run, lanes, env, recorded>>

\* The executor dies; a call that creates the environment may have been under way.
Crashes(r) ==
  /\ run[r].at \notin Ended \cup {"dead"} /\ Fault
  /\ Goes(r, "dead")
  /\ lost' = IF run[r].at \in {"binding", "store"} /\ ~logged[r] THEN lost \cup {r} ELSE lost
  /\ UNCHANGED <<git, lanes, env, saved, logged>>

\* resumeTask: the handle of run-state.json, or one rebuilt from the events; steps that
\* had not been merged start again.  The session names the workspace once it is made.
Recovered(r) == IF saved[r] # None THEN saved[r] ELSE IF logged[r] THEN "bare" ELSE None
Resumes(r) ==
  /\ run[r].at \in {"dead", "failed"} /\ <<r, None>> \in DOMAIN trees
  /\ run' = [run EXCEPT ![r].at = "prepare", ![r].handle = Recovered(r)]
  /\ lanes' = [lanes EXCEPT ![r] = [s \in Steps |-> IF @[s] \in Done THEN @[s] ELSE "todo"]]
  /\ Fault
  /\ UNCHANGED <<git, env, recorded>>

RunSteps(r) ==
  \/ FindsBase(r) \/ ClonesBase(r) \/ NamesBranch(r) \/ AddsWorktree(r) \/ ReusesBranch(r)
  \/ StartsContainer(r) \/ CreatesClaim(r) \/ BindsSandbox(r) \/ ResumesEnvironment(r) \/ StoresHandle(r)
  \/ EndsPlan(r) \/ TearsDown(r) \/ PushesBranch(r)
\* Lanes go on while the plan is torn down, and end with their process.
LaneSteps(r, s) ==
  /\ run[r].at \notin Ended \cup {"dead"}
  /\ \/ AddsSubWorktree(r, s) \/ CommitsStep(r, s) \/ ChangesNothing(r, s)
     \/ DropsStep(r, s) \/ MergesStep(r, s)

Next ==
  \/ \E r \in Runs : RunSteps(r) \/ SavesState(r) \/ Crashes(r) \/ Resumes(r)
  \/ \E r \in Runs, s \in Steps : LaneSteps(r, s) \/ (run[r].at = "plan" /\ StepFails(r, s))
  \/ OthersPush

Spec == Init /\ [][Next]_vars
=============================================================================
