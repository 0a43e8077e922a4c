---------------------------- MODULE HostProperties ----------------------------
\* What a run may rely on in its workspace and environment.
EXTENDS RunHost

Early == {"start", "cloning", "naming", "adding", "reusing"}
Places == Early \cup Ended \cup {"prepare", "binding", "store", "plan", "teardown", "push", "dead"}
LaneStates == {"todo", "working", "committed", "unchanged", "merged", "idle", "failed", "thrown"}
Branches == (Runs \cup {None}) \X (Steps \cup {None})

\* Every variable has its type.
TypeOK ==
  /\ base \in BOOLEAN
  /\ DOMAIN refs \subseteq Branches /\ DOMAIN remote \subseteq Branches
  /\ DOMAIN trees \subseteq Runs \X (Steps \cup {None})
  /\ merging \subseteq Runs /\ lost \subseteq Runs
  /\ run \in [Runs -> [at : Places, branch : {<<>>} \cup Branches, handle : Handles, backend : Backends]]
  /\ lanes \in [Runs -> [Steps -> LaneStates]]
  /\ env \in [Runs -> {"none", "up"}] /\ saved \in [Runs -> Handles]
  /\ logged \in [Runs -> BOOLEAN] /\ faults \in 0 .. MaxFaults

\* A run that has completed has delivered: every commit of a step it counts as merged is
\* on the remote in the run's own branch, however its steps, a crash and a resume fell.
CompletedIsPushed ==
  \A r \in Runs : run[r].at = "completed" =>
    \A s \in Steps : lanes[r][s] = "merged" => <<r, s>> \in remote[Own(r)]

\* Runs of the same ticket that share a base clone never build on each other's commits:
\* whatever their branch modes, and whatever order they look for a branch and take it in, a
\* run's branch holds its own work, and on the ticket's branch what the remote had for it.
RunsOwnBranches ==
  \A r \in Runs : <<r, None>> \in DOMAIN trees =>
    \A c \in refs[Own(r)] : c[1] = r \/ (c[1] = "other" /\ Own(r) = TicketBranch)

\* A container or claim outlives its run only if the run never got to record it, Docker
\* or Kubernetes failed to remove it, or the handle of a claim was rebuilt from events.
EnvironmentAccounted ==
  \A r \in Runs : run[r].at \in Ended /\ env[r] = "up" =>
    r \in lost \/ (run[r].backend = "sandbox" /\ run[r].handle = "bare")
=============================================================================
