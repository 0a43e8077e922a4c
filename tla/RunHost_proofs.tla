---------------------------- MODULE RunHost_proofs ----------------------------
(* Type correctness of RunHost, and its three invariants, for any number of    *)
(* runs of a ticket, of steps and of faults.                                   *)
EXTENDS HostProperties, TLAPS

USE RunsAssumption, BoundsAssumption, NamesAssumption

-----------------------------------------------------------------------------
(* The invariant.                                                             *)

HasTree(r) == <<r, None>> \in DOMAIN trees
Open == {"working", "committed", "unchanged"}

\* What a branch of the run may hold.
Other(c) == c[1] = "other"
Mine(r, c) == c[1] = r \/ (Other(c) /\ Own(r) = TicketBranch)

\* The branch of a step holds what the run's may; what is committed is on it, what is
\* merged is on the run's branch, and on the remote once the run has completed.
StepInv(r, s) ==
  /\ Sub(r, s) \in DOMAIN refs => \A c \in refs[Sub(r, s)] : Mine(r, c)
  /\ lanes[r][s] \in Open => Sub(r, s) \in DOMAIN refs
  /\ lanes[r][s] = "committed" => <<r, s>> \in refs[Sub(r, s)]
  /\ lanes[r][s] = "merged" => <<r, s>> \in refs[Own(r)]
  /\ lanes[r][s] = "merged" /\ run[r].at = "completed" =>
       Own(r) \in DOMAIN remote /\ <<r, s>> \in remote[Own(r)]

\* A run has a worktree once it has added it, on the branch it named.
TreeInv(r) ==
  /\ run[r].at \in Early => ~HasTree(r)
  /\ run[r].at \in Early \cup {"failed", "dead"} \/ HasTree(r)
  /\ run[r].at \in {"naming", "adding", "reusing"} => base
  /\ run[r].at = "adding" => run[r].branch \in {TicketBranch, OwnBranch(r)}
  /\ run[r].at = "reusing" => run[r].branch = TicketBranch /\ TicketBranch \in DOMAIN refs
  /\ ~HasTree(r) => \A s \in Steps : lanes[r][s] = "todo"
  /\ HasTree(r) =>
       /\ Own(r) = run[r].branch
       /\ Own(r) \in {TicketBranch, OwnBranch(r)}
       /\ Own(r) \in DOMAIN refs
       /\ \A c \in refs[Own(r)] : Mine(r, c)
       /\ \A s \in Steps : StepInv(r, s)

\* No run has the ticket's branch.
Untaken == \A q \in Runs : HasTree(q) => Own(q) # TicketBranch

\* No two runs work on one branch, and branches of steps are of runs with a worktree; a
\* ticket's branch that no run has taken is as the remote had it.
SharedInv ==
  /\ \A r, q \in Runs : HasTree(r) /\ HasTree(q) /\ Own(r) = Own(q) => r = q
  /\ \A b \in DOMAIN refs : b[2] # None => \E q \in Runs : HasTree(q) /\ Own(q)[1] = b[1]
  /\ Untaken /\ TicketBranch \in DOMAIN refs => \A c \in refs[TicketBranch] : Other(c)
  /\ ~base => /\ DOMAIN refs = {} /\ DOMAIN trees = {} /\ DOMAIN remote \subseteq {TicketBranch}
              /\ TicketBranch \in DOMAIN remote => \A c \in remote[TicketBranch] : Other(c)

\* An environment that is up and not in the event log is lost, or about to be recorded;
\* one that is logged is found again by every resumption, and torn down but for errors.
EnvInv(r) ==
  /\ run[r].at \in {"store", "plan", "teardown", "push"} => run[r].handle # None
  /\ run[r].at \in Early => env[r] = "none" /\ ~logged[r] /\ run[r].handle = None
  /\ run[r].at = "binding" => ~logged[r]
  /\ run[r].at = "prepare" /\ run[r].handle = None => ~logged[r]
  /\ env[r] = "up" /\ ~logged[r] => r \in lost \/ run[r].at \in {"binding", "store"}
  /\ env[r] = "up" /\ run[r].at \in {"push"} \cup Ended =>
       r \in lost \/ (run[r].backend = "sandbox" /\ run[r].handle = "bare")

GitInv == SharedInv /\ \A r \in Runs : TreeInv(r)
HostInv == TypeOK /\ GitInv /\ \A r \in Runs : EnvInv(r)

-----------------------------------------------------------------------------
\* The initial state.
LEMMA InitInv == Init => HostInv
  <1> SUFFICES ASSUME Init PROVE HostInv OBVIOUS
  <1>d. DOMAIN refs = {} /\ DOMAIN remote = {} /\ DOMAIN trees = {}  BY DEF Init
  <1>1. TypeOK
    <2>1. run \in [Runs -> [at : Places, branch : {<<>>} \cup Branches, handle : Handles, backend : Backends]]
      BY DEF Init, Places, Early, Handles
    <2>2. /\ lanes \in [Runs -> [Steps -> LaneStates]] /\ env \in [Runs -> {"none", "up"}]
          /\ saved \in [Runs -> Handles] /\ logged \in [Runs -> BOOLEAN] /\ faults \in 0 .. MaxFaults
      BY DEF Init, LaneStates, Handles
    <2>3. base \in BOOLEAN /\ merging = {} /\ lost = {}  BY DEF Init
    <2> QED  BY <1>d, <2>1, <2>2, <2>3 DEF TypeOK
  <1>2. SharedInv  BY <1>d DEF Init, SharedInv, HasTree
  <1>3. ASSUME NEW r \in Runs PROVE TreeInv(r) /\ EnvInv(r)
    BY <1>d, <1>3 DEF Init, TreeInv, EnvInv, HasTree, Early, Ended, None
  <1> QED  BY <1>1, <1>2, <1>3 DEF HostInv, GitInv

-----------------------------------------------------------------------------
(* The run's environment.                                                     *)

\* A run whose place, handle and environment are as they were keeps EnvInv, and so does
\* one that is lost besides.
LEMMA EnvFrame ==
  ASSUME NEW q \in Runs, EnvInv(q), run'[q] = run[q], env'[q] = env[q], logged'[q] = logged[q],
         q \in lost => q \in lost'
  PROVE  EnvInv(q)'
  BY DEF EnvInv

\* EnvInv is kept by every step of a run.
LEMMA EnvOfRun ==
  ASSUME TypeOK, NEW r \in Runs, \A q \in Runs : EnvInv(q),
         RunSteps(r) \/ SavesState(r) \/ Crashes(r) \/ Resumes(r)
  PROVE  \A q \in Runs : EnvInv(q)'
  <1>t. /\ run \in [Runs -> [at : Places, branch : {<<>>} \cup Branches, handle : Handles, backend : Backends]]
        /\ env \in [Runs -> {"none", "up"}] /\ logged \in [Runs -> BOOLEAN]
    BY DEF TypeOK
  <1>o. ASSUME NEW q \in Runs, q # r PROVE EnvInv(q)'
    <2>1. /\ run'[q] = run[q] /\ env'[q] = env[q] /\ logged'[q] = logged[q]
          /\ q \in lost => q \in lost'
      BY <1>t, <1>o DEF RunSteps, FindsBase, ClonesBase, NamesBranch, AddsWorktree, ReusesBranch, StartsContainer, CreatesClaim,
         Creates, FailsToCreate, BindsSandbox, ResumesEnvironment, StoresHandle, EndsPlan, TearsDown,
         PushesBranch, SavesState, Crashes, Resumes, Goes, recorded
    <2> QED  BY <2>1, EnvFrame
  <1>r. EnvInv(r)'
    <2> USE <1>t DEF EnvInv, Goes, Early, Ended, recorded, None
    <2>1. CASE FindsBase(r) \/ ClonesBase(r) \/ NamesBranch(r) \/ AddsWorktree(r) \/ ReusesBranch(r)
      BY <2>1 DEF FindsBase, ClonesBase, NamesBranch, AddsWorktree, ReusesBranch
    <2>2. CASE StartsContainer(r) \/ CreatesClaim(r)
      BY <2>2 DEF StartsContainer, CreatesClaim, Creates, FailsToCreate
    <2>3. CASE BindsSandbox(r)
      <3>1. CASE run' = [run EXCEPT ![r].at = "store", ![r].handle = "whole"]  BY <2>3, <3>1 DEF BindsSandbox
      <3>2. CASE Goes(r, "failed") /\ lost' = lost \cup {r}  BY <2>3, <3>2 DEF BindsSandbox
      <3> QED  BY <2>3, <3>1, <3>2 DEF BindsSandbox
    <2>4. CASE ResumesEnvironment(r)
      <3>1. /\ run[r].at = "prepare" /\ run[r].handle # None
            /\ env[r] = "up" => Resumable(r)
        BY <2>4 DEF ResumesEnvironment, Resumable, Backends
      <3>2. CASE Resumable(r)
        <4>1. env'[r] = env[r] \/ run[r].backend = "docker"  BY <2>4, <3>2 DEF ResumesEnvironment
        <4>2. Goes(r, "store") /\ UNCHANGED <<logged, lost>>  BY <2>4, <3>2 DEF ResumesEnvironment
        <4> QED  BY <3>1, <4>1, <4>2
      <3>3. CASE ~Resumable(r)
        <4>1. Goes(r, "failed") /\ UNCHANGED <<env, logged, lost>>  BY <2>4, <3>3 DEF ResumesEnvironment
        <4> QED  BY <3>1, <3>3, <4>1
      <3> QED  BY <3>2, <3>3
    <2>5. CASE StoresHandle(r)  BY <2>5 DEF StoresHandle
    <2>6. CASE EndsPlan(r)  BY <2>6 DEF EndsPlan
    <2>7. CASE TearsDown(r)  BY <2>7 DEF TearsDown, NamesEnvironment, Backends, Handles
    <2>8. CASE PushesBranch(r)  BY <2>8 DEF PushesBranch
    <2>9. CASE SavesState(r)  BY <2>9 DEF SavesState
    <2>10. CASE Crashes(r)  BY <2>10 DEF Crashes
    <2>11. CASE Resumes(r)  BY <2>11 DEF Resumes, Recovered
    <2> QED  BY <2>1, <2>2, <2>3, <2>4, <2>5, <2>6, <2>7, <2>8, <2>9, <2>10, <2>11 DEF RunSteps
  <1> QED  BY <1>o, <1>r

\* The steps of lanes and of other hosts have nothing to do with environments.
LEMMA EnvNext ==
  ASSUME TypeOK, \A q \in Runs : EnvInv(q), [Next]_vars
  PROVE  \A q \in Runs : EnvInv(q)'
  <1>1. ASSUME UNCHANGED <<run, env, logged, lost>> PROVE \A q \in Runs : EnvInv(q)'
    BY <1>1, EnvFrame
  <1>2. ASSUME NEW r \in Runs, NEW s \in Steps, LaneSteps(r, s) \/ StepFails(r, s)
        PROVE  UNCHANGED <<run, env, logged, lost>>
    BY <1>2 DEF LaneSteps, AddsSubWorktree, CommitsStep, ChangesNothing, DropsStep, MergesStep, StepFails, recorded
  <1>3. OthersPush => UNCHANGED <<run, env, logged, lost>>  BY DEF OthersPush, recorded
  <1>4. UNCHANGED vars => UNCHANGED <<run, env, logged, lost>>  BY DEF vars
  <1> QED  BY <1>1, <1>2, <1>3, <1>4, EnvOfRun DEF Next

-----------------------------------------------------------------------------
(* Branches.                                                                  *)

\* The branch of a step bears the step's name and its run's prefix: it is no run's own,
\* and no other step's.
LEMMA Branching ==
  ASSUME GitInv, NEW r \in Runs, HasTree(r), NEW s \in Steps
  PROVE  /\ Own(r) = run[r].branch /\ Own(r) = <<Own(r)[1], None>> /\ Own(r) \in Branches
         /\ Sub(r, s) = <<Own(r)[1], s>> /\ Sub(r, s) \in Branches
         /\ \A q \in Runs : HasTree(q) => Sub(r, s) # Own(q)
         /\ \A q \in Runs, t \in Steps : HasTree(q) /\ Sub(q, t) = Sub(r, s) => q = r /\ t = s
  <1>1. /\ None \notin Steps /\ s # None  BY DEF None
  <1>2. ASSUME NEW q \in Runs, HasTree(q)
        PROVE  /\ Own(q) = run[q].branch /\ Own(q) \in {TicketBranch, OwnBranch(q)}
    BY <1>2 DEF GitInv, TreeInv
  <1>3. ASSUME NEW q \in Runs, HasTree(q)
        PROVE  /\ Own(q) = <<Own(q)[1], None>> /\ Own(q)[1] \in Runs \cup {None}
    BY <1>2, <1>3 DEF TicketBranch, OwnBranch
  <1>4. ASSUME NEW q \in Runs, HasTree(q), NEW t \in Steps PROVE Sub(q, t) = <<Own(q)[1], t>>
    BY <1>2, <1>4 DEF Sub, StepBranch
  <1>5. Own(r) \in Branches /\ Sub(r, s) \in Branches  BY <1>3, <1>4 DEF Branches
  <1>6. ASSUME NEW q \in Runs, HasTree(q) PROVE Sub(r, s) # Own(q)
    <2>1. Sub(r, s)[2] = s /\ Own(q)[2] = None  BY <1>3, <1>4, <1>6
    <2> QED  BY <2>1, <1>1
  <1>7. ASSUME NEW q \in Runs, NEW t \in Steps, HasTree(q), Sub(q, t) = Sub(r, s) PROVE q = r /\ t = s
    <2>1. Own(q)[1] = Own(r)[1] /\ t = s  BY <1>4, <1>7
    <2>2. Own(q) = Own(r)  BY <2>1, <1>3, <1>7
    <2> QED  BY <2>1, <2>2, <1>7 DEF GitInv, SharedInv
  <1> QED  BY <1>2, <1>3, <1>4, <1>5, <1>6, <1>7

\* What a run may have on its branch depends on which branch that is.
LEMMA MineFrame ==
  ASSUME NEW r \in Runs, Own(r)' = Own(r)
  PROVE  \A c : Mine(r, c)' <=> Mine(r, c)
  BY DEF Mine, Other

\* A run keeps TreeInv when its place and its lanes are as they were, its branch and the
\* branches of its steps hold what they held, and the remote still has its branch.
LEMMA TreeFrame ==
  ASSUME NEW q \in Runs, TreeInv(q), base => base', run'[q] = run[q], lanes'[q] = lanes[q],
         TicketBranch \in DOMAIN refs => TicketBranch \in DOMAIN refs',
         HasTree(q)' <=> HasTree(q),
         HasTree(q) => /\ Own(q)' = Own(q)
                       /\ Own(q) \in DOMAIN refs' /\ refs'[Own(q)] = refs[Own(q)]
                       /\ Own(q) \in DOMAIN remote => Own(q) \in DOMAIN remote' /\ remote'[Own(q)] = remote[Own(q)]
                       /\ \A s \in Steps : /\ Sub(q, s) \in DOMAIN refs' <=> Sub(q, s) \in DOMAIN refs
                                           /\ Sub(q, s) \in DOMAIN refs => refs'[Sub(q, s)] = refs[Sub(q, s)]
  PROVE  TreeInv(q)'
  <1>1. ASSUME HasTree(q), NEW s \in Steps PROVE StepInv(q, s)'
    <2>1. Own(q)' = Own(q) /\ Sub(q, s)' = Sub(q, s) /\ StepInv(q, s) /\ Own(q) \in DOMAIN refs
      BY <1>1 DEF Sub, TreeInv
    <2>2. lanes[q][s] \in Open => Sub(q, s) \in DOMAIN refs  BY <2>1 DEF StepInv
    <2>3. \A c : Mine(q, c)' <=> Mine(q, c)  BY <2>1, MineFrame
    <2> QED  BY <1>1, <2>1, <2>2, <2>3 DEF StepInv, Open
  <1>2. HasTree(q) => \A c : Mine(q, c)' <=> Mine(q, c)  BY MineFrame
  <1>3. run[q].at # "reusing" \/ TicketBranch \in DOMAIN refs'  BY DEF TreeInv
  <1> QED  BY <1>1, <1>2, <1>3 DEF TreeInv

\* What the runs of a clone share depends on its branches, its worktrees, and, as long as
\* there is no clone, on the remote.
LEMMA SharedFrame ==
  ASSUME GitInv, UNCHANGED <<base, refs, trees>>, base \/ UNCHANGED remote
  PROVE  SharedInv'
  <1>1. \A q \in Runs : HasTree(q)' = HasTree(q) /\ Own(q)' = Own(q)  BY DEF HasTree, Own
  <1>2. Untaken' = Untaken  BY <1>1 DEF Untaken
  <1> QED  BY <1>1, <1>2 DEF GitInv, SharedInv

\* The steps of a run that leave the repository and the lanes alone, and the run in a
\* place that fits them.
LEMMA GitOfPlace ==
  ASSUME GitInv, NEW r \in Runs, UNCHANGED <<git, lanes>>,
         \A q \in Runs \ {r} : run'[q] = run[q],
         run'[r].branch = run[r].branch,
         run'[r].at \in Early => ~HasTree(r),
         run'[r].at \in Early \cup {"failed", "dead"} \/ HasTree(r),
         run'[r].at \in {"naming", "adding"} => base,
         run'[r].at \notin {"adding", "reusing", "completed"}
  PROVE  GitInv'
  <1> USE DEF git
  <1>1. SharedInv'  BY SharedFrame
  <1>2. ASSUME NEW q \in Runs, q # r PROVE TreeInv(q)'
    <2>1. HasTree(q) => Own(q) \in DOMAIN refs  BY DEF GitInv, TreeInv
    <2> QED  BY <1>2, <2>1, TreeFrame DEF GitInv, HasTree, Own, Sub
  <1>3. TreeInv(r)'
    <2>m. \A c : Mine(r, c)' <=> Mine(r, c)  BY MineFrame DEF Own
    <2>1. ASSUME HasTree(r), NEW s \in Steps PROVE StepInv(r, s)'
      BY <2>m, <2>1 DEF GitInv, TreeInv, StepInv, Own, Sub
    <2> QED  BY <2>m, <2>1 DEF GitInv, TreeInv, HasTree, Own
  <1> QED  BY <1>1, <1>2, <1>3 DEF GitInv

-----------------------------------------------------------------------------
(* The run's own steps.                                                       *)

\* A step of a run that only moves it on.
Moves(r) ==
  \/ FindsBase(r) \/ (ClonesBase(r) /\ base) \/ StartsContainer(r) \/ CreatesClaim(r)
  \/ BindsSandbox(r) \/ ResumesEnvironment(r) \/ StoresHandle(r) \/ EndsPlan(r) \/ TearsDown(r)
  \/ (PushesBranch(r) /\ ~FastForward(Own(r))) \/ Crashes(r)

\* Moving on takes a run to a place that fits the repository.
LEMMA GitOfMoves ==
  ASSUME TypeOK, GitInv, NEW r \in Runs, Moves(r)
  PROVE  GitInv'
  <1>t. run \in [Runs -> [at : Places, branch : {<<>>} \cup Branches, handle : Handles, backend : Backends]]
    BY DEF TypeOK
  <1>1. UNCHANGED <<git, lanes>>
    BY DEF Moves, git, FindsBase, ClonesBase, StartsContainer, CreatesClaim, Creates, FailsToCreate, BindsSandbox,
           ResumesEnvironment, StoresHandle, EndsPlan, TearsDown, PushesBranch, Crashes
  <1>2. \E at \in {"cloning", "naming", "failed", "binding", "store", "plan", "teardown", "push", "dead"} :
          /\ \/ Goes(r, at)
             \/ \E h \in {None, "whole"} : run' = [run EXCEPT ![r].at = at, ![r].handle = h]
          /\ at \in Early => run[r].at = "start"
          /\ at = "naming" => base
          /\ at \in Early \cup {"failed", "dead"} \/ run[r].at \notin Early \cup {"failed", "dead"}
    BY DEF Moves, FindsBase, ClonesBase, StartsContainer, CreatesClaim, Creates, FailsToCreate, BindsSandbox,
           ResumesEnvironment, StoresHandle, EndsPlan, TearsDown, PushesBranch, Crashes, Early
  <1>3. PICK at \in {"cloning", "naming", "failed", "binding", "store", "plan", "teardown", "push", "dead"} :
          /\ \/ Goes(r, at)
             \/ \E h \in {None, "whole"} : run' = [run EXCEPT ![r].at = at, ![r].handle = h]
          /\ at \in Early => run[r].at = "start"
          /\ at = "naming" => base
          /\ at \in Early \cup {"failed", "dead"} \/ run[r].at \notin Early \cup {"failed", "dead"}
    BY <1>2
  <1>4. /\ \A q \in Runs \ {r} : run'[q] = run[q]
        /\ run'[r].branch = run[r].branch /\ run'[r].at = at
    BY <1>3, <1>t DEF Goes
  <1>5. TreeInv(r)  BY DEF GitInv
  <1>6. /\ at \in Early => ~HasTree(r)
        /\ at \in Early \cup {"failed", "dead"} \/ HasTree(r)
    BY <1>3, <1>5 DEF TreeInv, Early
  <1> QED  BY <1>1, <1>3, <1>4, <1>6, GitOfPlace

\* A clone has the branches of the remote, and no run has a worktree of it yet.
LEMMA GitOfClone ==
  ASSUME TypeOK, GitInv, NEW r \in Runs, ClonesBase(r), ~base
  PROVE  GitInv'
  <1>t. run \in [Runs -> [at : Places, branch : {<<>>} \cup Branches, handle : Handles, backend : Backends]]
    BY DEF TypeOK
  <1>1. /\ base' = TRUE /\ refs' = remote /\ run' = [run EXCEPT ![r].at = "naming"]
        /\ UNCHANGED <<remote, trees, lanes>> /\ run[r].at = "cloning"
    BY DEF ClonesBase, Goes
  <1>2. /\ DOMAIN trees = {} /\ DOMAIN remote \subseteq {TicketBranch}
        /\ TicketBranch \in DOMAIN remote => \A c \in remote[TicketBranch] : Other(c)
    BY DEF GitInv, SharedInv
  <1>3. ASSUME NEW q \in Runs PROVE ~HasTree(q) /\ ~HasTree(q)'  BY <1>1, <1>2 DEF HasTree
  <1>4. SharedInv'  BY <1>1, <1>2, <1>3 DEF SharedInv, TicketBranch
  <1>5. ASSUME NEW q \in Runs PROVE TreeInv(q)'
    <2>1. TreeInv(q)  BY DEF GitInv
    <2> QED  BY <1>t, <1>1, <1>3, <2>1 DEF TreeInv, Early
  <1> QED  BY <1>4, <1>5 DEF GitInv

\* A run that names its branch has no worktree yet.
LEMMA GitOfName ==
  ASSUME TypeOK, GitInv, NEW r \in Runs, NamesBranch(r)
  PROVE  GitInv'
  <1>t. run \in [Runs -> [at : Places, branch : {<<>>} \cup Branches, handle : Handles, backend : Backends]]
    BY DEF TypeOK
  <1>1. /\ run[r].at = "naming" /\ UNCHANGED <<base, refs, remote, trees, lanes>>
        /\ \/ run' = [run EXCEPT ![r].at = "adding", ![r].branch = AvailableName(r)]
           \/ TicketBranch \in DOMAIN refs /\ run' = [run EXCEPT ![r].at = "reusing", ![r].branch = TicketBranch]
           \/ run' = [run EXCEPT ![r].at = "failed"]
    BY DEF NamesBranch, git, Goes
  <1>2. SharedInv'  BY <1>1, SharedFrame
  <1>3. TreeInv(r)'
    <2>1. TreeInv(r)  BY DEF GitInv
    <2>2. /\ ~HasTree(r) /\ ~HasTree(r)' /\ base' /\ \A s \in Steps : lanes'[r][s] = "todo"
      BY <1>1, <2>1 DEF TreeInv, Early, HasTree
    <2>3. /\ run'[r].at \in {"adding", "reusing", "failed"}
          /\ run'[r].at = "adding" => run'[r].branch \in {TicketBranch, OwnBranch(r)}
          /\ run'[r].at = "reusing" => run'[r].branch = TicketBranch /\ TicketBranch \in DOMAIN refs'
      BY <1>t, <1>1 DEF AvailableName
    <2> QED  BY <2>2, <2>3 DEF TreeInv, Early
  <1>4. ASSUME NEW q \in Runs, q # r PROVE TreeInv(q)'
    <2>1. TreeInv(q)  BY DEF GitInv
    <2>2. HasTree(q) => Own(q) \in DOMAIN refs  BY <2>1 DEF TreeInv
    <2>3. run'[q] = run[q]  BY <1>t, <1>1, <1>4
    <2> QED  BY <1>1, <2>1, <2>2, <2>3, TreeFrame DEF HasTree, Own, Sub
  <1> QED  BY <1>2, <1>3, <1>4 DEF GitInv

\* A new worktree is on a branch of its own, and no branch of a step bears its prefix.
LEMMA GitOfTree ==
  ASSUME TypeOK, GitInv, NEW r \in Runs, AddsWorktree(r), run[r].branch \notin DOMAIN refs
  PROVE  GitInv'
  <1> DEFINE b == run[r].branch
  <1>t. run \in [Runs -> [at : Places, branch : {<<>>} \cup Branches, handle : Handles, backend : Backends]]
    BY DEF TypeOK
  <1>1. /\ refs' = With(refs, b, {}) /\ trees' = With(trees, <<r, None>>, b)
        /\ run' = [run EXCEPT ![r].at = "prepare"] /\ run[r].at = "adding" /\ UNCHANGED <<base, remote, lanes>>
    BY DEF AddsWorktree, Goes
  <1>2. /\ TreeInv(r) /\ ~HasTree(r) /\ base /\ b \in {TicketBranch, OwnBranch(r)}
        /\ \A s \in Steps : lanes[r][s] = "todo"
    BY <1>1 DEF GitInv, TreeInv, Early
  <1>3. /\ DOMAIN refs' = DOMAIN refs \cup {b} /\ refs'[b] = {}
        /\ \A c \in DOMAIN refs : c # b => refs'[c] = refs[c]
        /\ DOMAIN trees' = DOMAIN trees \cup {<<r, None>>} /\ trees'[<<r, None>>] = b
        /\ \A p \in DOMAIN trees : p # <<r, None>> => trees'[p] = trees[p]
    <2>1. /\ DOMAIN refs' = DOMAIN refs \cup {b} /\ refs'[b] = {}
          /\ \A c \in DOMAIN refs : c # b => refs'[c] = refs[c]
      BY <1>1 DEF With
    <2>2. /\ DOMAIN trees' = DOMAIN trees \cup {<<r, None>>} /\ trees'[<<r, None>>] = b
          /\ \A p \in DOMAIN trees : p # <<r, None>> => trees'[p] = trees[p]
      BY <1>1 DEF With
    <2> QED  BY <2>1, <2>2
  <1>4. HasTree(r)' /\ Own(r)' = b /\ b = <<b[1], None>>
    BY <1>2, <1>3 DEF HasTree, Own, TicketBranch, OwnBranch
  <1>5. ASSUME NEW q \in Runs, q # r
        PROVE  /\ HasTree(q)' <=> HasTree(q)
               /\ HasTree(q) => Own(q)' = Own(q) /\ Own(q) \in DOMAIN refs /\ Own(q) # b /\ Own(q)[1] # b[1]
    <2>1. HasTree(q)' <=> HasTree(q)  BY <1>3, <1>5 DEF HasTree
    <2>2. HasTree(q) => Own(q)' = Own(q)  BY <1>3, <1>5 DEF HasTree, Own
    <2>3. HasTree(q) => Own(q) \in DOMAIN refs /\ Own(q) \in {TicketBranch, OwnBranch(q)}
      BY DEF GitInv, TreeInv
    <2>4. HasTree(q) => Own(q) # b /\ Own(q) = <<Own(q)[1], None>>
      BY <2>3 DEF TicketBranch, OwnBranch
    <2> QED  BY <2>1, <2>2, <2>3, <2>4, <1>4
  <1>6. ASSUME NEW s \in Steps PROVE Sub(r, s)' \notin DOMAIN refs'
    <2>1. Sub(r, s)' = <<b[1], s>>  BY <1>1, <1>t DEF Sub, StepBranch
    <2>2. s # None  BY DEF None
    <2>3. <<b[1], s>> # b  BY <2>2, <1>4
    <2>4. SUFFICES ASSUME <<b[1], s>> \in DOMAIN refs PROVE FALSE  BY <2>1, <2>3, <1>3
    <2>5. PICK q \in Runs : HasTree(q) /\ Own(q)[1] = b[1]  BY <2>2, <2>4 DEF GitInv, SharedInv
    <2> QED  BY <2>5, <1>2, <1>5
  <1>7. SharedInv'
    <2>1. \A p, q \in Runs : HasTree(p)' /\ HasTree(q)' /\ Own(p)' = Own(q)' => p = q
      BY <1>4, <1>5 DEF GitInv, SharedInv
    <2>2. ASSUME NEW c \in DOMAIN refs', c[2] # None PROVE \E q \in Runs : HasTree(q)' /\ Own(q)'[1] = c[1]
      <3>1. c \in DOMAIN refs  BY <2>2, <1>3, <1>4
      <3>2. PICK q \in Runs : HasTree(q) /\ Own(q)[1] = c[1]  BY <3>1, <2>2 DEF GitInv, SharedInv
      <3> QED  BY <3>2, <1>2, <1>5
    <2>3. ASSUME Untaken', b # TicketBranch, TicketBranch \in DOMAIN refs'
          PROVE  \A c \in refs'[TicketBranch] : Other(c)
      <3>1. Untaken  BY <1>2, <1>5, <2>3 DEF Untaken
      <3> QED  BY <1>3, <2>3, <3>1 DEF GitInv, SharedInv
    <2>4. b = TicketBranch => \A c \in refs'[TicketBranch] : Other(c)  BY <1>3
    <2> QED  BY <1>1, <1>2, <2>1, <2>2, <2>3, <2>4 DEF SharedInv
  <1>8. TreeInv(r)'
    <2>1. ASSUME NEW s \in Steps PROVE StepInv(r, s)'  BY <1>1, <1>2, <1>6 DEF StepInv, Open
    <2> QED  BY <1>t, <1>1, <1>2, <1>3, <1>4, <2>1 DEF TreeInv, Early
  <1>9. ASSUME NEW q \in Runs, q # r PROVE TreeInv(q)'
    <2>1. TreeInv(q) /\ run'[q] = run[q]  BY <1>t, <1>1, <1>9 DEF GitInv
    <2>2. ASSUME HasTree(q), NEW s \in Steps PROVE Sub(q, s) # b
      BY <1>4, <2>2, Branching DEF None
    <2> QED  BY <1>1, <1>3, <1>5, <1>9, <2>1, <2>2, TreeFrame
  <1> QED  BY <1>7, <1>8, <1>9 DEF GitInv

\* A worktree of a branch that was there: no run had it, and it is as the remote had it.
LEMMA GitOfReuse ==
  ASSUME TypeOK, GitInv, NEW r \in Runs, ReusesBranch(r), ~CheckedOut(run[r].branch)
  PROVE  GitInv'
  <1> DEFINE b == TicketBranch
  <1>t. run \in [Runs -> [at : Places, branch : {<<>>} \cup Branches, handle : Handles, backend : Backends]]
    BY DEF TypeOK
  <1>1. run[r].at = "reusing"  BY DEF ReusesBranch
  <1>2. /\ TreeInv(r) /\ ~HasTree(r) /\ base /\ run[r].branch = b /\ b \in DOMAIN refs
        /\ \A s \in Steps : lanes[r][s] = "todo"
    BY <1>1 DEF GitInv, TreeInv, Early
  <1>3. /\ trees' = With(trees, <<r, None>>, b) /\ UNCHANGED <<base, refs, remote, lanes>>
        /\ run' = [run EXCEPT ![r].at = "prepare"]
    BY <1>2 DEF ReusesBranch, Goes
  <1>4. /\ DOMAIN trees' = DOMAIN trees \cup {<<r, None>>} /\ trees'[<<r, None>>] = b
        /\ \A p \in DOMAIN trees : p # <<r, None>> => trees'[p] = trees[p]
    BY <1>3 DEF With
  <1>5. Untaken /\ \A c \in refs[b] : Other(c)
    <2>1. Untaken  BY <1>2 DEF Untaken, CheckedOut, HasTree, Own
    <2> QED  BY <1>2, <2>1 DEF GitInv, SharedInv
  <1>6. HasTree(r)' /\ Own(r)' = b  BY <1>4 DEF HasTree, Own
  <1>7. ASSUME NEW q \in Runs, q # r
        PROVE  /\ HasTree(q)' <=> HasTree(q)
               /\ HasTree(q) => Own(q)' = Own(q) /\ Own(q) \in DOMAIN refs /\ Own(q) # b /\ Own(q)[1] # b[1]
    <2>1. HasTree(q)' <=> HasTree(q)  BY <1>4, <1>7 DEF HasTree
    <2>2. HasTree(q) => Own(q)' = Own(q)  BY <1>4, <1>7 DEF HasTree, Own
    <2>3. HasTree(q) => Own(q) \in DOMAIN refs /\ Own(q) \in {TicketBranch, OwnBranch(q)}
      BY DEF GitInv, TreeInv
    <2>4. HasTree(q) => Own(q) # b /\ Own(q) = <<Own(q)[1], None>>
      BY <1>5, <2>3 DEF TicketBranch, OwnBranch, Untaken
    <2> QED  BY <2>1, <2>2, <2>3, <2>4 DEF TicketBranch
  <1>8. ASSUME NEW s \in Steps PROVE Sub(r, s)' \notin DOMAIN refs'
    <2>1. Sub(r, s)' = <<b[1], s>>  BY <1>2, <1>3, <1>t DEF Sub, StepBranch
    <2>2. s # None  BY DEF None
    <2>3. SUFFICES ASSUME <<b[1], s>> \in DOMAIN refs PROVE FALSE  BY <2>1, <1>3
    <2>4. PICK q \in Runs : HasTree(q) /\ Own(q)[1] = b[1]  BY <2>2, <2>3 DEF GitInv, SharedInv
    <2> QED  BY <2>4, <1>2, <1>7
  <1>9. SharedInv'
    <2>1. \A p, q \in Runs : HasTree(p)' /\ HasTree(q)' /\ Own(p)' = Own(q)' => p = q
      BY <1>6, <1>7 DEF GitInv, SharedInv
    <2>2. ASSUME NEW c \in DOMAIN refs', c[2] # None PROVE \E q \in Runs : HasTree(q)' /\ Own(q)'[1] = c[1]
      <3>1. PICK q \in Runs : HasTree(q) /\ Own(q)[1] = c[1]  BY <1>3, <2>2 DEF GitInv, SharedInv
      <3> QED  BY <3>1, <1>2, <1>7
    <2>3. \A c \in refs'[b] : Other(c)  BY <1>3, <1>5
    <2> QED  BY <1>2, <1>3, <2>1, <2>2, <2>3 DEF SharedInv
  <1>10. TreeInv(r)'
    <2>1. ASSUME NEW s \in Steps PROVE StepInv(r, s)'  BY <1>2, <1>3, <1>8 DEF StepInv, Open
    <2>2. \A c \in refs'[b] : Mine(r, c)'  BY <1>3, <1>5, <1>6 DEF Mine
    <2> QED  BY <1>t, <1>2, <1>3, <1>6, <2>1, <2>2 DEF TreeInv, Early
  <1>11. ASSUME NEW q \in Runs, q # r PROVE TreeInv(q)'
    <2>1. TreeInv(q) /\ run'[q] = run[q]  BY <1>t, <1>3, <1>11 DEF GitInv
    <2> QED  BY <1>3, <1>7, <1>11, <2>1, TreeFrame
  <1> QED  BY <1>9, <1>10, <1>11 DEF GitInv

\* A push leaves the remote's other branches alone; nothing that the branch holds is
\* missing there.
LEMMA GitOfPush ==
  ASSUME TypeOK, GitInv, NEW r \in Runs, PushesBranch(r), FastForward(Own(r))
  PROVE  GitInv'
  <1>t. run \in [Runs -> [at : Places, branch : {<<>>} \cup Branches, handle : Handles, backend : Backends]]
    BY DEF TypeOK
  <1>1. /\ remote' = With(remote, Own(r), refs[Own(r)]) /\ run' = [run EXCEPT ![r].at = "completed"]
        /\ run[r].at = "push" /\ UNCHANGED <<base, refs, trees, lanes>>
    BY DEF PushesBranch, Goes
  <1>2. TreeInv(r) /\ HasTree(r) /\ base
    BY <1>1 DEF GitInv, TreeInv, SharedInv, HasTree, Early
  <1>3. /\ Own(r) \in DOMAIN remote' /\ remote'[Own(r)] = refs[Own(r)]
        /\ \A b \in DOMAIN remote : b # Own(r) => b \in DOMAIN remote' /\ remote'[b] = remote[b]
    BY <1>1 DEF With
  <1>4. SharedInv'  BY <1>1, <1>2, SharedFrame
  <1>5. TreeInv(r)'
    <2>m. \A c : Mine(r, c)' <=> Mine(r, c)  BY <1>1, MineFrame DEF Own
    <2>1. ASSUME NEW s \in Steps PROVE StepInv(r, s)'
      <3>1. StepInv(r, s) /\ Sub(r, s)' = Sub(r, s) /\ Own(r)' = Own(r)
        BY <1>1, <1>2, <1>t DEF TreeInv, Sub, Own
      <3> QED  BY <2>m, <1>1, <1>3, <3>1 DEF StepInv
    <2> QED  BY <2>m, <1>t, <1>1, <1>2, <2>1 DEF TreeInv, Early, HasTree, Own
  <1>6. ASSUME NEW q \in Runs, q # r PROVE TreeInv(q)'
    <2>1. TreeInv(q)  BY DEF GitInv
    <2>2. HasTree(q) => Own(q) \in DOMAIN refs /\ Own(q) # Own(r)
      BY <1>2, <1>6, <2>1 DEF TreeInv, GitInv, SharedInv
    <2>3. run'[q] = run[q]  BY <1>t, <1>1, <1>6
    <2>4. HasTree(q)' <=> HasTree(q)  BY <1>1 DEF HasTree
    <2>5. Own(q)' = Own(q)  BY <1>1 DEF Own
    <2> QED  BY <1>1, <1>3, <2>1, <2>2, <2>3, <2>4, <2>5, TreeFrame
  <1> QED  BY <1>4, <1>5, <1>6 DEF GitInv

\* A run that is resumed keeps the steps that were merged, and begins the others again.
LEMMA GitOfResume ==
  ASSUME TypeOK, GitInv, NEW r \in Runs, Resumes(r)
  PROVE  GitInv'
  <1>t. /\ run \in [Runs -> [at : Places, branch : {<<>>} \cup Branches, handle : Handles, backend : Backends]]
        /\ lanes \in [Runs -> [Steps -> LaneStates]]
    BY DEF TypeOK
  <1>1. /\ run' = [run EXCEPT ![r].at = "prepare", ![r].handle = Recovered(r)] /\ HasTree(r)
        /\ lanes' = [lanes EXCEPT ![r] = [s \in Steps |-> IF @[s] \in Done THEN @[s] ELSE "todo"]]
        /\ UNCHANGED <<base, refs, remote, trees>>
    BY DEF Resumes, git, HasTree
  <1>2. SharedInv'  BY <1>1, SharedFrame
  <1>3. TreeInv(r)'
    <2>m. \A c : Mine(r, c)' <=> Mine(r, c)  BY <1>1, MineFrame DEF Own
    <2>1. ASSUME NEW s \in Steps PROVE StepInv(r, s)'
      <3>b. run'[r].branch = run[r].branch  BY <1>1, <1>t
      <3>1. StepInv(r, s) /\ Sub(r, s)' = Sub(r, s) /\ Own(r)' = Own(r)
        BY <1>1, <3>b DEF GitInv, TreeInv, Sub, Own
      <3>2. lanes'[r][s] = "todo" \/ (lanes'[r][s] = lanes[r][s] /\ lanes[r][s] \in Done)  BY <1>1, <1>t
      <3> QED  BY <1>1, <1>t, <2>m, <3>1, <3>2 DEF StepInv, Open, Done
    <2>2. TreeInv(r)  BY DEF GitInv
    <2>3. run'[r].at = "prepare" /\ run'[r].branch = run[r].branch  BY <1>t, <1>1
    <2>4. /\ HasTree(r)' /\ Own(r)' = Own(r) /\ Own(r) = run[r].branch
          /\ Own(r) \in {TicketBranch, OwnBranch(r)} /\ Own(r) \in DOMAIN refs
          /\ \A c \in refs[Own(r)] : Mine(r, c)'
      BY <1>1, <2>m, <2>2 DEF TreeInv, HasTree, Own
    <2> QED  BY <1>1, <2>1, <2>3, <2>4 DEF TreeInv, Early
  <1>4. ASSUME NEW q \in Runs, q # r PROVE TreeInv(q)'
    <2>1. TreeInv(q)  BY DEF GitInv
    <2>2. HasTree(q) => Own(q) \in DOMAIN refs  BY <2>1 DEF TreeInv
    <2>3. run'[q] = run[q] /\ lanes'[q] = lanes[q]  BY <1>t, <1>1, <1>4
    <2> QED  BY <1>1, <2>1, <2>2, <2>3, TreeFrame DEF HasTree, Own, Sub
  <1> QED  BY <1>2, <1>3, <1>4 DEF GitInv

-----------------------------------------------------------------------------
(* The steps of a parallel group.                                             *)

\* A lane that works on its run's branch and on its own leaves the invariant to be shown
\* of itself alone.
LEMMA LaneFrame ==
  ASSUME TypeOK, GitInv, NEW r \in Runs, NEW s \in Steps, NEW to,
         HasTree(r), run[r].at # "completed", LaneGoes(r, s, to), UNCHANGED <<base, run>>,
         \A q \in Runs : HasTree(q)' <=> HasTree(q),
         \A q \in Runs : HasTree(q) => Own(q)' = Own(q),
         \A b : b \notin {Own(r), Sub(r, s)} =>
                  /\ b \in DOMAIN refs' <=> b \in DOMAIN refs
                  /\ b \in DOMAIN refs => refs'[b] = refs[b],
         \A b \in DOMAIN remote : b # Sub(r, s) => b \in DOMAIN remote' /\ remote'[b] = remote[b],
         Own(r) \in DOMAIN refs', refs[Own(r)] \subseteq refs'[Own(r)],
         \A c \in refs'[Own(r)] : Mine(r, c),
         StepInv(r, s)'
  PROVE  GitInv'
  <1>t. lanes \in [Runs -> [Steps -> LaneStates]]  BY DEF TypeOK
  <1>1. TreeInv(r)  BY DEF GitInv
  <1>m. \A c : Mine(r, c)' <=> Mine(r, c)  BY MineFrame
  <1>f. /\ TicketBranch \in DOMAIN refs => TicketBranch \in DOMAIN refs'
        /\ Untaken' <=> Untaken
        /\ Untaken => /\ TicketBranch \in DOMAIN refs' <=> TicketBranch \in DOMAIN refs
                      /\ TicketBranch \in DOMAIN refs => refs'[TicketBranch] = refs[TicketBranch]
    <2>1. Untaken' <=> Untaken  BY DEF Untaken
    <2>2. Sub(r, s)[2] # None /\ TicketBranch[2] = None  BY Branching DEF TicketBranch, None
    <2> QED  BY <2>1, <2>2 DEF Untaken
  <1>2. /\ \A q \in Runs \ {r} : lanes'[q] = lanes[q]
        /\ \A t \in Steps \ {s} : lanes'[r][t] = lanes[r][t]
    BY <1>t DEF LaneGoes
  <1>3. ASSUME NEW q \in Runs, NEW t \in Steps, HasTree(q), q # r \/ t # s
        PROVE  Sub(q, t) \notin {Own(r), Sub(r, s)}
    BY <1>3, Branching
  <1>4. ASSUME NEW q \in Runs, q # r, HasTree(q) PROVE Own(q) \notin {Own(r), Sub(r, s)}
    BY <1>4, Branching DEF GitInv, SharedInv
  <1>5. SharedInv'
    <2>1. \A p, q \in Runs : HasTree(p)' /\ HasTree(q)' /\ Own(p)' = Own(q)' => p = q
      BY DEF GitInv, SharedInv
    <2>2. ASSUME NEW b \in DOMAIN refs', b[2] # None PROVE \E q \in Runs : HasTree(q)' /\ Own(q)'[1] = b[1]
      <3>1. Own(r)[2] = None /\ Sub(r, s)[1] = Own(r)[1]  BY Branching
      <3>2. CASE b = Sub(r, s)  BY <3>1, <3>2
      <3>3. CASE b # Sub(r, s)
        <4>1. b \in DOMAIN refs  BY <2>2, <3>1, <3>3
        <4>2. PICK q \in Runs : HasTree(q) /\ Own(q)[1] = b[1]  BY <2>2, <4>1 DEF GitInv, SharedInv
        <4> QED  BY <4>2
      <3> QED  BY <3>2, <3>3
    <2>3. base  BY DEF GitInv, SharedInv, HasTree
    <2>4. Untaken' /\ TicketBranch \in DOMAIN refs' => \A c \in refs'[TicketBranch] : Other(c)
      BY <1>f DEF GitInv, SharedInv
    <2> QED  BY <2>1, <2>2, <2>3, <2>4 DEF SharedInv
  <1>6. TreeInv(r)'
    <2>1. ASSUME NEW t \in Steps, t # s PROVE StepInv(r, t)'
      <3>1. StepInv(r, t) /\ Sub(r, t)' = Sub(r, t)  BY <1>1 DEF TreeInv, Sub
      <3>2. /\ Sub(r, t) \in DOMAIN refs' <=> Sub(r, t) \in DOMAIN refs
            /\ Sub(r, t) \in DOMAIN refs => refs'[Sub(r, t)] = refs[Sub(r, t)]
        BY <1>3, <2>1
      <3>3. lanes'[r][t] = lanes[r][t]  BY <1>2, <2>1
      <3> QED  BY <1>m, <3>1, <3>2, <3>3 DEF StepInv, Open
    <2> QED  BY <1>1, <1>f, <1>m, <2>1 DEF TreeInv
  <1>7. ASSUME NEW q \in Runs, q # r PROVE TreeInv(q)'
    <2>1. TreeInv(q)  BY DEF GitInv
    <2>2. HasTree(q) => Own(q) \in DOMAIN refs  BY <2>1 DEF TreeInv
    <2>3. HasTree(q) => \A t \in Steps : Sub(q, t) \notin {Own(r), Sub(r, s)}  BY <1>3, <1>7
    <2> QED  BY <1>2, <1>f, <1>4, <1>7, <2>1, <2>2, <2>3, TreeFrame
  <1> QED  BY <1>5, <1>6, <1>7 DEF GitInv

\* What is known of a run with a lane that goes on.
LEMMA LaneIs ==
  ASSUME TypeOK, GitInv, NEW r \in Runs, NEW s \in Steps, run[r].at = "plan" \/ lanes[r][s] # "todo"
  PROVE  /\ HasTree(r) /\ base /\ StepInv(r, s) /\ Sub(r, s) # Own(r)
         /\ Own(r) = run[r].branch /\ Own(r) \in DOMAIN refs /\ Own(r) \in Branches /\ Sub(r, s) \in Branches
         /\ \A c \in refs[Own(r)] : Mine(r, c)
         /\ \A q \in Runs : <<q, None>> # <<r, s>>
  <1>1. TreeInv(r)  BY DEF GitInv
  <1>2. HasTree(r)  BY <1>1 DEF TreeInv, Early
  <1>3. base  BY <1>2 DEF GitInv, SharedInv, HasTree
  <1>4. s # None  BY DEF None
  <1> QED  BY <1>1, <1>2, <1>3, <1>4, Branching DEF TreeInv

\* A new worktree of a step begins with what the run's branch holds.
LEMMA GitOfSubWorktree ==
  ASSUME TypeOK, GitInv, NEW r \in Runs, NEW s \in Steps, AddsSubWorktree(r, s)
  PROVE  GitInv'
  <1>t. lanes \in [Runs -> [Steps -> LaneStates]]  BY DEF TypeOK
  <1>1. run[r].at = "plan" /\ UNCHANGED <<base, remote, run>>  BY DEF AddsSubWorktree
  <1>2. LET b == Sub(r, s) IN
        /\ HasTree(r) /\ StepInv(r, s) /\ b # Own(r) /\ Own(r) \in DOMAIN refs
        /\ \A c \in refs[Own(r)] : Mine(r, c)
        /\ \A q \in Runs : <<q, None>> # <<r, s>>
    BY <1>1, LaneIs
  <1>3. CASE Sub(r, s) \in DOMAIN refs
    <2>1. LaneGoes(r, s, "thrown") /\ UNCHANGED <<refs, trees>>  BY <1>3 DEF AddsSubWorktree
    <2>2. lanes'[r][s] = "thrown"  BY <1>t, <2>1 DEF LaneGoes
    <2>m. \A c : Mine(r, c)' <=> Mine(r, c)  BY <2>1, MineFrame DEF Own
    <2>3. StepInv(r, s)'  BY <1>1, <1>2, <2>m, <2>1, <2>2 DEF StepInv, Open, Sub
    <2> QED  BY <1>1, <1>2, <2>1, <2>3, LaneFrame DEF HasTree, Own
  <1>4. CASE Sub(r, s) \notin DOMAIN refs
    <2>1. /\ refs' = With(refs, Sub(r, s), refs[Own(r)]) /\ trees' = With(trees, <<r, s>>, Sub(r, s))
          /\ LaneGoes(r, s, "working")
      BY <1>4 DEF AddsSubWorktree
    <2>2. lanes'[r][s] = "working"  BY <1>t, <2>1 DEF LaneGoes
    <2>3. /\ DOMAIN refs' = DOMAIN refs \cup {Sub(r, s)} /\ refs'[Sub(r, s)] = refs[Own(r)]
          /\ \A b \in DOMAIN refs : b # Sub(r, s) => refs'[b] = refs[b]
      BY <2>1 DEF With
    <2>4. /\ DOMAIN trees' = DOMAIN trees \cup {<<r, s>>}
          /\ \A p \in DOMAIN trees : p # <<r, s>> => trees'[p] = trees[p]
      BY <2>1 DEF With
    <2>5. /\ \A q \in Runs : HasTree(q)' <=> HasTree(q)
          /\ \A q \in Runs : HasTree(q) => Own(q)' = Own(q)
      BY <1>2, <2>4 DEF HasTree, Own
    <2>6. Sub(r, s)' = Sub(r, s)  BY <1>1 DEF Sub
    <2>m. \A c : Mine(r, c)' <=> Mine(r, c)  BY <1>2, <2>5, MineFrame
    <2>7. StepInv(r, s)'  BY <1>2, <2>m, <2>2, <2>3, <2>6 DEF StepInv, Open
    <2>8. refs'[Own(r)] = refs[Own(r)] /\ Own(r) \in DOMAIN refs'  BY <1>2, <2>3
    <2>9. \A b : b \notin {Own(r), Sub(r, s)} => /\ b \in DOMAIN refs' <=> b \in DOMAIN refs
                                                 /\ b \in DOMAIN refs => refs'[b] = refs[b]
      BY <2>3
    <2>10. \A b \in DOMAIN remote : b # Sub(r, s) => b \in DOMAIN remote' /\ remote'[b] = remote[b]  BY <1>1
    <2>11. /\ \A c \in refs'[Own(r)] : Mine(r, c)
           /\ refs[Own(r)] \subseteq refs'[Own(r)] /\ run[r].at # "completed"
      BY <1>1, <1>2, <2>8
    <2> QED  BY <1>1, <1>2, <2>1, <2>5, <2>7, <2>8, <2>9, <2>10, <2>11, LaneFrame
  <1> QED  BY <1>3, <1>4

\* A commit is the step's own, on the step's branch, here and perhaps on the remote.
LEMMA GitOfCommit ==
  ASSUME TypeOK, GitInv, NEW r \in Runs, NEW s \in Steps, run[r].at # "completed", CommitsStep(r, s)
  PROVE  GitInv'
  <1> DEFINE b == Sub(r, s)
             now == refs[b] \cup {<<r, s>>}
  <1>t. lanes \in [Runs -> [Steps -> LaneStates]]  BY DEF TypeOK
  <1>1. /\ lanes[r][s] = "working" /\ LaneGoes(r, s, "committed") /\ UNCHANGED <<base, trees, run>>
        /\ refs' = [refs EXCEPT ![b] = now]
        /\ remote' = remote \/ remote' = With(remote, b, now)
    BY DEF CommitsStep
  <1>2. /\ HasTree(r) /\ StepInv(r, s) /\ b # Own(r) /\ Own(r) \in DOMAIN refs
        /\ \A c \in refs[Own(r)] : Mine(r, c)
    BY <1>1, LaneIs
  <1>3. b \in DOMAIN refs /\ \A c \in refs[b] : Mine(r, c)  BY <1>1, <1>2 DEF StepInv, Open
  <1>4. /\ DOMAIN refs' = DOMAIN refs /\ refs'[b] = now
        /\ \A c \in DOMAIN refs : c # b => refs'[c] = refs[c]
    BY <1>1, <1>3
  <1>5. \A c \in DOMAIN remote : c # b => c \in DOMAIN remote' /\ remote'[c] = remote[c]
    BY <1>1 DEF With
  <1>6. Sub(r, s)' = b  BY <1>1 DEF Sub
  <1>7. lanes'[r][s] = "committed"  BY <1>t, <1>1 DEF LaneGoes
  <1>8. \A c \in now : Mine(r, c)  BY <1>3 DEF Mine
  <1>m. \A c : Mine(r, c)' <=> Mine(r, c)  BY <1>1, MineFrame DEF Own
  <1>9. StepInv(r, s)'  BY <1>m, <1>3, <1>4, <1>6, <1>7, <1>8 DEF StepInv, Open
  <1>10. \A q \in Runs : HasTree(q)' = HasTree(q) /\ Own(q)' = Own(q)  BY <1>1 DEF HasTree, Own
  <1>11. refs'[Own(r)] = refs[Own(r)] /\ Own(r) \in DOMAIN refs'  BY <1>2, <1>4
  <1>12. \A c : c \notin {Own(r), b} => /\ c \in DOMAIN refs' <=> c \in DOMAIN refs
                                        /\ c \in DOMAIN refs => refs'[c] = refs[c]
    BY <1>4
  <1> HIDE DEF b, now
  <1>13. b = Sub(r, s)  BY DEF b
  <1> QED  BY <1>1, <1>2, <1>5, <1>9, <1>10, <1>11, <1>12, <1>13, LaneFrame

\* A step whose worktree is removed leaves no branch behind, and nothing on the run's
\* branch unless it was merged.
LEMMA GitOfRemove ==
  ASSUME TypeOK, GitInv, NEW r \in Runs, NEW s \in Steps, NEW to \in {"failed", "idle"},
         run[r].at # "completed", lanes[r][s] # "todo", Removes(r, s), LaneGoes(r, s, to), UNCHANGED <<base, remote, run>>
  PROVE  GitInv'
  <1>t. lanes \in [Runs -> [Steps -> LaneStates]]  BY DEF TypeOK
  <1>1. /\ HasTree(r) /\ StepInv(r, s) /\ Sub(r, s) # Own(r) /\ Own(r) \in DOMAIN refs
        /\ \A c \in refs[Own(r)] : Mine(r, c)
        /\ \A q \in Runs : <<q, None>> # <<r, s>>
    BY LaneIs
  <1>2. /\ DOMAIN refs' = DOMAIN refs \ {Sub(r, s)}
        /\ \A c \in DOMAIN refs : c # Sub(r, s) => refs'[c] = refs[c]
    BY DEF Removes, Without
  <1>3. /\ DOMAIN trees' = DOMAIN trees \ {<<r, s>>}
        /\ \A p \in DOMAIN trees : p # <<r, s>> => trees'[p] = trees[p]
    BY DEF Removes, Without
  <1>4. /\ \A q \in Runs : HasTree(q)' <=> HasTree(q)
        /\ \A q \in Runs : HasTree(q) => Own(q)' = Own(q)
    BY <1>1, <1>3 DEF HasTree, Own
  <1>5. lanes'[r][s] = to  BY <1>t DEF LaneGoes
  <1>6. Sub(r, s)' = Sub(r, s)  BY DEF Sub
  <1>7. StepInv(r, s)'  BY <1>2, <1>5, <1>6 DEF StepInv, Open
  <1>8. refs'[Own(r)] = refs[Own(r)] /\ Own(r) \in DOMAIN refs'  BY <1>1, <1>2
  <1>9. \A b : b \notin {Own(r), Sub(r, s)} => /\ b \in DOMAIN refs' <=> b \in DOMAIN refs
                                               /\ b \in DOMAIN refs => refs'[b] = refs[b]
    BY <1>2
  <1>10. \A b \in DOMAIN remote : b # Sub(r, s) => b \in DOMAIN remote' /\ remote'[b] = remote[b]  OBVIOUS
  <1>11. (\A c \in refs'[Own(r)] : Mine(r, c)) /\ refs[Own(r)] \subseteq refs'[Own(r)]  BY <1>1, <1>8
  <1> QED  BY <1>1, <1>4, <1>7, <1>8, <1>9, <1>10, <1>11, LaneFrame

\* A merge brings the step's commits to the run's branch, or fails; either way the step's
\* branch is gone.
LEMMA GitOfMerge ==
  ASSUME TypeOK, GitInv, NEW r \in Runs, NEW s \in Steps, run[r].at # "completed", MergesStep(r, s)
  PROVE  GitInv'
  <1> DEFINE theirs == refs[Sub(r, s)]
             mine == refs[Own(r)]
  <1>t. lanes \in [Runs -> [Steps -> LaneStates]]  BY DEF TypeOK
  <1>1. /\ lanes[r][s] = "committed" /\ UNCHANGED <<base, remote, run>> /\ trees' = Without(trees, <<r, s>>)
        /\ \/ refs' = Without([refs EXCEPT ![Own(r)] = mine \cup theirs], Sub(r, s)) /\ LaneGoes(r, s, "merged")
           \/ refs' = Without(refs, Sub(r, s)) /\ LaneGoes(r, s, "thrown")
    BY DEF MergesStep
  <1>2. /\ HasTree(r) /\ StepInv(r, s) /\ Sub(r, s) # Own(r) /\ Own(r) \in DOMAIN refs
        /\ \A c \in refs[Own(r)] : Mine(r, c)
        /\ \A q \in Runs : <<q, None>> # <<r, s>>
    BY <1>1, LaneIs
  <1>3. <<r, s>> \in theirs /\ \A c \in theirs : Mine(r, c)  BY <1>1, <1>2 DEF StepInv, Open
  <1>4. /\ DOMAIN trees' = DOMAIN trees \ {<<r, s>>}
        /\ \A p \in DOMAIN trees : p # <<r, s>> => trees'[p] = trees[p]
    BY <1>1 DEF Without
  <1>5. /\ \A q \in Runs : HasTree(q)' <=> HasTree(q)
        /\ \A q \in Runs : HasTree(q) => Own(q)' = Own(q)
    BY <1>2, <1>4 DEF HasTree, Own
  <1>6. Sub(r, s)' = Sub(r, s)  BY <1>1 DEF Sub
  <1>7. /\ DOMAIN refs' = DOMAIN refs \ {Sub(r, s)}
        /\ \A b \in DOMAIN refs : b \notin {Own(r), Sub(r, s)} => refs'[b] = refs[b]
    BY <1>1 DEF Without
  <1>8. \/ refs'[Own(r)] = mine \cup theirs /\ lanes'[r][s] = "merged"
        \/ refs'[Own(r)] = mine /\ lanes'[r][s] = "thrown"
    <2>1. CASE refs' = Without([refs EXCEPT ![Own(r)] = mine \cup theirs], Sub(r, s)) /\ LaneGoes(r, s, "merged")
      <3>1. lanes'[r][s] = "merged"  BY <1>t, <2>1 DEF LaneGoes
      <3>2. refs'[Own(r)] = mine \cup theirs  BY <1>2, <2>1 DEF Without
      <3> QED  BY <3>1, <3>2
    <2>2. CASE refs' = Without(refs, Sub(r, s)) /\ LaneGoes(r, s, "thrown")
      <3>1. lanes'[r][s] = "thrown"  BY <1>t, <2>2 DEF LaneGoes
      <3>2. refs'[Own(r)] = mine  BY <1>2, <2>2 DEF Without
      <3> QED  BY <3>1, <3>2
    <2> QED  BY <1>1, <2>1, <2>2
  <1>9. Own(r)' = Own(r)  BY <1>2, <1>5
  <1>10. StepInv(r, s)'  BY <1>1, <1>3, <1>6, <1>7, <1>8, <1>9 DEF StepInv, Open
  <1>11. /\ Own(r) \in DOMAIN refs' /\ refs[Own(r)] \subseteq refs'[Own(r)]
         /\ \A c \in refs'[Own(r)] : Mine(r, c)
    BY <1>2, <1>3, <1>7, <1>8
  <1>12. \A b : b \notin {Own(r), Sub(r, s)} => /\ b \in DOMAIN refs' <=> b \in DOMAIN refs
                                                /\ b \in DOMAIN refs => refs'[b] = refs[b]
    BY <1>7
  <1>13. \A b \in DOMAIN remote : b # Sub(r, s) => b \in DOMAIN remote' /\ remote'[b] = remote[b]  BY <1>1
  <1>14. PICK to : LaneGoes(r, s, to)  BY <1>1
  <1> HIDE DEF theirs, mine
  <1>15. HasTree(r) /\ UNCHANGED <<base, run>>  BY <1>1, <1>2
  <1> QED  BY <1>5, <1>10, <1>11, <1>12, <1>13, <1>14, <1>15, LaneFrame

\* A step that changes nothing keeps its branch.
LEMMA GitOfUnchanged ==
  ASSUME TypeOK, GitInv, NEW r \in Runs, NEW s \in Steps, run[r].at # "completed", ChangesNothing(r, s)
  PROVE  GitInv'
  <1>t. lanes \in [Runs -> [Steps -> LaneStates]]  BY DEF TypeOK
  <1>1. /\ lanes[r][s] = "working" /\ LaneGoes(r, s, "unchanged") /\ UNCHANGED <<base, refs, remote, trees, run>>
    BY DEF ChangesNothing, git
  <1>2. /\ HasTree(r) /\ StepInv(r, s) /\ Own(r) \in DOMAIN refs /\ \A c \in refs[Own(r)] : Mine(r, c)
    BY <1>1, LaneIs
  <1>3. lanes'[r][s] = "unchanged"  BY <1>t, <1>1 DEF LaneGoes
  <1>m. \A c : Mine(r, c)' <=> Mine(r, c)  BY <1>1, MineFrame DEF Own
  <1>4. StepInv(r, s)'  BY <1>m, <1>1, <1>2, <1>3 DEF StepInv, Open, Sub
  <1>5. \A q \in Runs : HasTree(q)' = HasTree(q) /\ Own(q)' = Own(q)  BY <1>1 DEF HasTree, Own
  <1> QED  BY <1>1, <1>2, <1>4, <1>5, LaneFrame

\* A branch that is pushed by others is no branch the remote held.
LEMMA GitOfOthers ==
  ASSUME TypeOK, GitInv, OthersPush
  PROVE  GitInv'
  <1>1. /\ TicketBranch \notin DOMAIN remote /\ remote' = With(remote, TicketBranch, {<<"other", None>>})
        /\ UNCHANGED <<base, refs, trees, run, lanes>>
    BY DEF OthersPush
  <1>2. /\ DOMAIN remote' = DOMAIN remote \cup {TicketBranch}
        /\ \A b \in DOMAIN remote : remote'[b] = remote[b]
    BY <1>1 DEF With
  <1>3. SharedInv'
    <2>1. \A q \in Runs : HasTree(q)' = HasTree(q) /\ Own(q)' = Own(q)  BY <1>1 DEF HasTree, Own
    <2>2. Untaken' = Untaken  BY <2>1 DEF Untaken
    <2>3. remote'[TicketBranch] = {<<"other", None>>}  BY <1>1 DEF With
    <2>4. \A c \in remote'[TicketBranch] : Other(c)  BY <2>3 DEF Other
    <2>5. SharedInv  BY DEF GitInv
    <2>6. DOMAIN remote \subseteq {TicketBranch} => DOMAIN remote' \subseteq {TicketBranch}  BY <1>2
    <2>7. UNCHANGED <<base, refs, trees>>  BY <1>1
    <2>8. \A q, p \in Runs : HasTree(q)' /\ HasTree(p)' /\ Own(q)' = Own(p)' => q = p
      BY <2>1, <2>5 DEF SharedInv
    <2>9. \A b \in DOMAIN refs' : b[2] # None => \E q \in Runs : HasTree(q)' /\ Own(q)'[1] = b[1]
      BY <2>1, <2>5, <2>7 DEF SharedInv
    <2>10. Untaken' /\ TicketBranch \in DOMAIN refs' => \A c \in refs'[TicketBranch] : Other(c)
      BY <2>2, <2>5, <2>7 DEF SharedInv
    <2>11. ~base' => DOMAIN refs' = {} /\ DOMAIN trees' = {} /\ DOMAIN remote' \subseteq {TicketBranch}
      BY <2>5, <2>6, <2>7 DEF SharedInv
    <2> QED  BY <2>4, <2>8, <2>9, <2>10, <2>11 DEF SharedInv
  <1>4. ASSUME NEW q \in Runs PROVE TreeInv(q)'
    <2>1. TreeInv(q)  BY DEF GitInv
    <2>2. HasTree(q) => Own(q) \in DOMAIN refs  BY <2>1 DEF TreeInv
    <2>3. (HasTree(q)' <=> HasTree(q)) /\ Own(q)' = Own(q)  BY <1>1 DEF HasTree, Own
    <2> QED  BY <1>1, <1>2, <2>1, <2>2, <2>3, TreeFrame
  <1> QED  BY <1>3, <1>4 DEF GitInv

\* Every step keeps the invariant of the repository.
LEMMA GitNext ==
  ASSUME TypeOK, GitInv, [Next]_vars
  PROVE  GitInv'
  <1>1. ASSUME UNCHANGED <<git, run, lanes>> PROVE GitInv'
    <2>1. SharedInv'  BY <1>1, SharedFrame DEF git
    <2>2. ASSUME NEW q \in Runs PROVE TreeInv(q)'
      <3>1. TreeInv(q)  BY DEF GitInv
      <3>2. HasTree(q) => Own(q) \in DOMAIN refs  BY <3>1 DEF TreeInv
      <3>3. (HasTree(q)' <=> HasTree(q)) /\ Own(q)' = Own(q)  BY <1>1 DEF git, HasTree, Own
      <3> QED  BY <1>1, <3>1, <3>2, <3>3, TreeFrame DEF git
    <2> QED  BY <2>1, <2>2 DEF GitInv
  <1>2. ASSUME NEW r \in Runs, RunSteps(r) \/ SavesState(r) \/ Crashes(r) \/ Resumes(r) PROVE GitInv'
    <2>1. CASE Moves(r)  BY <2>1, GitOfMoves
    <2>2. CASE ClonesBase(r) /\ ~base  BY <2>2, GitOfClone
    <2>3. CASE NamesBranch(r)  BY <2>3, GitOfName
    <2>4. CASE AddsWorktree(r)
      <3>1. CASE run[r].branch \notin DOMAIN refs  BY <2>4, <3>1, GitOfTree
      <3>2. CASE run[r].branch \in DOMAIN refs
        <4>t. run \in [Runs -> [at : Places, branch : {<<>>} \cup Branches, handle : Handles, backend : Backends]]
          BY DEF TypeOK
        <4>1. run' = [run EXCEPT ![r].at = "failed"] /\ UNCHANGED <<git, lanes>>
          BY <2>4, <3>2 DEF AddsWorktree, Goes, git
        <4> QED  BY <4>t, <4>1, GitOfPlace DEF Early
      <3> QED  BY <3>1, <3>2
    <2>8. CASE ReusesBranch(r)
      <3>1. CASE ~CheckedOut(run[r].branch)  BY <2>8, <3>1, GitOfReuse
      <3>2. CASE CheckedOut(run[r].branch)
        <4>t. run \in [Runs -> [at : Places, branch : {<<>>} \cup Branches, handle : Handles, backend : Backends]]
          BY DEF TypeOK
        <4>1. run' = [run EXCEPT ![r].at = "failed"] /\ UNCHANGED <<git, lanes>>
          BY <2>8, <3>2 DEF ReusesBranch, Goes, git
        <4> QED  BY <4>t, <4>1, GitOfPlace DEF Early
      <3> QED  BY <3>1, <3>2
    <2>5. CASE PushesBranch(r) /\ FastForward(Own(r))  BY <2>5, GitOfPush
    <2>6. CASE SavesState(r)  BY <2>6, <1>1 DEF SavesState
    <2>7. CASE Resumes(r)  BY <2>7, GitOfResume
    <2> QED  BY <1>2, <2>1, <2>2, <2>3, <2>4, <2>5, <2>6, <2>7, <2>8 DEF RunSteps, Moves
  <1>3. ASSUME NEW r \in Runs, NEW s \in Steps, LaneSteps(r, s) PROVE GitInv'
    <2>1. run[r].at # "completed"  BY <1>3 DEF LaneSteps, Ended
    <2>2. CASE DropsStep(r, s)
      <3>1. lanes[r][s] # "todo" /\ Removes(r, s) /\ LaneGoes(r, s, "idle") /\ UNCHANGED <<base, remote, run>>
        BY <2>2 DEF DropsStep
      <3> QED  BY <2>1, <3>1, GitOfRemove
    <2> QED  BY <1>3, <2>1, <2>2, GitOfSubWorktree, GitOfCommit, GitOfUnchanged, GitOfMerge DEF LaneSteps
  <1>4. ASSUME NEW r \in Runs, NEW s \in Steps, run[r].at = "plan", StepFails(r, s) PROVE GitInv'
    <2>1. /\ lanes[r][s] # "todo" /\ Removes(r, s) /\ LaneGoes(r, s, "failed") /\ UNCHANGED <<base, remote, run>>
          /\ run[r].at # "completed"
      BY <1>4 DEF StepFails
    <2> QED  BY <2>1, GitOfRemove
  <1>5. UNCHANGED vars => GitInv'  BY <1>1 DEF vars, git
  <1> QED  BY <1>2, <1>3, <1>4, <1>5, GitOfOthers DEF Next

-----------------------------------------------------------------------------
(* Types.                                                                     *)

\* The types of a run's record, its environment and what is recorded.
LEMMA TypesOfRun ==
  ASSUME TypeOK, GitInv, NEW r \in Runs, RunSteps(r) \/ SavesState(r) \/ Crashes(r) \/ Resumes(r)
  PROVE  TypeOK'
  <1>t. /\ run \in [Runs -> [at : Places, branch : {<<>>} \cup Branches, handle : Handles, backend : Backends]]
        /\ lanes \in [Runs -> [Steps -> LaneStates]] /\ env \in [Runs -> {"none", "up"}]
        /\ saved \in [Runs -> Handles] /\ logged \in [Runs -> BOOLEAN] /\ faults \in 0 .. MaxFaults
        /\ merging \subseteq Runs /\ lost \subseteq Runs /\ base \in BOOLEAN
        /\ DOMAIN refs \subseteq Branches /\ DOMAIN remote \subseteq Branches
        /\ DOMAIN trees \subseteq Runs \X (Steps \cup {None})
    BY DEF TypeOK
  <1>n. TicketBranch \in Branches /\ OwnBranch(r) \in Branches  BY DEF TicketBranch, OwnBranch, Branches
  <1>1. run' \in [Runs -> [at : Places, branch : {<<>>} \cup Branches, handle : Handles, backend : Backends]]
    <2> DEFINE RunType == [at : Places, branch : {<<>>} \cup Branches, handle : Handles, backend : Backends]
    <2>1. \/ UNCHANGED run
          \/ \E at \in Places : Goes(r, at)
          \/ \E at \in Places, h \in Handles : run' = [run EXCEPT ![r].at = at, ![r].handle = h]
          \/ \E b \in Branches, at \in Places : run' = [run EXCEPT ![r].at = at, ![r].branch = b]
      <3> USE DEF Places, Early, Ended, Handles
      <3>1. CASE FindsBase(r) \/ ClonesBase(r) \/ AddsWorktree(r) \/ ReusesBranch(r) \/ ResumesEnvironment(r) \/ StoresHandle(r)
        BY <3>1 DEF FindsBase, ClonesBase, AddsWorktree, ReusesBranch, ResumesEnvironment, StoresHandle
      <3>2. CASE EndsPlan(r) \/ TearsDown(r) \/ PushesBranch(r) \/ Crashes(r) \/ SavesState(r)
        BY <3>2 DEF EndsPlan, TearsDown, PushesBranch, Crashes, SavesState
      <3>3. CASE NamesBranch(r)  BY <1>n, <3>3 DEF NamesBranch, AvailableName, Goes
      <3>4. CASE StartsContainer(r) \/ CreatesClaim(r) \/ BindsSandbox(r)
        BY <3>4 DEF StartsContainer, CreatesClaim, Creates, FailsToCreate, BindsSandbox
      <3>5. CASE Resumes(r)
        <4>1. Recovered(r) \in Handles  BY <1>t DEF Recovered
        <4> QED  BY <3>5, <4>1 DEF Resumes
      <3> QED  BY <3>1, <3>2, <3>3, <3>4, <3>5 DEF RunSteps
    <2>2. ASSUME NEW at \in Places, Goes(r, at) PROVE run' \in [Runs -> RunType]  BY ZenonT(30), <1>t, <2>2 DEF Goes
    <2>3. ASSUME NEW at \in Places, NEW h \in Handles, run' = [run EXCEPT ![r].at = at, ![r].handle = h]
          PROVE  run' \in [Runs -> RunType]
      <3> DEFINE moved == [run EXCEPT ![r].at = at]
      <3>1. moved \in [Runs -> RunType]
        <4>1. ASSUME NEW m, m = moved PROVE m \in [Runs -> RunType]  BY ZenonT(30), <1>t, <2>3, <4>1
        <4> QED  BY <4>1
      <3>2. run' = [moved EXCEPT ![r].handle = h]  BY <1>t, <2>3
      <3> HIDE DEF moved
      <3> QED  BY <3>1, <3>2
    <2>4. ASSUME NEW b \in Branches, NEW at \in Places, run' = [run EXCEPT ![r].at = at, ![r].branch = b]
          PROVE  run' \in [Runs -> RunType]
      <3> DEFINE moved == [run EXCEPT ![r].at = at]
      <3>1. moved \in [Runs -> RunType]
        <4>1. ASSUME NEW m, m = moved PROVE m \in [Runs -> RunType]  BY ZenonT(30), <1>t, <2>4, <4>1
        <4> QED  BY <4>1
      <3>2. run' = [moved EXCEPT ![r].branch = b]  BY <1>t, <2>4
      <3> HIDE DEF moved
      <3> QED  BY <3>1, <3>2
    <2> QED  BY <1>t, <2>1, <2>2, <2>3, <2>4
  <1>2. DOMAIN refs' \subseteq Branches /\ DOMAIN remote' \subseteq Branches
    <2>1. run[r].at = "adding" => run[r].branch \in Branches  BY <1>n DEF GitInv, TreeInv
    <2>2. run[r].at = "push" => Own(r) \in Branches  BY <1>n DEF GitInv, TreeInv, Early
    <2> QED  BY <1>t, <2>1, <2>2 DEF RunSteps, FindsBase, ClonesBase, NamesBranch, AddsWorktree, ReusesBranch, StartsContainer,
          CreatesClaim, Creates, BindsSandbox, ResumesEnvironment, StoresHandle, EndsPlan, TearsDown, PushesBranch,
          SavesState, Crashes, Resumes, git, With
  <1>3. /\ DOMAIN trees' \subseteq Runs \X (Steps \cup {None}) /\ base' \in BOOLEAN /\ merging' \subseteq Runs
    <2>1. CASE AddsWorktree(r) \/ ReusesBranch(r)
      <3>1. DOMAIN trees' \subseteq DOMAIN trees \cup {<<r, None>>} /\ UNCHANGED <<base, merging>>
        BY <2>1 DEF AddsWorktree, ReusesBranch, With
      <3> QED  BY <1>t, <3>1
    <2>2. CASE ~AddsWorktree(r) /\ ~ReusesBranch(r)
      <3>1. UNCHANGED <<trees, merging>> /\ base' \in {base, TRUE}
        BY <2>2 DEF RunSteps, FindsBase, ClonesBase, NamesBranch, StartsContainer, CreatesClaim, Creates, BindsSandbox,
           ResumesEnvironment, StoresHandle, EndsPlan, TearsDown, PushesBranch, SavesState, Crashes, Resumes, git
      <3> QED  BY <1>t, <3>1
    <2> QED  BY <2>1, <2>2
  <1>4. lost' \subseteq Runs /\ env' \in [Runs -> {"none", "up"}] /\ saved' \in [Runs -> Handles] /\ logged' \in [Runs -> BOOLEAN]
    BY <1>t DEF RunSteps, FindsBase, ClonesBase, NamesBranch, AddsWorktree, ReusesBranch, StartsContainer,
          CreatesClaim, Creates, FailsToCreate, BindsSandbox, ResumesEnvironment, StoresHandle, EndsPlan, TearsDown,
          PushesBranch, SavesState, Crashes, Resumes, recorded
  <1>5. faults' \in 0 .. MaxFaults
    BY <1>t DEF RunSteps, FindsBase, ClonesBase, NamesBranch, AddsWorktree, ReusesBranch, StartsContainer,
          CreatesClaim, Creates, FailsToCreate, BindsSandbox, ResumesEnvironment, StoresHandle, EndsPlan, TearsDown,
          PushesBranch, SavesState, Crashes, Resumes, Fault
  <1>6. lanes' \in [Runs -> [Steps -> LaneStates]]
    <2>1. CASE Resumes(r)
      <3>1. lanes' = [lanes EXCEPT ![r] = [s \in Steps |-> IF @[s] \in Done THEN @[s] ELSE "todo"]]
        BY <2>1 DEF Resumes
      <3> QED  BY <1>t, <3>1 DEF LaneStates
    <2>2. CASE ~Resumes(r)
      BY <1>t, <2>2 DEF RunSteps, FindsBase, ClonesBase, NamesBranch, AddsWorktree, ReusesBranch, StartsContainer,
          CreatesClaim, Creates, BindsSandbox, ResumesEnvironment, StoresHandle, EndsPlan, TearsDown,
          PushesBranch, SavesState, Crashes
    <2> QED  BY <2>1, <2>2
  <1> QED  BY <1>1, <1>2, <1>3, <1>4, <1>5, <1>6 DEF TypeOK

\* The types of the lanes, and of the branches and worktrees of steps.
LEMMA TypesOfLane ==
  ASSUME TypeOK, GitInv, NEW r \in Runs, NEW s \in Steps,
         LaneSteps(r, s) \/ (run[r].at = "plan" /\ StepFails(r, s))
  PROVE  TypeOK'
  <1>t. /\ lanes \in [Runs -> [Steps -> LaneStates]] /\ faults \in 0 .. MaxFaults /\ merging \subseteq Runs
        /\ DOMAIN refs \subseteq Branches /\ DOMAIN remote \subseteq Branches
        /\ DOMAIN trees \subseteq Runs \X (Steps \cup {None})
    BY DEF TypeOK
  <1>1. Sub(r, s) \in Branches
    BY LaneIs DEF LaneSteps, AddsSubWorktree, CommitsStep, ChangesNothing, DropsStep, MergesStep, StepFails
  <1>2. UNCHANGED <<base, run, env, saved, logged, lost>>
    BY DEF LaneSteps, AddsSubWorktree, CommitsStep, ChangesNothing, DropsStep, MergesStep, StepFails, git, recorded
  <1>3. \E to \in LaneStates : LaneGoes(r, s, to)
    BY DEF LaneStates, LaneSteps, AddsSubWorktree, CommitsStep, ChangesNothing, DropsStep, MergesStep, StepFails
  <1>4. lanes' \in [Runs -> [Steps -> LaneStates]]  BY <1>t, <1>3 DEF LaneGoes
  <1>5. DOMAIN refs' \subseteq Branches /\ DOMAIN remote' \subseteq Branches
    BY <1>t, <1>1 DEF LaneSteps, AddsSubWorktree, CommitsStep, ChangesNothing, DropsStep, MergesStep, StepFails, Removes,
          git, With, Without
  <1>6. DOMAIN trees' \subseteq Runs \X (Steps \cup {None}) /\ merging' \subseteq Runs
    BY <1>t DEF LaneSteps, AddsSubWorktree, CommitsStep, ChangesNothing, DropsStep, MergesStep, StepFails, Removes,
          git, With, Without
  <1>7. faults' \in 0 .. MaxFaults
    BY <1>t DEF LaneSteps, AddsSubWorktree, CommitsStep, ChangesNothing, DropsStep, MergesStep, StepFails, Fault
  <1> QED  BY <1>2, <1>4, <1>5, <1>6, <1>7 DEF TypeOK

\* Every step keeps the types.
LEMMA TypesNext ==
  ASSUME TypeOK, GitInv, [Next]_vars
  PROVE  TypeOK'
  <1>1. CASE OthersPush
    <2>1. TicketBranch \in Branches  BY DEF TicketBranch, Branches
    <2>2. DOMAIN remote' = DOMAIN remote \cup {TicketBranch}  BY <1>1 DEF OthersPush, With
    <2>3. faults' \in 0 .. MaxFaults  BY <1>1 DEF OthersPush, Fault, TypeOK
    <2>4. UNCHANGED <<base, refs, trees, merging, run, lanes, env, saved, logged, lost>>  BY <1>1 DEF OthersPush, recorded
    <2> QED  BY <2>1, <2>2, <2>3, <2>4 DEF TypeOK
  <1>2. CASE UNCHANGED vars  BY <1>2 DEF vars, TypeOK
  <1> QED  BY <1>1, <1>2, TypesOfRun, TypesOfLane DEF Next

-----------------------------------------------------------------------------
(* The theorems.                                                              *)

\* The invariant holds in every state of every behaviour.
LEMMA SpecInv == Spec => []HostInv
  <1>1. HostInv /\ [Next]_vars => HostInv'  BY GitNext, EnvNext, TypesNext DEF HostInv
  <1> QED  BY <1>1, InitInv, PTL DEF Spec

\* Every variable of a run's workspace and environment keeps its type, however many runs
\* share the clone, however many steps go at once, and whatever fails.
THEOREM HostTypeCorrect == Spec => []TypeOK
  <1>1. HostInv => TypeOK  BY DEF HostInv
  <1> QED  BY <1>1, SpecInv, PTL

\* Any number of runs of a ticket name, take, reuse and merge branches in one clone in any
\* order, crash and resume: a run's branch never holds another run's commit, and what others
\* pushed only on the ticket's branch.
THEOREM OwnBranchesKept == Spec => []RunsOwnBranches
  <1>1. HostInv => RunsOwnBranches
    BY DEF HostInv, GitInv, TreeInv, HasTree, RunsOwnBranches, Mine, Other
  <1> QED  BY <1>1, SpecInv, PTL

\* Whatever failed before and however often it was resumed, a completed run has every
\* step that it counts as merged on the remote, on its own branch.
THEOREM CompletedRunsPushed == Spec => []CompletedIsPushed
  <1>1. HostInv => CompletedIsPushed
    BY DEF HostInv, GitInv, TreeInv, StepInv, Early, CompletedIsPushed
  <1> QED  BY <1>1, SpecInv, PTL

\* For any number of crashes and failed calls, an environment that outlives its run was
\* never recorded, could not be removed, or is a claim whose name was lost with the handle.
THEOREM EnvironmentsAccounted == Spec => []EnvironmentAccounted
  <1>1. HostInv => EnvironmentAccounted  BY DEF HostInv, EnvInv, EnvironmentAccounted
  <1> QED  BY <1>1, SpecInv, PTL

=============================================================================
