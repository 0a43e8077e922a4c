----------------------------- MODULE LaunchRules -----------------------------
\* How a queued task becomes a run: the project file it is of, what is created for it in
\* the cluster, and what the command line then loads and does.
\* A text is a sequence of words [word, size]; a file is <<prefix, name, extension>>.
EXTENDS Integers, Sequences, FiniteSets, TLC, SequencesExt, FiniteSetsExt

CONSTANT Words \* what names are made of
ASSUME WordsAssumption == {"sf", "sf-run-ws", "sf-template"} \subseteq Words

Unset == "" \* a setting, argument or file that is not there
Default(value, other) == IF value = Unset THEN other ELSE value
\* The first of a sequence that will do.
FirstIn(s, T) == s[Min({i \in DOMAIN s : s[i] \in T})]

\* sanitizeK8sName, normalizeK8sName: a name keeps what there is room for.
PieceType == [word : Words, size : Nat \ {0}]
Piece(word, size) == [word |-> word, size |-> size]
SizeOf(text) == FoldLeft(LAMBDA n, w : n + w.size, 0, text)
KeepsPiece(kept, w, room) ==
  LET left == room - SizeOf(kept)
  IN  IF left > 0 THEN Append(kept, [w EXCEPT !.size = Min({@, left})]) ELSE kept
Kept(text, room) == FoldLeft(LAMBDA kept, w : KeepsPiece(kept, w, room), <<>>, text)
MakeK8sJobName(run) == <<Piece("sf", 3)>> \o Kept(run, 60)
NormalizeK8sName(text, prefix) == Kept(<<prefix>> \o text, 63)
MakeRunSandboxClaimName(run) == MakeK8sJobName(run)
MakeRunWorkspacePvcName(run) == NormalizeK8sName(run, Piece("sf-run-ws", 10))
MutMakeRunSandboxTemplateName(run, prefix) ==
  NormalizeK8sName(IF prefix = <<>> THEN run ELSE prefix, Piece("sf-template", 12))
\* <<>> is no prefix, or the default one
MakeRunSandboxTemplateName(run, prefix) == NormalizeK8sName(prefix \o run, Piece("sf-template", 12))

\* describeProjectK8sContract: the names a project's things have unless they are overridden
ProjectContract(project, env) ==
  [namespace     |-> Default(env.namespace, project),
   secret        |-> Default(env.secret, project \o "-secrets"),
   configMap     |-> Default(env.configMap, project \o "-config"),
   runtimeSecret |-> Default(env.runtimeSecret, project \o "-runtime-secrets")]

\* DispatchQueueItem
TaskType == [run : Seq(PieceType), project : STRING, arg : STRING, source : STRING, ticket : STRING, prompt : STRING,
             agent : STRING, stage : STRING, branch : STRING, pr : STRING]

-----------------------------------------------------------------------------
\* projectArgFromFileName, buildMountedProjectConfigPath
PlatformFile == <<Unset, "platform", "yaml">>
ProjectFile  == <<Unset, "project", "yaml">>
ProjectArg(file) == IF file[1] = "project-" THEN file[2] ELSE Unset
MountedConfig(arg) == IF arg = Unset THEN ProjectFile ELSE <<"project-", arg, "yaml">>

\* loadYamlFile, loadProjectYamlFile: a variable of the file is the project's secret, else
\* the process's.  Secrets are those of the identifier as the file writes it.
Interpolated(var, env, secrets) ==
  CASE var \in DOMAIN secrets -> secrets[var]
    [] OTHER -> IF var \in DOMAIN env THEN env[var] ELSE Unset
SecretEnv(mounted, project) == IF project \in DOMAIN mounted THEN mounted[project] ELSE <<>>

\* loadConfig of the command line; files maps names to the project they hold, Unset for
\* one that cannot be read.
TriedFiles(arg) == IF arg = Unset THEN <<ProjectFile>> ELSE <<<<Unset, arg, "yaml">>, <<"project-", arg, "yaml">>>>
LoadConfig(files, arg) ==
  LET read == {file \in DOMAIN files : files[file] # Unset}
  IN  IF PlatformFile \notin DOMAIN files \/ ToSet(TriedFiles(arg)) \cap read = {} THEN Unset
      ELSE files[FirstIn(TriedFiles(arg), read)]
\* What is mounted hides a file of the image.
Mounted(pod, image) == [file \in {pod.config.at} \cup DOMAIN image |->
                          IF file = pod.config.at THEN pod.config.from ELSE image[file]]

-----------------------------------------------------------------------------
\* buildWholeRunRunnerArgs, and the arguments of defaultLocalRunExecutor
RunnerArgs(task) ==
  [task EXCEPT !.ticket = IF task.source = "prompt" THEN Unset ELSE @,
               !.prompt = IF task.source = "prompt" THEN @ ELSE Unset]
LocalArgs(task) == RunnerArgs(task)

\* buildWholeRunRunnerEnv: the token of the event sink, wanted only where there is one
SystemSecret == "system" \* SYSTEM_SECRET_NAME_ENV of the process
RunnerEnv(task, names, sink, mode) ==
  [run |-> task.run, project |-> task.project, mode |-> mode, autoResume |-> TRUE, sink |-> sink,
   token |-> IF sink = Unset THEN Unset ELSE Default(names.runtimeSecret, Default(SystemSecret, names.secret))]
\* buildWholeRunRunnerPodSpec
RunnerPod(task, names, sink, mode) ==
  [args |-> RunnerArgs(task), env |-> RunnerEnv(task, names, sink, mode), secrets |-> names.secret,
   config |-> [at |-> MountedConfig(task.arg), from |-> names.configMap], workspace |-> MakeRunWorkspacePvcName(task.run)]
\* buildSandboxTemplateManifest, buildSandboxClaimManifest, buildK8sWorkspacePvcManifest
Template(task, names, prefix, sink) ==
  [name |-> MakeRunSandboxTemplateName(task.run, prefix), pod |-> RunnerPod(task, names, sink, "k8s-agent-sandbox"),
   workspace |-> MakeRunWorkspacePvcName(task.run)]
Claim(task, prefix) ==
  [name |-> MakeRunSandboxClaimName(task.run), template |-> MakeRunSandboxTemplateName(task.run, prefix),
   workspace |-> MakeRunWorkspacePvcName(task.run)]
WorkspacePvc(task) == [name |-> MakeRunWorkspacePvcName(task.run), owners |-> {}]
\* buildK8sJobManifest, the host that dispatchTask no longer uses
JobManifest(task, names, sink) ==
  [name |-> MakeK8sJobName(task.run), pod |-> RunnerPod(task, names, sink, "k8s-job-whole-run")]
\* dispatchTask: what one run gets
Host(task, names, prefix, sink) ==
  [pvc |-> WorkspacePvc(task), template |-> Template(task, names, prefix, sink), claim |-> Claim(task, prefix)]

\* attachWorkspacePvcToJob, in four attempts: others[i] are the owners that others add
\* between the i-th read and the write, which is then refused.
WithOwner(owners, uid) == {o \in owners : o # uid} \cup {uid}
Attaches(s, uid, other) ==
  CASE s.done \/ uid \in s.owners -> [s EXCEPT !.done = TRUE]
    [] OTHER -> IF other = {} THEN [owners |-> WithOwner(s.owners, uid), done |-> TRUE]
                ELSE [s EXCEPT !.owners = @ \cup other]
Attach(owners, uid, others) ==
  FoldLeft(LAMBDA s, other : Attaches(s, uid, other), [owners |-> owners, done |-> FALSE], others)
\* defaultCreateK8sJob: a volume that exists is taken, a job that exists is not; the
\* identifier of the job may be unknown, and the volume is then nobody's.
CreateJob(pvc, exists, uid, others) ==
  CASE exists -> [owners |-> pvc.owners, done |-> FALSE]
    [] OTHER -> IF uid = Unset THEN [owners |-> pvc.owners, done |-> TRUE] ELSE Attach(pvc.owners, uid, others)

-----------------------------------------------------------------------------
\* isAgentSandboxWholeRunHostingEnabled; flag is a variable of the environment
HostingEnabled(platform, flag) == IF flag # Unset THEN flag = "true" ELSE platform.whole
\* validateAgentSandboxWholeRunHosting, inside a host or not
HostingValid(platform, flag, inside, crds) ==
  HostingEnabled(platform, flag) /\ ~inside => platform.sandbox /\ {"claims", "templates", "sandboxes"} \subseteq crds
\* validateDispatchPlatformConfig: a platform file that cannot be read is not checked.
DispatchValid(platform, flag, crds, k8sMode) ==
  platform.readable => /\ HostingValid(platform, flag, FALSE, crds)
                       /\ k8sMode => HostingEnabled(platform, flag)
\* loadDispatchAgentSandboxWholeRunConfig, and its use in dispatchTask
DispatchHosts(platform, flag) == HostingEnabled([platform EXCEPT !.whole = @ /\ platform.readable], flag)

\* normalizeHostingMode, resolveHostingMode
HostingModes == {"local", "docker", "k8s-job-whole-run", "k8s-agent-sandbox"}
ResolveHostingMode(explicit, mode, wholeRun, backend) ==
  IF {explicit, mode} \cap HostingModes # {} THEN FirstIn(<<explicit, mode>>, HostingModes)
  ELSE CASE wholeRun -> "k8s-job-whole-run"
         [] OTHER -> CASE backend = "agent-sandbox" -> "k8s-agent-sandbox"
                       [] backend = "docker" -> "docker"
                       [] OTHER -> "local"
\* resolveExecutionBackendName: "refused" for the one that was removed
ExecutionBackend(platform, project, env, wholeRun) ==
  LET named == {project, env, platform} \ {Unset}
      first == FirstIn(<<project, env, platform>>, named)
  IN  CASE wholeRun \/ named = {} -> "local"
        [] OTHER -> IF first = "k8s-pod" THEN "refused" ELSE first

\* resolveDefaultDirectAgent: agents are the definitions, in order, with their role.
DefaultAgent(agents, ofProject) ==
  LET developers == SelectSeq(agents, LAMBDA a : a.role = "developer")
      preferred  == <<"generic", "developer", "go-developer">> \o [i \in DOMAIN developers |-> developers[i].type]
      known      == SelectSeq(preferred, LAMBDA t : \E i \in DOMAIN agents : agents[i].type = t)
      all        == known \o ofProject \o [i \in DOMAIN agents |-> agents[i].type]
  IN  IF all = <<>> THEN Unset ELSE Head(all)

\* resolveAutoResumeAction
AutoResume(run, session) ==
  CASE run = <<>> \/ session.status # "executing" -> "fresh"
    [] OTHER -> IF session.workspace THEN "resume" ELSE "restart"
\* The `run' command: what it is asked, and what it does, of which project, by which agent.
Asked(args) == IF args.source = "prompt" THEN args.prompt # Unset ELSE args.ticket # Unset
RunCommand(args, files, env, session, agents, ofProject) ==
  LET project == LoadConfig(files, args.arg)
  IN  [does |-> CASE ~Asked(args) \/ project = Unset -> "refuses"
                  [] OTHER -> IF env.autoResume THEN AutoResume(env.run, session) ELSE "fresh",
       project |-> project, agent |-> Default(args.agent, DefaultAgent(agents, ofProject))]

-----------------------------------------------------------------------------
\* A launch s is of the task, and of another one of the project, in the directory files of
\* the dispatcher or in an image with its own files; what came of it is
\* [host, job, other, pod, local, seen, used].
Launch(s) ==
  LET names == ProjectContract(s.task.project, s.env)
      task  == [s.task EXCEPT !.arg = ProjectArg(s.file)]
      host  == Host(task, names, s.prefix, s.sink)
      pod   == host.template.pod
      agents == <<[type |-> "qa", role |-> "qa"], [type |-> "developer", role |-> "developer"]>>
  IN  [host  |-> host, job |-> JobManifest(task, names, s.sink), other |-> Host(s.other, names, s.prefix, s.sink),
       pod   |-> RunCommand(pod.args, Mounted(pod, s.image), pod.env, s.session, agents, <<>>),
       local |-> RunCommand(LocalArgs(task), s.files, [run |-> <<>>, autoResume |-> FALSE], s.session, agents, <<>>),
       seen  |-> Interpolated("TOKEN", [TOKEN |-> "mine"], SecretEnv(s.mounted, s.written)),
       used  |-> Interpolated("TOKEN", [TOKEN |-> "mine"], SecretEnv(s.mounted, s.task.project))]
\* A run's claim, template, volume and pod refer to each other and to no other run's, as
\* long as the names have room; the pod runs the task with its project's configuration,
\* and goes on with what it finds after a restart; so does a local run, in a directory
\* whose files are named as the command line reads them.
LaunchTrue(s, v) ==
  LET h == v.host
      fits == SizeOf(s.prefix \o s.task.run) <= 51
      refused == s.task.source = "prompt" /\ s.task.prompt = Unset
      twin == <<Unset, ProjectArg(s.file), "yaml">>
  IN  /\ h.claim.template = h.template.name /\ v.job.name = h.claim.name
      /\ {v.job.pod.workspace, h.claim.workspace, h.template.workspace, h.template.pod.workspace} = {h.pvc.name}
      /\ s.other.run # s.task.run =>
           /\ h.claim.name # v.other.claim.name /\ h.pvc.name # v.other.pvc.name
           /\ fits => h.template.name # v.other.template.name
      /\ twin \notin DOMAIN s.image /\ ~refused =>
           /\ v.pod.project = h.template.pod.config.from
           /\ v.pod.does # "refuses"
           /\ s.session.status = "executing" => v.pod.does \in {"resume", "restart"}
      /\ s.file = MountedConfig(twin[2]) /\ (s.file = ProjectFile \/ twin \notin DOMAIN s.files) /\ ~refused =>
           v.local.does = "fresh" /\ v.local.project = s.task.project
      /\ s.written = s.task.project => v.seen = v.used
\* A dispatcher that has started can dispatch, if its platform file could be read, and
\* the program does not look for the cluster's resources from inside a host.
StartTrue(s) ==
  /\ DispatchValid(s.platform, s.flag, s.crds, s.k8sMode) /\ s.k8sMode /\ s.platform.readable => DispatchHosts(s.platform, s.flag)
  /\ LET pod == ResolveHostingMode(Unset, "k8s-agent-sandbox", TRUE, s.backend)
     IN  pod = "k8s-agent-sandbox" /\ HostingValid(s.platform, s.flag, TRUE, {})
  /\ ExecutionBackend(s.backend, Unset, s.flag, TRUE) = "local"
\* A volume keeps the owners it has, and is attached unless others were in between each time.
OwnerTrue(s, v) ==
  /\ s.pvc.owners \subseteq v.owners
  /\ \A i \in DOMAIN s.others : (\A j \in 1 .. i : s.others[j] # {}) /\ ~s.exists /\ s.uid # Unset => s.others[i] \subseteq v.owners
  /\ v.done /\ s.uid # Unset => s.uid \in v.owners
  /\ ~s.exists /\ ~v.done => \A i \in DOMAIN s.others : s.others[i] # {}
=============================================================================
