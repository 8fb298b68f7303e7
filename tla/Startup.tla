------------------------------- MODULE Startup ------------------------------
(***************************************************************************)
(* How the processes start: main of cmd/apiserver, cmd/client and          *)
(* cmd/sync/manager, one process at a time.  A process reads its           *)
(* configuration (module Configuration), connects to the services it needs *)
(* in the order of its main, and exits at the first error; its container   *)
(* is then started again.  Services come and go while it does so, and      *)
(* resource definitions are installed in the Kubernetes cluster.           *)
(***************************************************************************)
EXTENDS Configuration, Sequences

CONSTANTS
  Deployment,   \* what a process can be deployed with
  Bundle        \* sets of GVKs that are installed together

Service == {"kubernetes", "tlsFiles", "queue", "redis", "oidc", "port"}

\* The order of the calls in each main.
Stages ==
  [apiserver |-> <<"environment", "queue", "redis", "oidc", "serve">>,
   client    |-> <<"configure", "manager", "tls", "environment", "queue",
                   "controllers", "serve">>,
   sync      |-> <<"configure", "manager", "environment", "queue",
                   "controllers", "serve">>]

\* There are three programs.
ASSUME ProgramAssumption == \A d \in Deployment : d.program \in DOMAIN Stages

ASSUME BundleAssumption == Bundle \subseteq SUBSET GVK

\* Parameters of a queue that NewSQS accepts, which can be told from their
\* absence.
QueueText == {d.env[v] : d \in Deployment, v \in ClientRequired}

Connection ==
  [region: QueueText, endpoint: QueueText, name: QueueText, batchSize: 0 .. 10,
   waitSeconds: 0 .. 20, visibilityTimeout: 0 .. 12 * 60 * 60]

ASSUME ConnectionAssumption == Nil \notin Connection

VARIABLES
  deployment, \* program, flags, file and environment of the process
  stage,      \* the call the process makes next, or "running" or "exited"
  down,       \* services that do not answer
  installed,  \* the GVKs that are installed in the Kubernetes cluster
  options,    \* ctrl.Options, or Nil
  settings,   \* the ClientConfig or SyncConfig, or Nil
  app,        \* the AppConfig, or Nil
  queue,      \* the parameters of the queue that was connected to, or Nil
  watched     \* the GVKs that the controllers watch

process == <<stage, options, settings, app, queue, watched>>
startupVars == <<deployment, process, down, installed>>

program == deployment.program
flags == ParsedFlags(deployment.flags)

StartupTypeOK ==
  /\ deployment \in Deployment
  /\ \/ stage \in {"running", "exited"}
     \/ \E i \in DOMAIN Stages[program] : stage = Stages[program][i]
  /\ down \subseteq Service
  /\ installed \subseteq GVK
  /\ options = Nil \/ DOMAIN options = Option
  /\ program = "apiserver" => settings = Nil /\ options = Nil
  /\ queue # Nil => app # Nil
  /\ watched \subseteq GVK
  /\ stage = "running" => queue # Nil

StartupInit ==
  /\ deployment \in Deployment
  /\ stage = Stages[program][1]
  /\ down = {}
  /\ installed = {}
  /\ options = Nil
  /\ settings = Nil
  /\ app = Nil
  /\ queue = Nil
  /\ watched = {}

-----------------------------------------------------------------------------
(* Steps of main.                                                          *)

\* The call after the current one.
NextStage ==
  LET calls == Stages[program]
      i == CHOOSE j \in DOMAIN calls : calls[j] = stage
  IN IF i = Len(calls) THEN "running" ELSE calls[i + 1]

\* os.Exit, log.Fatalf or a panic.
Fail ==
  /\ stage' = "exited"
  /\ UNCHANGED <<deployment, down, installed, options, settings, app, queue, watched>>

LeaderElectionID ==
  IF program = "client" THEN "1d5078e3.registry.ethos.adobe.com"
                        ELSE "sync.registry.ethos.adobe.com"

\* No file is named: the options are those of the flags, and the configuration
\* stays the zero one.
UseFlags ==
  /\ stage = "configure"
  /\ flags.config = ""
  /\ options' = ManagerOptions(flags, LeaderElectionID)
  /\ settings' = IF program = "client" THEN NoClientConfig ELSE NoSyncConfig
  /\ stage' = NextStage
  /\ UNCHANGED <<deployment, down, installed, app, queue, watched>>

Loaded ==
  NewConfig(ManagerOptions(flags, LeaderElectionID), deployment.file,
            IF program = "client" THEN ClientDefaults(flags) ELSE SyncDefaults(flags))

UseFile ==
  /\ stage = "configure"
  /\ flags.config # ""
  /\ Loaded.options # Nil
  /\ options' = Loaded.options
  /\ settings' = Loaded.settings
  /\ stage' = NextStage
  /\ UNCHANGED <<deployment, down, installed, app, queue, watched>>

\* The file cannot be loaded, or addWebhookTo panics.
UseFileError ==
  /\ stage = "configure"
  /\ flags.config # ""
  /\ Loaded.options = Nil
  /\ Fail

\* Calls that only succeed while a service answers.
Needs ==
  [manager |-> {"kubernetes"}, tls |-> {"tlsFiles"}, redis |-> {"redis"},
   oidc |-> {"oidc"}, queue |-> {"queue"},
   serve |-> IF program = "apiserver" THEN {"port"} ELSE {"kubernetes", "port"}]

\* NewManager, LoadTLSFiles, Info of Redis, NewAuthenticator of v1 and of v2,
\* and mgr.Start with the client's webhook server or a.Start.  NewManager need
\* not talk to Kubernetes.
Call ==
  /\ stage \in {"manager", "tls", "redis", "oidc", "serve"}
  /\ stage = "manager" \/ Needs[stage] \cap down = {}
  /\ stage' = NextStage
  /\ UNCHANGED <<deployment, down, installed, options, settings, app, queue, watched>>

CallError ==
  /\ stage \in DOMAIN Needs
  /\ Needs[stage] \cap down # {}
  /\ Fail

LoadConfig == IF program = "apiserver" THEN LoadApiConfig(deployment.env)
                                       ELSE LoadClientConfig(deployment.env)

LoadEnvironment ==
  /\ stage = "environment"
  /\ LoadConfig # Nil
  /\ app' = LoadConfig
  /\ stage' = NextStage
  /\ UNCHANGED <<deployment, down, installed, options, settings, queue, watched>>

LoadEnvironmentError ==
  /\ stage = "environment"
  /\ LoadConfig = Nil
  /\ Fail

\* The parameters that each main gives to NewSQS.
QueueParameters ==
  CASE program = "apiserver" ->
         QueueConfig(app, app["SQS_BATCH_SIZE"], app["SQS_WAIT_SECONDS"], 120)
    [] program = "client" -> QueueConfig(app, 0, 0, 0)
    [] program = "sync" -> QueueConfig(app, 10, 5, 120)

NewSQS ==
  /\ stage = "queue"
  /\ validateConfig(QueueParameters)
  /\ "queue" \notin down
  /\ queue' = QueueParameters
  /\ stage' = NextStage
  /\ UNCHANGED <<deployment, down, installed, options, settings, app, watched>>

\* The parameters are refused; a queue whose URL cannot be fetched is a
\* CallError.
NewSQSInvalid ==
  /\ stage = "queue"
  /\ ~validateConfig(QueueParameters)
  /\ Fail

\* Discovery: what is installed, or an error, which loadWatchedGVKs drops.
getAvailableGVKs == IF "kubernetes" \in down THEN Nil ELSE installed

\* The controllers are built, with a watch for each GVK of the configuration
\* that is installed now.
SetupControllers ==
  /\ stage = "controllers"
  /\ watched' = loadWatchedGVKs(settings, getAvailableGVKs)
  /\ stage' = NextStage
  /\ UNCHANGED <<deployment, down, installed, options, settings, app, queue>>

-----------------------------------------------------------------------------
(* Surroundings.                                                           *)

\* The process is stopped, or the port of the webhook is lost.
Stop ==
  /\ stage = "running"
  /\ Fail

\* Mutant: the connection to the queue outlives its process.
RestartConnected ==
  /\ stage = "exited"
  /\ stage' = Stages[program][1]
  /\ options' = Nil
  /\ settings' = Nil
  /\ app' = Nil
  /\ watched' = {}
  /\ UNCHANGED <<deployment, down, installed, queue>>

\* The container is started again: nothing of the process is left.
Restart ==
  /\ stage = "exited"
  /\ stage' = Stages[program][1]
  /\ options' = Nil
  /\ settings' = Nil
  /\ app' = Nil
  /\ queue' = Nil
  /\ watched' = {}
  /\ UNCHANGED <<deployment, down, installed>>

Outage(s) ==
  /\ down = {}
  /\ down' = {s}
  /\ UNCHANGED <<deployment, process, installed>>

Recover ==
  /\ down # {}
  /\ down' = {}
  /\ UNCHANGED <<deployment, process, installed>>

Install(gvks) ==
  /\ ~(gvks \subseteq installed)
  /\ installed' = installed \cup gvks
  /\ UNCHANGED <<deployment, process, down>>

Step ==
  \/ UseFlags \/ UseFile \/ UseFileError
  \/ Call \/ CallError
  \/ LoadEnvironment \/ LoadEnvironmentError
  \/ NewSQS \/ NewSQSInvalid
  \/ SetupControllers

StartupNext ==
  \/ Step
  \/ Stop
  \/ Restart
  \/ \E s \in Service : Outage(s)
  \/ Recover
  \/ \E gvks \in Bundle : Install(gvks)

StartupSpec == StartupInit /\ [][StartupNext]_startupVars

\* A process goes on, and Kubernetes starts a container that ended.
StartupFairness == WF_startupVars(Step) /\ WF_startupVars(Restart)

FairStartupSpec == StartupSpec /\ StartupFairness

-----------------------------------------------------------------------------
(* What a deployment must have, and what a process makes of it.            *)

SoundEnvironment(d) ==
  IF d.program # "apiserver"
  THEN \A v \in ClientRequired : d.env[v] # ""
  ELSE LET text == ApiText(d.env)
       IN /\ \A v \in ApiRequired : text[v] # ""
          /\ \A v \in ApiNumber : text[v] \in DOMAIN Numeral
          /\ Numeral[text["SQS_BATCH_SIZE"]] \in 0 .. 10
          /\ Numeral[text["SQS_WAIT_SECONDS"]] \in 0 .. 20
          /\ text["API_CACHE_TTL"] \in Duration
          /\ text["API_CACHE_REDIS_TLS_ENABLED"] \in DOMAIN Truth

SoundFile(d) ==
  d.program # "apiserver" /\ ParsedFlags(d.flags).config # "" =>
    d.file # Nil /\ (d.file.host # "" => d.file.port # Nil)

Sound(d) == SoundEnvironment(d) /\ SoundFile(d)

\* A process whose deployment is sound is not kept from serving by anything but
\* its services: once they stay up it serves again and again,
\* however often it was stopped and whatever failed before.
SoundRuns ==
  Sound(deployment) /\ <>[](down = {}) => []<>(stage = "running")

\* What the process uses: an address given by a flag is never replaced by the
\* file's, the namespace of a file replaces the flag's, and without a file the
\* namespace is empty whatever the flag says.
Precedence ==
  stage = "running" /\ program # "apiserver" =>
    /\ \A a \in {"metrics", "probe"} : flags[a] # "" => options[a] = flags[a]
    /\ settings.namespace =
         IF flags.config = "" THEN ""
         ELSE IF deployment.file.settings.namespace = Nil THEN flags.namespace
         ELSE deployment.file.settings.namespace

Configured ==
  IF program = "apiserver" \/ flags.config = "" \/ deployment.file = Nil
       \/ deployment.file.settings.watchedGVKs = Nil
  THEN {}
  ELSE deployment.file.settings.watchedGVKs

\* A GVK that is installed late, or that was missed because discovery failed
\* while the process started, is not watched until the next start; a process
\* that is started again and again ends up watching what is configured and
\* installed.
RestartWatches ==
  <>[](down = {}) /\ []<>(stage = "exited") =>
    <>[](stage = "running" => watched = Configured \cap installed)

=============================================================================
