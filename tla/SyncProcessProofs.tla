-------------------------- MODULE SyncProcessProofs -------------------------
(***************************************************************************)
(* Proofs about SyncProcess, and with it about Startup, Configuration and  *)
(* ResourceHandlers.                                                       *)
(*                                                                         *)
(* Startup: main calls one thing after the other, so the invariant says    *)
(* what each call leaves for all that come after it; which calls those are *)
(* follows from the order of the calls of each program.                    *)
(*                                                                         *)
(* A reconcile: after the resources before the place next, the buffer has  *)
(* what the resources at those places gave that were read, whatever the    *)
(* order.  A merge adds one kind to those that were read; a list that      *)
(* failed is a merge of nothing.                                           *)
(*                                                                         *)
(* The order of the resources: the patches at the places in another order  *)
(* are the same patches in another order, and those leave the same         *)
(* (MergeProofs).                                                          *)
(***************************************************************************)
EXTENDS SyncProcess, MergeProofs

-----------------------------------------------------------------------------
(* The order of the calls of main.                                         *)

\* The call after one that main makes once.
LEMMA AfterCall ==
  ASSUME NEW calls, Stages[program] = calls,
         NEW k \in DOMAIN calls, stage = calls[k],
         \A i, j \in DOMAIN calls : calls[i] = calls[j] => i = j
  PROVE  NextStage = IF k = Len(calls) THEN "running" ELSE calls[k + 1]
<1>1. (CHOOSE j \in DOMAIN calls : calls[j] = stage) = k
  <2>1. \E j \in DOMAIN calls : calls[j] = stage
    OBVIOUS
  <2> QED BY <2>1, Zenon
<1>2. (CHOOSE j \in DOMAIN Stages[program] : Stages[program][j] = stage) = k
  BY <1>1, Zenon
<1> QED BY <1>2, Zenon DEF NextStage

\* What the apiserver calls after a call.
LEMMA AfterApiserver ==
  ASSUME program = "apiserver",
         \E i \in DOMAIN Stages[program] : stage = Stages[program][i]
  PROVE  /\ stage \in {"environment", "queue", "redis", "oidc", "serve"}
         /\ stage = "environment" => NextStage = "queue"
         /\ stage = "queue" => NextStage = "redis"
         /\ stage = "redis" => NextStage = "oidc"
         /\ stage = "oidc" => NextStage = "serve"
         /\ stage = "serve" => NextStage = "running"
<1> DEFINE calls == <<"environment", "queue", "redis", "oidc", "serve">>
<1>1. Stages[program] = calls
  BY DEF Stages
<1>2. DOMAIN calls = 1 .. 5 /\ Len(calls) = 5
  OBVIOUS
<1>3. /\ calls[1] = "environment" /\ calls[2] = "queue" /\ calls[3] = "redis"
      /\ calls[4] = "oidc" /\ calls[5] = "serve"
  OBVIOUS
<1>4. \A j, k \in DOMAIN calls : calls[j] = calls[k] => j = k
  BY <1>2, <1>3
<1> HIDE DEF calls
<1>5. ASSUME NEW k \in DOMAIN calls, stage = calls[k]
      PROVE  NextStage = IF k = 5 THEN "running" ELSE calls[k + 1]
  BY <1>1, <1>2, <1>4, <1>5, AfterCall, ZenonT(30)
<1>6. PICK i \in DOMAIN calls : stage = calls[i]
  BY <1>1
<1>7. i \in 1 .. 5 /\ NextStage = IF i = 5 THEN "running" ELSE calls[i + 1]
  BY <1>2, <1>5, <1>6
<1> QED BY <1>3, <1>6, <1>7

\* What the client calls after a call.
LEMMA AfterClient ==
  ASSUME program = "client",
         \E i \in DOMAIN Stages[program] : stage = Stages[program][i]
  PROVE  /\ stage \in {"configure", "manager", "tls", "environment", "queue",
                       "controllers", "serve"}
         /\ stage = "configure" => NextStage = "manager"
         /\ stage = "manager" => NextStage = "tls"
         /\ stage = "tls" => NextStage = "environment"
         /\ stage = "environment" => NextStage = "queue"
         /\ stage = "queue" => NextStage = "controllers"
         /\ stage = "controllers" => NextStage = "serve"
         /\ stage = "serve" => NextStage = "running"
<1> DEFINE calls == <<"configure", "manager", "tls", "environment", "queue",
                      "controllers", "serve">>
<1>1. Stages[program] = calls
  BY DEF Stages
<1>2. DOMAIN calls = 1 .. 7 /\ Len(calls) = 7
  OBVIOUS
<1>3. /\ calls[1] = "configure" /\ calls[2] = "manager" /\ calls[3] = "tls"
      /\ calls[4] = "environment" /\ calls[5] = "queue"
      /\ calls[6] = "controllers" /\ calls[7] = "serve"
  OBVIOUS
<1>4. \A j, k \in DOMAIN calls : calls[j] = calls[k] => j = k
  BY <1>2, <1>3
<1> HIDE DEF calls
<1>5. ASSUME NEW k \in DOMAIN calls, stage = calls[k]
      PROVE  NextStage = IF k = 7 THEN "running" ELSE calls[k + 1]
  BY <1>1, <1>2, <1>4, <1>5, AfterCall, ZenonT(30)
<1>6. PICK i \in DOMAIN calls : stage = calls[i]
  BY <1>1
<1>7. i \in 1 .. 7 /\ NextStage = IF i = 7 THEN "running" ELSE calls[i + 1]
  BY <1>2, <1>5, <1>6
<1> QED BY <1>3, <1>6, <1>7

\* What the sync manager calls after a call.
LEMMA AfterSync ==
  ASSUME program = "sync",
         \E i \in DOMAIN Stages[program] : stage = Stages[program][i]
  PROVE  /\ stage \in {"configure", "manager", "environment", "queue",
                       "controllers", "serve"}
         /\ stage = "configure" => NextStage = "manager"
         /\ stage = "manager" => NextStage = "environment"
         /\ stage = "environment" => NextStage = "queue"
         /\ stage = "queue" => NextStage = "controllers"
         /\ stage = "controllers" => NextStage = "serve"
         /\ stage = "serve" => NextStage = "running"
<1> DEFINE calls == <<"configure", "manager", "environment", "queue",
                      "controllers", "serve">>
<1>1. Stages[program] = calls
  BY DEF Stages
<1>2. DOMAIN calls = 1 .. 6 /\ Len(calls) = 6
  OBVIOUS
<1>3. /\ calls[1] = "configure" /\ calls[2] = "manager"
      /\ calls[3] = "environment" /\ calls[4] = "queue"
      /\ calls[5] = "controllers" /\ calls[6] = "serve"
  OBVIOUS
<1>4. \A j, k \in DOMAIN calls : calls[j] = calls[k] => j = k
  BY <1>2, <1>3
<1> HIDE DEF calls
<1>5. ASSUME NEW k \in DOMAIN calls, stage = calls[k]
      PROVE  NextStage = IF k = 6 THEN "running" ELSE calls[k + 1]
  BY <1>1, <1>2, <1>4, <1>5, AfterCall, ZenonT(30)
<1>6. PICK i \in DOMAIN calls : stage = calls[i]
  BY <1>1
<1>7. i \in 1 .. 6 /\ NextStage = IF i = 6 THEN "running" ELSE calls[i + 1]
  BY <1>2, <1>5, <1>6
<1> QED BY <1>3, <1>6, <1>7

-----------------------------------------------------------------------------
(* The start of a process.                                                 *)

\* What the configuration of a client or of a sync manager is once it was read.
Chosen ==
  IF flags.config = ""
  THEN /\ options = ManagerOptions(flags, LeaderElectionID)
       /\ settings = IF program = "client" THEN NoClientConfig ELSE NoSyncConfig
  ELSE /\ Loaded.options # Nil
       /\ options = Loaded.options
       /\ settings = Loaded.settings

\* The inductive invariant: what each call leaves is there in all later ones.
StartupInv ==
  /\ StartupTypeOK
  /\ stage \notin {"configure", "exited"} /\ program # "apiserver" => Chosen
  /\ stage \in {"queue", "redis", "oidc", "controllers", "serve", "running"} =>
       app = LoadConfig /\ app # Nil
  /\ stage \in {"redis", "oidc", "controllers", "serve", "running"} => queue # Nil

\* The programs there are.
LEMMA Programs ==
  ASSUME deployment \in Deployment
  PROVE  program \in {"apiserver", "client", "sync"}
<1>1. DOMAIN Stages = {"apiserver", "client", "sync"}
  BY DEF Stages
<1>2. deployment.program \in DOMAIN Stages
  BY ProgramAssumption
<1> QED BY <1>1, <1>2 DEF program

\* The calls of all programs: what a program calls next is one of its calls, and
\* which ones come after which.
LEMMA Calls ==
  ASSUME deployment \in Deployment,
         \E i \in DOMAIN Stages[program] : stage = Stages[program][i]
  PROVE  /\ stage \notin {"running", "exited"}
         /\ NextStage # "exited" /\ NextStage # "configure"
         /\ \/ NextStage = "running"
            \/ \E i \in DOMAIN Stages[program] : NextStage = Stages[program][i]
         /\ stage = "configure" => program # "apiserver" /\ NextStage = "manager"
         /\ stage = "manager" => NextStage \in {"tls", "environment"}
         /\ stage = "tls" => NextStage = "environment"
         /\ stage = "environment" => NextStage = "queue"
         /\ stage = "queue" => NextStage \in {"redis", "controllers"}
         /\ stage \in {"redis", "oidc", "controllers", "serve"} =>
              NextStage \in {"oidc", "serve", "running"}
         /\ program = "apiserver" => stage # "controllers"
<1>1. CASE program = "apiserver"
  <2>1. /\ 1 \in DOMAIN Stages[program] /\ 2 \in DOMAIN Stages[program]
        /\ 3 \in DOMAIN Stages[program] /\ 4 \in DOMAIN Stages[program]
        /\ 5 \in DOMAIN Stages[program]
        /\ Stages[program][2] = "queue" /\ Stages[program][3] = "redis"
        /\ Stages[program][4] = "oidc" /\ Stages[program][5] = "serve"
    BY <1>1 DEF Stages
  <2> QED BY <1>1, <2>1, AfterApiserver
<1>2. CASE program = "client"
  <2>1. /\ 2 \in DOMAIN Stages[program] /\ 3 \in DOMAIN Stages[program]
        /\ 4 \in DOMAIN Stages[program] /\ 5 \in DOMAIN Stages[program]
        /\ 6 \in DOMAIN Stages[program] /\ 7 \in DOMAIN Stages[program]
        /\ Stages[program][2] = "manager" /\ Stages[program][3] = "tls"
        /\ Stages[program][4] = "environment" /\ Stages[program][5] = "queue"
        /\ Stages[program][6] = "controllers" /\ Stages[program][7] = "serve"
    BY <1>2 DEF Stages
  <2> QED BY <1>2, <2>1, AfterClient
<1>3. CASE program = "sync"
  <2>1. /\ 2 \in DOMAIN Stages[program] /\ 3 \in DOMAIN Stages[program]
        /\ 4 \in DOMAIN Stages[program] /\ 5 \in DOMAIN Stages[program]
        /\ 6 \in DOMAIN Stages[program]
        /\ Stages[program][2] = "manager" /\ Stages[program][3] = "environment"
        /\ Stages[program][4] = "queue" /\ Stages[program][5] = "controllers"
        /\ Stages[program][6] = "serve"
    BY <1>3 DEF Stages
  <2> QED BY <1>3, <2>1, AfterSync
<1> QED BY <1>1, <1>2, <1>3, Programs

\* The first call of a program.
LEMMA FirstCall ==
  ASSUME deployment \in Deployment
  PROVE  /\ \E i \in DOMAIN Stages[program] : Stages[program][1] = Stages[program][i]
         /\ Stages[program][1] \in {"environment", "configure"}
         /\ Stages[program][1] = "environment" <=> program = "apiserver"
<1>1. 1 \in DOMAIN Stages[program]
  BY Programs DEF Stages
<1>2. Stages[program][1] = IF program = "apiserver" THEN "environment" ELSE "configure"
  BY Programs DEF Stages
<1> QED BY <1>1, <1>2

\* The options that a file completes, unless the read of its port panics.
LEMMA FileOptions ==
  ASSUME NEW opts, NEW file, addTo(opts, file) # Nil
  PROVE  /\ DOMAIN addTo(opts, file) = Option
         /\ \A o \in Option \ {"webhookServer"} :
              opts[o] # "" => addTo(opts, file)[o] = opts[o]
<1> DEFINE filled == Filled(addLeaderElectionTo(opts, file), file, Option \ {"webhookServer"})
<1>1. /\ DOMAIN filled = Option
      /\ \A o \in Option : opts[o] # "" => filled[o] = opts[o]
  BY DEF Filled, addLeaderElectionTo
<1> HIDE DEF filled
<1>2. addTo(opts, file) = addWebhookTo(filled, file)
  BY DEF addTo, filled
<1>3. \/ addWebhookTo(filled, file) = [filled EXCEPT !["webhookServer"] = file.host]
      \/ addWebhookTo(filled, file) = filled
  BY <1>2, Zenon DEF addWebhookTo
<1> QED BY <1>1, <1>2, <1>3, Zenon

\* The options of the flags.
LEMMA FlagOptions ==
  ASSUME NEW fl, NEW id
  PROVE  /\ DOMAIN ManagerOptions(fl, id) = Option
         /\ ManagerOptions(fl, id)["metrics"] = fl.metrics
         /\ ManagerOptions(fl, id)["probe"] = fl.probe
  BY Zenon DEF ManagerOptions, Option, ElectionOption

\* What depends on the deployment only.
LEMMA SameDeployment ==
  ASSUME deployment' = deployment
  PROVE  /\ program' = program /\ flags' = flags
         /\ LeaderElectionID' = LeaderElectionID
         /\ Loaded' = Loaded /\ LoadConfig' = LoadConfig
  BY DEF program, flags, LeaderElectionID, Loaded, LoadConfig

\* A process starts with nothing.
LEMMA StartupBegins ==
  ASSUME StartupInit
  PROVE  StartupInv
<1> USE DEF StartupInit
<1>1. /\ stage \in {"environment", "configure"}
      /\ stage = "environment" <=> program = "apiserver"
      /\ \E i \in DOMAIN Stages[program] : stage = Stages[program][i]
  BY FirstCall
<1>2. StartupTypeOK
  BY <1>1 DEF StartupTypeOK
<1> QED BY <1>1, <1>2 DEF StartupInv

\* A process that ends keeps what it had.
LEMMA FailKeeps ==
  ASSUME StartupInv, Fail
  PROVE  StartupInv'
<1> USE DEF Fail
<1>1. program' = program
  BY SameDeployment
<1>2. StartupTypeOK'
  BY <1>1 DEF StartupInv, StartupTypeOK
<1> QED BY <1>2 DEF StartupInv

\* The configuration of a client or of a sync manager.
LEMMA ConfigureKeeps ==
  ASSUME StartupInv, UseFlags \/ UseFile
  PROVE  StartupInv'
<1>1. /\ stage = "configure" /\ stage' = NextStage
      /\ UNCHANGED <<deployment, down, installed, app, queue, watched>>
  BY Zenon DEF UseFlags, UseFile
<1>2. /\ program' = program /\ flags' = flags
      /\ LeaderElectionID' = LeaderElectionID /\ Loaded' = Loaded
  BY <1>1, SameDeployment
<1>3. /\ deployment \in Deployment
      /\ \E i \in DOMAIN Stages[program] : stage = Stages[program][i]
  BY <1>1 DEF StartupInv, StartupTypeOK
<1>4. program # "apiserver" /\ stage' = "manager"
  BY <1>1, <1>3, Calls
<1>5. Chosen'
  BY <1>2, Zenon DEF Chosen, UseFlags, UseFile
<1>6. DOMAIN options' = Option
  <2>1. CASE UseFlags
    BY <2>1, FlagOptions, Zenon DEF UseFlags
  <2>2. CASE UseFile
    <3>1. Loaded.options # Nil /\ options' = Loaded.options
      BY <2>2, Zenon DEF UseFile
    <3>2. Loaded.options = addTo(ManagerOptions(flags, LeaderElectionID), deployment.file)
      BY <3>1 DEF Loaded, NewConfig
    <3> DEFINE opts == ManagerOptions(flags, LeaderElectionID)
    <3>3. addTo(opts, deployment.file) # Nil
      BY <3>1, <3>2, Zenon
    <3> HIDE DEF opts
    <3>4. DOMAIN addTo(opts, deployment.file) = Option
      BY <3>3, FileOptions, Zenon
    <3> QED BY <3>1, <3>2, <3>4, Zenon DEF opts
  <2> QED BY <2>1, <2>2
<1>7. \/ stage' = "running"
      \/ \E i \in DOMAIN Stages[program] : stage' = Stages[program][i]
  BY <1>1, <1>3, Calls
<1>8. StartupTypeOK'
  BY <1>1, <1>2, <1>4, <1>6, <1>7 DEF StartupInv, StartupTypeOK
<1> QED BY <1>4, <1>5, <1>8 DEF StartupInv

\* Calls that leave nothing.
LEMMA CallKeeps ==
  ASSUME StartupInv, Call
  PROVE  StartupInv'
<1>1. /\ stage \in {"manager", "tls", "redis", "oidc", "serve"} /\ stage' = NextStage
      /\ UNCHANGED <<deployment, down, installed, options, settings, app, queue, watched>>
  BY DEF Call
<1>2. /\ program' = program /\ flags' = flags
      /\ LeaderElectionID' = LeaderElectionID /\ Loaded' = Loaded
      /\ LoadConfig' = LoadConfig
  BY <1>1, SameDeployment
<1>3. /\ deployment \in Deployment
      /\ \E i \in DOMAIN Stages[program] : stage = Stages[program][i]
  BY <1>1 DEF StartupInv, StartupTypeOK
<1>4. /\ stage \in {"manager", "tls"} => stage' \in {"tls", "environment"}
      /\ stage \in {"redis", "oidc", "serve"} => stage' \in {"oidc", "serve", "running"}
  BY <1>1, <1>3, Calls
<1>5. program # "apiserver" => Chosen'
  BY <1>1, <1>2, Zenon DEF StartupInv, Chosen
<1>6. \/ stage' = "running"
      \/ \E i \in DOMAIN Stages[program] : stage' = Stages[program][i]
  BY <1>1, <1>3, Calls
<1>7. stage' = "running" => queue # Nil
  BY <1>1, <1>4 DEF StartupInv
<1>8. StartupTypeOK'
  BY <1>1, <1>2, <1>6, <1>7 DEF StartupInv, StartupTypeOK
<1> QED BY <1>1, <1>2, <1>4, <1>5, <1>8 DEF StartupInv

\* The environment.
LEMMA LoadEnvironmentKeeps ==
  ASSUME StartupInv, LoadEnvironment
  PROVE  StartupInv'
<1>1. /\ stage = "environment" /\ stage' = NextStage
      /\ LoadConfig # Nil /\ app' = LoadConfig
      /\ UNCHANGED <<deployment, down, installed, options, settings, queue, watched>>
  BY DEF LoadEnvironment
<1>2. /\ program' = program /\ flags' = flags
      /\ LeaderElectionID' = LeaderElectionID /\ Loaded' = Loaded
      /\ LoadConfig' = LoadConfig
  BY <1>1, SameDeployment
<1>3. /\ deployment \in Deployment
      /\ \E i \in DOMAIN Stages[program] : stage = Stages[program][i]
  BY <1>1 DEF StartupInv, StartupTypeOK
<1>4. stage' = "queue"
  BY <1>1, <1>3, Calls
<1>5. program # "apiserver" => Chosen'
  BY <1>1, <1>2, Zenon DEF StartupInv, Chosen
<1>6. \/ stage' = "running"
      \/ \E i \in DOMAIN Stages[program] : stage' = Stages[program][i]
  BY <1>1, <1>3, Calls
<1>7. StartupTypeOK'
  BY <1>1, <1>2, <1>4, <1>6 DEF StartupInv, StartupTypeOK
<1> QED BY <1>1, <1>2, <1>4, <1>5, <1>7 DEF StartupInv

\* The texts of the environment that name the queue.
LEMMA QueueTexts ==
  ASSUME deployment \in Deployment, LoadConfig # Nil
  PROVE  \A v \in ClientRequired : LoadConfig[v] = deployment.env[v]
<1> DEFINE env == deployment.env
<1>1. CASE program = "apiserver"
  <2> DEFINE text == ApiText(env)
             value(v) ==
               CASE v \in ApiNumber -> Numeral[text[v]]
                 [] v = "API_CACHE_REDIS_TLS_ENABLED" -> Truth[text[v]]
                 [] v = "API_RATE_LIMITER" -> text[v] = "enabled"
                 [] v = "LOG_LEVEL" -> IF text[v] \in {"DEBUG", "INFO"} THEN text[v] ELSE "WARN"
                 [] OTHER -> text[v]
  <2>1. LoadApiConfig(env) # Nil => LoadApiConfig(env) = [v \in EnvVar |-> value(v)]
    BY Zenon DEF LoadApiConfig
  <2>2. LoadConfig = [v \in EnvVar |-> value(v)]
    BY <1>1, <2>1, Zenon DEF LoadConfig
  <2>3. ASSUME NEW v \in ClientRequired
        PROVE  /\ v \in EnvVar /\ v \notin DOMAIN ApiDefault
               /\ v \notin ApiNumber
               /\ v \notin {"API_CACHE_REDIS_TLS_ENABLED", "API_RATE_LIMITER", "LOG_LEVEL"}
    BY <2>3 DEF ClientRequired, EnvVar, ApiRequired, ApiNumber, ApiDefault
  <2>4. ASSUME NEW v \in ClientRequired
        PROVE  value(v) = text[v]
    BY <2>3, <2>4
  <2>5. ASSUME NEW v \in ClientRequired
        PROVE  text[v] = env[v]
    BY <2>3, <2>5, Zenon DEF ApiText, getEnv
  <2> HIDE DEF value, text
  <2> QED BY <2>2, <2>3, <2>4, <2>5
<1>2. CASE program # "apiserver"
  BY <1>2, Zenon DEF LoadConfig, LoadClientConfig
<1> QED BY <1>1, <1>2

\* The parameters that NewSQS accepts.
LEMMA ParametersAreThere ==
  ASSUME deployment \in Deployment, LoadConfig # Nil, app = LoadConfig,
         validateConfig(QueueParameters)
  PROVE  QueueParameters # Nil
<1>1. \A v \in ClientRequired : app[v] \in QueueText
  BY QueueTexts DEF QueueText
<1>2. /\ app["SQS_AWS_REGION"] \in QueueText /\ app["SQS_ENDPOINT"] \in QueueText
      /\ app["SQS_QUEUE_NAME"] \in QueueText
  BY <1>1 DEF ClientRequired
<1>3. ASSUME NEW b, NEW w, NEW t, validateConfig(QueueConfig(app, b, w, t))
      PROVE  QueueConfig(app, b, w, t) \in Connection
  BY <1>2, <1>3, Zenon DEF validateConfig, QueueConfig, Connection
<1>4. \E b, w, t : QueueParameters = QueueConfig(app, b, w, t)
  BY Programs, Zenon DEF QueueParameters
<1> QED BY <1>3, <1>4, ConnectionAssumption, Zenon

\* The queue.
LEMMA NewSQSKeeps ==
  ASSUME StartupInv, NewSQS
  PROVE  StartupInv'
<1>1. /\ stage = "queue" /\ stage' = NextStage
      /\ validateConfig(QueueParameters) /\ queue' = QueueParameters
      /\ UNCHANGED <<deployment, down, installed, options, settings, app, watched>>
  BY DEF NewSQS
<1>2. /\ program' = program /\ flags' = flags
      /\ LeaderElectionID' = LeaderElectionID /\ Loaded' = Loaded
      /\ LoadConfig' = LoadConfig
  BY <1>1, SameDeployment
<1>3. /\ deployment \in Deployment
      /\ \E i \in DOMAIN Stages[program] : stage = Stages[program][i]
      /\ app = LoadConfig /\ app # Nil
  BY <1>1 DEF StartupInv, StartupTypeOK
<1>4. stage' \in {"redis", "controllers"}
  BY <1>1, <1>3, Calls
<1>5. program # "apiserver" => Chosen'
  BY <1>1, <1>2, Zenon DEF StartupInv, Chosen
<1>6. \/ stage' = "running"
      \/ \E i \in DOMAIN Stages[program] : stage' = Stages[program][i]
  BY <1>1, <1>3, Calls
<1>7. queue' # Nil
  BY <1>1, <1>3, ParametersAreThere
<1>8. StartupTypeOK'
  BY <1>1, <1>2, <1>3, <1>4, <1>6, <1>7, SMTT(20) DEF StartupInv, StartupTypeOK
<1> QED BY <1>1, <1>2, <1>3, <1>4, <1>5, <1>7, <1>8 DEF StartupInv

\* The controllers.
LEMMA SetupControllersKeeps ==
  ASSUME StartupInv, SetupControllers
  PROVE  StartupInv'
<1>1. /\ stage = "controllers" /\ stage' = NextStage
      /\ watched' = loadWatchedGVKs(settings, getAvailableGVKs)
      /\ UNCHANGED <<deployment, down, installed, options, settings, app, queue>>
  BY DEF SetupControllers
<1>2. /\ program' = program /\ flags' = flags
      /\ LeaderElectionID' = LeaderElectionID /\ Loaded' = Loaded
      /\ LoadConfig' = LoadConfig
  BY <1>1, SameDeployment
<1>3. /\ deployment \in Deployment
      /\ \E i \in DOMAIN Stages[program] : stage = Stages[program][i]
      /\ installed \subseteq GVK
  BY <1>1 DEF StartupInv, StartupTypeOK
<1>4. stage' \in {"oidc", "serve", "running"}
  BY <1>1, <1>3, Calls
<1>5. program # "apiserver" => Chosen'
  BY <1>1, <1>2, Zenon DEF StartupInv, Chosen
<1>6. \/ stage' = "running"
      \/ \E i \in DOMAIN Stages[program] : stage' = Stages[program][i]
  BY <1>1, <1>3, Calls
<1>7. watched' \subseteq GVK
  BY <1>1, <1>3 DEF loadWatchedGVKs, getAvailableGVKs
<1>8. app = LoadConfig /\ app # Nil /\ queue # Nil
  BY <1>1 DEF StartupInv
<1>9. StartupTypeOK'
  BY <1>1, <1>2, <1>6, <1>7, <1>8, SMTT(20) DEF StartupInv, StartupTypeOK
<1> QED BY <1>1, <1>2, <1>4, <1>5, <1>8, <1>9 DEF StartupInv

\* A process that is started again has nothing, as at first.
LEMMA RestartKeeps ==
  ASSUME StartupInv, Restart
  PROVE  StartupInv'
<1>1. /\ stage' = Stages[program][1]
      /\ options' = Nil /\ settings' = Nil /\ app' = Nil /\ queue' = Nil /\ watched' = {}
      /\ UNCHANGED <<deployment, down, installed>>
  BY DEF Restart
<1>2. program' = program
  BY <1>1, SameDeployment
<1>3. /\ stage' \in {"environment", "configure"}
      /\ stage' = "environment" <=> program = "apiserver"
      /\ \E i \in DOMAIN Stages[program] : stage' = Stages[program][i]
  BY <1>1, FirstCall DEF StartupInv, StartupTypeOK
<1>4. StartupTypeOK'
  BY <1>1, <1>2, <1>3 DEF StartupInv, StartupTypeOK
<1> QED BY <1>2, <1>3, <1>4 DEF StartupInv

\* Services and resource definitions.
LEMMA SurroundingsKeep ==
  ASSUME StartupInv, UNCHANGED <<deployment, process>>,
         down' \subseteq Service, installed' \subseteq GVK
  PROVE  StartupInv'
<1>1. /\ program' = program /\ flags' = flags
      /\ LeaderElectionID' = LeaderElectionID /\ Loaded' = Loaded
      /\ LoadConfig' = LoadConfig
  BY SameDeployment
<1>2. StartupTypeOK'
  BY <1>1 DEF StartupInv, StartupTypeOK, process
<1>3. Chosen' <=> Chosen
  BY <1>1, Zenon DEF Chosen, process
<1> QED BY <1>1, <1>2, <1>3 DEF StartupInv, process

\* Every step of a process or of its surroundings keeps the invariant.
LEMMA StartupNextKeeps ==
  ASSUME StartupInv, [StartupNext]_startupVars
  PROVE  StartupInv'
<1>1. ASSUME UseFileError \/ CallError \/ LoadEnvironmentError \/ NewSQSInvalid \/ Stop
      PROVE  Fail
  BY <1>1, Zenon DEF UseFileError, CallError, LoadEnvironmentError, NewSQSInvalid, Stop
<1>2. CASE Step
  BY <1>1, <1>2, FailKeeps, ConfigureKeeps, CallKeeps, LoadEnvironmentKeeps, NewSQSKeeps,
     SetupControllersKeeps, SMTT(20) DEF Step
<1>3. down \subseteq Service /\ installed \subseteq GVK
  BY DEF StartupInv, StartupTypeOK
<1>4. ASSUME NEW s \in Service, Outage(s)
      PROVE  StartupInv'
  BY <1>3, <1>4, SurroundingsKeep DEF Outage
<1>5. CASE Recover
  BY <1>3, <1>5, SurroundingsKeep DEF Recover
<1>6. ASSUME NEW gvks \in Bundle, Install(gvks)
      PROVE  StartupInv'
  <2>1. gvks \subseteq GVK
    BY BundleAssumption
  <2> QED BY <1>3, <1>6, <2>1, SurroundingsKeep DEF Install
<1>7. CASE UNCHANGED startupVars
  BY <1>3, <1>7, SurroundingsKeep DEF startupVars
<1> QED BY <1>1, <1>2, <1>4, <1>5, <1>6, <1>7, FailKeeps, RestartKeeps, SMTT(20) DEF StartupNext

\* A step of the sync manager's reconcile is none of its start.
LEMMA StepsOfStartup ==
  ASSUME [Next]_allVars
  PROVE  [StartupNext]_startupVars
<1>1. CASE StartupStep
  BY <1>1 DEF StartupStep, StartupNext
<1>2. CASE Stopped
  BY <1>2 DEF Stopped, StartupNext
<1>3. CASE ReconcileStep
  BY <1>3 DEF ReconcileStep, Reconcile, ParseError, Parse, ParseUnread, Finish
<1>4. CASE UNCHANGED allVars
  BY <1>4 DEF allVars
<1> QED BY <1>1, <1>2, <1>3, <1>4 DEF Next

\* What a process has at every call.
LEMMA AlwaysStartupInv == Spec => []StartupInv
<1>1. Init => StartupInv
  BY StartupBegins DEF Init
<1>2. StartupInv /\ [Next]_allVars => StartupInv'
  BY StepsOfStartup, StartupNextKeeps
<1> QED BY <1>1, <1>2, PTL DEF Spec

\* Every state of a process is typed, through every start, failure and restart
\* of main: a process that runs has the queue it connected to, and the apiserver
\* has no controller manager's options.
THEOREM StartupIsTyped == Spec => []StartupTypeOK
<1>1. StartupInv => StartupTypeOK
  BY DEF StartupInv
<1> QED BY <1>1, AlwaysStartupInv, PTL

\* The zero configurations have no namespace.
LEMMA ZeroNamespace == NoClientConfig.namespace = "" /\ NoSyncConfig.namespace = ""
  BY DEF NoClientConfig, NoSyncConfig

\* What NewConfig makes of flags and file: an address of the flags stays, and
\* the namespace is the file's, the flag's without one, and empty without a
\* file.
THEOREM FlagsAndFiles == Spec => []Precedence
<1>1. ASSUME StartupInv, stage = "running", program # "apiserver"
      PROVE  /\ \A a \in {"metrics", "probe"} : flags[a] # "" => options[a] = flags[a]
             /\ settings.namespace =
                  IF flags.config = "" THEN ""
                  ELSE IF deployment.file.settings.namespace = Nil THEN flags.namespace
                  ELSE deployment.file.settings.namespace
  <2> DEFINE fromFlags == ManagerOptions(flags, LeaderElectionID)
  <2>1. Chosen
    BY <1>1 DEF StartupInv
  <2>2. fromFlags["metrics"] = flags.metrics /\ fromFlags["probe"] = flags.probe
    BY FlagOptions
  <2>3. CASE flags.config = ""
    <3>1. options = fromFlags
      BY <2>1, <2>3, Zenon DEF Chosen
    <3>2. settings = NoClientConfig \/ settings = NoSyncConfig
      BY <2>1, <2>3, Zenon DEF Chosen
    <3>3. settings.namespace = ""
      BY <3>2, ZeroNamespace, Zenon
    <3> HIDE DEF fromFlags
    <3> QED BY <2>2, <2>3, <3>1, <3>3, Zenon
  <2>4. CASE flags.config # ""
    <3> DEFINE defaults == IF program = "client" THEN ClientDefaults(flags) ELSE SyncDefaults(flags)
    <3>1. Loaded.options # Nil /\ options = Loaded.options /\ settings = Loaded.settings
      BY <2>1, <2>4, Zenon DEF Chosen
    <3>2. Loaded = NewConfig(fromFlags, deployment.file, defaults)
      BY Zenon DEF Loaded
    <3>3. "namespace" \in DOMAIN defaults /\ defaults.namespace = flags.namespace
      BY DEF ClientDefaults, SyncDefaults
    <3> HIDE DEF fromFlags, defaults
    <3>4. /\ Loaded.options = addTo(fromFlags, deployment.file)
          /\ Loaded.settings = fromFile(defaults, deployment.file)
      BY <3>1, <3>2 DEF NewConfig
    <3>5. \A o \in Option \ {"webhookServer"} :
            fromFlags[o] # "" => addTo(fromFlags, deployment.file)[o] = fromFlags[o]
      BY <3>1, <3>4, FileOptions, Zenon
    <3>6. \A a \in {"metrics", "probe"} : flags[a] # "" => options[a] = flags[a]
      <4>1. "metrics" \in Option \ {"webhookServer"} /\ "probe" \in Option \ {"webhookServer"}
        BY DEF Option
      <4>2. fromFlags["metrics"] # "" => options["metrics"] = fromFlags["metrics"]
        BY <3>1, <3>4, <3>5, <4>1, Zenon
      <4>3. fromFlags["probe"] # "" => options["probe"] = fromFlags["probe"]
        BY <3>1, <3>4, <3>5, <4>1, Zenon
      <4> QED BY <2>2, <4>2, <4>3, Zenon
    <3>7. settings["namespace"] = IF deployment.file.settings["namespace"] = Nil
                                  THEN defaults["namespace"]
                                  ELSE deployment.file.settings["namespace"]
      BY <3>1, <3>3, <3>4 DEF fromFile
    <3> QED BY <2>4, <3>3, <3>6, <3>7, Zenon
  <2> QED BY <2>3, <2>4, Zenon
<1>2. StartupInv => Precedence
  BY <1>1, Zenon DEF Precedence
<1> QED BY <1>2, AlwaysStartupInv, PTL

\* The process that reconciles starts, fails and starts again as Startup says:
\* no step of a reconcile touches what main has set up, and a reconcile is cut
\* short by nothing but the end of its process.
THEOREM ProcessStarts == Spec => StartupSpec
<1>1. Init => StartupInit
  BY DEF Init
<1>2. [Next]_allVars => [StartupNext]_startupVars
  BY StepsOfStartup
<1> QED BY <1>1, <1>2, PTL DEF Spec, StartupSpec

\* What main has once it is connected to its queue: parameters that NewSQS
\* accepted, and controllers that watch what is configured and installed.
ServeInv ==
  /\ stage \in {"redis", "oidc", "controllers", "serve", "running"} =>
       validateConfig(QueueParameters)
  /\ watched \subseteq Configured \cap installed

\* The GVKs that main has once its configuration was read.
LEMMA ConfiguredGVKs ==
  ASSUME Chosen, program # "apiserver"
  PROVE  settings.watchedGVKs = Configured
<1>1. CASE flags.config = ""
  <2>1. settings = NoClientConfig \/ settings = NoSyncConfig
    BY <1>1, Zenon DEF Chosen
  <2>2. NoClientConfig.watchedGVKs = {} /\ NoSyncConfig.watchedGVKs = {}
    BY Zenon DEF NoClientConfig, NoSyncConfig
  <2>3. Configured = {}
    BY <1>1, Zenon DEF Configured
  <2> QED BY <2>1, <2>2, <2>3, Zenon
<1>2. CASE flags.config # ""
  <2> DEFINE defaults == IF program = "client" THEN ClientDefaults(flags) ELSE SyncDefaults(flags)
             opts == ManagerOptions(flags, LeaderElectionID)
             file == deployment.file
  <2>1. Loaded.options # Nil /\ settings = Loaded.settings
    BY <1>2, Zenon DEF Chosen
  <2>2. Loaded = NewConfig(opts, file, defaults)
    BY Zenon DEF Loaded
  <2>3. "watchedGVKs" \in DOMAIN defaults /\ defaults.watchedGVKs = {}
    BY DEF ClientDefaults, SyncDefaults
  <2> HIDE DEF opts, defaults
  <2>4. file # Nil
    <3>1. file = Nil => Loaded.options = Nil
      BY <2>2 DEF NewConfig
    <3> QED BY <2>1, <3>1, Zenon
  <2>5. settings = fromFile(defaults, file)
    BY <2>1, <2>2, <2>4 DEF NewConfig
  <2>6. settings["watchedGVKs"] =
          IF file.settings["watchedGVKs"] = Nil THEN defaults["watchedGVKs"]
          ELSE file.settings["watchedGVKs"]
    BY <2>3, <2>5, Zenon DEF fromFile
  <2>7. CASE file.settings.watchedGVKs = Nil
    <3>1. Configured = {}
      BY <2>7, Zenon DEF Configured
    <3> QED BY <2>3, <2>6, <2>7, <3>1, Zenon
  <2>8. CASE file.settings.watchedGVKs # Nil
    <3>1. Configured = file.settings.watchedGVKs
      BY <1>2, <2>4, <2>8, Zenon DEF Configured
    <3> QED BY <2>6, <2>8, <3>1, Zenon
  <2> QED BY <2>7, <2>8, Zenon
<1> QED BY <1>1, <1>2, Zenon

\* A step that leaves deployment, configuration and watches alone.
LEMMA ServeStays ==
  ASSUME ServeInv, UNCHANGED <<deployment, app, watched>>, installed \subseteq installed',
         stage' \in {"redis", "oidc", "controllers", "serve", "running"} =>
           stage \in {"redis", "oidc", "controllers", "serve", "running"}
  PROVE  ServeInv'
<1>1. program' = program /\ flags' = flags
  BY SameDeployment
<1>2. Configured' = Configured
  BY <1>1, Zenon DEF Configured
<1>3. QueueParameters' = QueueParameters
  BY <1>1, Zenon DEF QueueParameters
<1> QED BY <1>1, <1>2, <1>3 DEF ServeInv

\* Every step keeps it.
LEMMA ServeKeeps ==
  ASSUME StartupInv, ServeInv, [StartupNext]_startupVars
  PROVE  ServeInv'
<1> DEFINE connected == {"redis", "oidc", "controllers", "serve", "running"}
<1>1. deployment \in Deployment
  BY DEF StartupInv, StartupTypeOK
<1>2. ASSUME Fail PROVE ServeInv'
  BY <1>2, ServeStays DEF Fail
<1>3. ASSUME UseFileError \/ CallError \/ LoadEnvironmentError \/ NewSQSInvalid \/ Stop
      PROVE  Fail
  BY <1>3, Zenon DEF UseFileError, CallError, LoadEnvironmentError, NewSQSInvalid, Stop
<1>4. ASSUME stage \notin {"running", "exited"}
      PROVE  /\ stage = "configure" => NextStage = "manager"
             /\ stage = "manager" => NextStage \in {"tls", "environment"}
             /\ stage = "tls" => NextStage = "environment"
             /\ stage = "environment" => NextStage = "queue"
             /\ program = "apiserver" => stage # "controllers"
  <2>1. \E i \in DOMAIN Stages[program] : stage = Stages[program][i]
    BY <1>4 DEF StartupInv, StartupTypeOK
  <2> QED BY <1>1, <2>1, Calls
<1>5. CASE UseFlags \/ UseFile
  <2>1. /\ stage = "configure" /\ stage' = NextStage
        /\ UNCHANGED <<deployment, app, watched, installed>>
    BY <1>5, Zenon DEF UseFlags, UseFile
  <2> QED BY <1>4, <2>1, ServeStays
<1>6. CASE Call
  <2>1. /\ stage \in {"manager", "tls", "redis", "oidc", "serve"} /\ stage' = NextStage
        /\ UNCHANGED <<deployment, app, watched, installed>>
    BY <1>6 DEF Call
  <2> QED BY <1>4, <2>1, ServeStays
<1>7. CASE LoadEnvironment
  <2>1. /\ stage = "environment" /\ stage' = NextStage
        /\ UNCHANGED <<deployment, watched, installed>>
    BY <1>7 DEF LoadEnvironment
  <2>2. stage' \notin connected
    BY <1>4, <2>1
  <2>3. Configured' = Configured
    BY <2>1, SameDeployment, Zenon DEF Configured
  <2> QED BY <2>1, <2>2, <2>3 DEF ServeInv
<1>8. CASE NewSQS
  <2>1. validateConfig(QueueParameters) /\ UNCHANGED <<deployment, app, watched, installed>>
    BY <1>8 DEF NewSQS
  <2>2. QueueParameters' = QueueParameters /\ Configured' = Configured
    BY <2>1, SameDeployment, Zenon DEF QueueParameters, Configured
  <2> QED BY <2>1, <2>2 DEF ServeInv
<1>9. CASE SetupControllers
  <2>1. /\ stage = "controllers" /\ watched' = loadWatchedGVKs(settings, getAvailableGVKs)
        /\ UNCHANGED <<deployment, app, installed>>
    BY <1>9 DEF SetupControllers
  <2>2. Chosen /\ program # "apiserver"
    BY <1>4, <2>1 DEF StartupInv
  <2>3. watched' \subseteq settings.watchedGVKs \cap installed
    BY <2>1 DEF loadWatchedGVKs, getAvailableGVKs
  <2>4. QueueParameters' = QueueParameters /\ Configured' = Configured
    BY <2>1, SameDeployment, Zenon DEF QueueParameters, Configured
  <2>5. settings.watchedGVKs = Configured
    BY <2>2, ConfiguredGVKs, Zenon
  <2> QED BY <2>1, <2>3, <2>4, <2>5 DEF ServeInv
<1>10. CASE Restart
  <2>1. stage' = Stages[program][1] /\ watched' = {}
    BY <1>10 DEF Restart
  <2>2. stage' \notin connected
    BY <1>1, <2>1, FirstCall
  <2> QED BY <2>1, <2>2 DEF ServeInv
<1>11. ASSUME UNCHANGED <<deployment, process>>, installed \subseteq installed'
       PROVE  ServeInv'
  BY <1>11, ServeStays DEF process
<1>12. CASE Recover
  BY <1>11, <1>12 DEF Recover
<1>13. ASSUME NEW s \in Service, Outage(s) PROVE ServeInv'
  BY <1>11, <1>13 DEF Outage
<1>14. ASSUME NEW gvks \in Bundle, Install(gvks) PROVE ServeInv'
  BY <1>11, <1>14 DEF Install
<1>15. CASE UNCHANGED startupVars
  BY <1>11, <1>15 DEF startupVars
<1> QED BY <1>2, <1>3, <1>5, <1>6, <1>7, <1>8, <1>9, <1>10, <1>12, <1>13, <1>14, <1>15,
           Zenon DEF StartupNext, Step

\* What a process has once it is connected, at every step.
LEMMA AlwaysServeInv == Spec => []ServeInv
<1>1. Init => ServeInv
  <2> SUFFICES ASSUME Init PROVE ServeInv
    OBVIOUS
  <2>1. /\ deployment \in Deployment /\ stage = Stages[program][1] /\ watched = {}
    BY DEF Init, StartupInit
  <2>2. stage \in {"environment", "configure"}
    BY <2>1, FirstCall
  <2> QED BY <2>1, <2>2 DEF ServeInv
<1>2. StartupInv /\ ServeInv /\ [Next]_allVars => ServeInv'
  BY StepsOfStartup, ServeKeeps
<1> QED BY <1>1, <1>2, AlwaysStartupInv, PTL DEF Spec

\* A process only watches what its file configures and what is installed:
\* loadWatchedGVKs never lets a controller be built for a kind that the
\* Kubernetes cluster does not know, whatever was down when it asked, and no
\* watch outlives its process.
THEOREM WatchesWhatIsConfigured == Spec => [](watched \subseteq Configured \cap installed)
<1>1. ServeInv => watched \subseteq Configured \cap installed
  BY DEF ServeInv
<1> QED BY <1>1, AlwaysServeInv, PTL

\* The environment of a process that has loaded it and whose queue's parameters
\* are accepted.
LEMMA LoadedIsSound ==
  ASSUME deployment \in Deployment, LoadConfig # Nil, app = LoadConfig,
         validateConfig(QueueParameters)
  PROVE  SoundEnvironment(deployment)
<1> DEFINE env == deployment.env
<1>1. CASE program # "apiserver"
  <2>1. \A v \in ClientRequired : getEnv(env, v, "") # ""
    BY <1>1, Zenon DEF LoadConfig, LoadClientConfig
  <2>2. \A v \in ClientRequired : env[v] # ""
    BY <2>1, Zenon DEF getEnv
  <2> QED BY <1>1, <2>2, Zenon DEF SoundEnvironment, program
<1>2. CASE program = "apiserver"
  <2> DEFINE text == ApiText(env)
             value(v) ==
               CASE v \in ApiNumber -> Numeral[text[v]]
                 [] v = "API_CACHE_REDIS_TLS_ENABLED" -> Truth[text[v]]
                 [] v = "API_RATE_LIMITER" -> text[v] = "enabled"
                 [] v = "LOG_LEVEL" -> IF text[v] \in {"DEBUG", "INFO"} THEN text[v] ELSE "WARN"
                 [] OTHER -> text[v]
             sound == /\ \A v \in ApiRequired : text[v] # ""
                      /\ \A v \in ApiNumber : text[v] \in DOMAIN Numeral
                      /\ text["API_CACHE_TTL"] \in Duration
                      /\ text["API_CACHE_REDIS_TLS_ENABLED"] \in DOMAIN Truth
  <2>1. LoadApiConfig(env) # Nil
    BY <1>2, Zenon DEF LoadConfig
  <2>2. sound /\ LoadApiConfig(env) = [v \in EnvVar |-> value(v)]
    BY <2>1, Zenon DEF LoadApiConfig
  <2>3. app = [v \in EnvVar |-> value(v)]
    BY <1>2, <2>2, Zenon DEF LoadConfig
  <2>4. ASSUME NEW v \in {"SQS_BATCH_SIZE", "SQS_WAIT_SECONDS"}
        PROVE  app[v] = Numeral[text[v]]
    <3>1. v \in ApiNumber
      BY DEF ApiNumber
    <3>2. v \in EnvVar
      BY <3>1, Zenon DEF EnvVar, ApiRequired
    <3>3. v \notin {"API_CACHE_REDIS_TLS_ENABLED", "API_RATE_LIMITER", "LOG_LEVEL"}
      OBVIOUS
    <3>4. value(v) = Numeral[text[v]]
      <4> HIDE DEF text
      <4> QED BY <3>1, <3>3
    <3> HIDE DEF value
    <3> QED BY <2>3, <3>2, <3>4, Zenon
  <2>5. app["SQS_BATCH_SIZE"] \in 0 .. 10 /\ app["SQS_WAIT_SECONDS"] \in 0 .. 20
    <3>1. QueueParameters =
            QueueConfig(app, app["SQS_BATCH_SIZE"], app["SQS_WAIT_SECONDS"], 120)
      BY <1>2, Zenon DEF QueueParameters
    <3>2. /\ QueueParameters.batchSize = app["SQS_BATCH_SIZE"]
          /\ QueueParameters.waitSeconds = app["SQS_WAIT_SECONDS"]
      BY <3>1 DEF QueueConfig
    <3>3. QueueParameters.batchSize \in 0 .. 10 /\ QueueParameters.waitSeconds \in 0 .. 20
      BY Zenon DEF validateConfig
    <3> QED BY <3>2, <3>3, Zenon
  <2>6. /\ Numeral[text["SQS_BATCH_SIZE"]] \in 0 .. 10
        /\ Numeral[text["SQS_WAIT_SECONDS"]] \in 0 .. 20
    <3> HIDE DEF text
    <3> QED BY <2>4, <2>5, Zenon
  <2> QED BY <1>2, <2>2, <2>6, Zenon DEF SoundEnvironment, program
<1> QED BY <1>1, <1>2, Zenon

\* The file of a process that has read it.
LEMMA ChosenIsSound ==
  ASSUME program # "apiserver" => Chosen
  PROVE  SoundFile(deployment)
<1> DEFINE file == deployment.file
           opts == ManagerOptions(flags, LeaderElectionID)
           defaults == IF program = "client" THEN ClientDefaults(flags) ELSE SyncDefaults(flags)
           filled == Filled(addLeaderElectionTo(opts, file), file, Option \ {"webhookServer"})
<1>1. ASSUME program # "apiserver", flags.config # ""
      PROVE  file # Nil /\ (file.host # "" => file.port # Nil)
  <2>1. Loaded.options # Nil
    BY <1>1, Zenon DEF Chosen
  <2>2. Loaded = NewConfig(opts, file, defaults)
    BY Zenon DEF Loaded
  <2> HIDE DEF opts, defaults
  <2>3. file = Nil => Loaded.options = Nil
    BY <2>2 DEF NewConfig
  <2>4. file # Nil
    BY <2>1, <2>3, Zenon
  <2>5. Loaded.options = addTo(opts, file)
    BY <2>2, <2>4 DEF NewConfig
  <2>6. addTo(opts, file) = addWebhookTo(filled, file)
    BY Zenon DEF addTo
  <2>7. addWebhookTo(filled, file) # Nil
    BY <2>1, <2>5, <2>6, Zenon
  <2> HIDE DEF filled
  <2>8. file.host # "" /\ file.port = Nil => addWebhookTo(filled, file) = Nil
    BY Zenon DEF addWebhookTo, PortIsRead
  <2> QED BY <2>4, <2>7, <2>8, Zenon
<1> QED BY <1>1, Zenon DEF SoundFile, program, flags

\* A process that serves was deployed soundly: main lets no process get as far as
\* serving without the variables its LoadConfig requires, with a number that
\* NewSQS refuses, or with a file that is missing or names a host without port.
\* It is the converse of what SoundRuns says of sound deployments.
THEOREM ServesOnlyIfSound == Spec => [](stage = "running" => Sound(deployment))
<1>1. StartupInv /\ ServeInv => (stage = "running" => Sound(deployment))
  <2> SUFFICES ASSUME StartupInv, ServeInv, stage = "running" PROVE Sound(deployment)
    OBVIOUS
  <2>1. /\ deployment \in Deployment /\ app = LoadConfig /\ app # Nil
        /\ program # "apiserver" => Chosen
    BY DEF StartupInv, StartupTypeOK
  <2>2. validateConfig(QueueParameters)
    BY DEF ServeInv
  <2>3. SoundEnvironment(deployment)
    BY <2>1, <2>2, LoadedIsSound, Zenon
  <2>4. SoundFile(deployment)
    BY <2>1, ChosenIsSound, Zenon
  <2> QED BY <2>3, <2>4, Zenon DEF Sound
<1> QED BY <1>1, AlwaysStartupInv, AlwaysServeInv, PTL

-----------------------------------------------------------------------------
(* The order of the watched resources.                                     *)

\* The patches of the resources at some places.
PatchesAt(cs, places, missed, world) ==
  [n \in 1 .. Len(places) |-> Patch(cs, places[n], missed, world)]

\* What is merged is what is there after the last of them.
LEMMA MergedRounds ==
  ASSUME NEW cs, NEW places, Len(places) \in Nat, NEW missed, NEW world
  PROVE  \E g : /\ PatchRounds(g, cs.initial, PatchesAt(cs, places, missed, world), Len(places))
                /\ Merged(cs, places, missed, world) = g[Len(places)]
<1> DEFINE L == Len(places)
           patches == PatchesAt(cs, places, missed, world)
           Round(g) == g = [n \in 0 .. L |-> IF n = 0 THEN cs.initial
                                             ELSE Merge(g[n - 1], Patch(cs, places[n], missed, world))]
           merged == CHOOSE g : Round(g)
<1>1. Merged(cs, places, missed, world) = merged[L]
  BY DEF Merged
<1>2. \A n \in 0 .. L : n # 0 => patches[n] = Patch(cs, places[n], missed, world)
  BY DEF PatchesAt
<1> HIDE DEF patches
<1>3. ASSUME NEW g
      PROVE  Round(g) <=> PatchRounds(g, cs.initial, patches, L)
  <2> DEFINE e(n) == IF n = 0 THEN cs.initial
                     ELSE Merge(g[n - 1], Patch(cs, places[n], missed, world))
             f(n) == IF n = 0 THEN cs.initial ELSE Merge(g[n - 1], patches[n])
  <2>1. \A n \in 0 .. L : e(n) = f(n)
    BY <1>2, Zenon
  <2>2. [n \in 0 .. L |-> e(n)] = [n \in 0 .. L |-> f(n)]
    <3> HIDE DEF e, f
    <3> QED BY <2>1, Zenon
  <2> QED BY <2>2, Zenon DEF PatchRounds
<1>4. \E g : PatchRounds(g, cs.initial, patches, L)
  BY PatchesGoOn, Zenon
<1>5. Round(merged)
  <2>1. \E g : Round(g)
    <3> HIDE DEF Round
    <3> QED BY <1>3, <1>4, Zenon
  <2> HIDE DEF Round
  <2> QED BY <2>1, Zenon
<1> HIDE DEF merged, Round
<1>6. PatchRounds(merged, cs.initial, patches, L)
  BY <1>3, <1>5, Zenon
<1> QED BY <1>1, <1>6, Zenon DEF patches

\* The first places, in the order of the ClusterSync.
AsListed(l) == [i \in 1 .. l |-> i]

LEMMA Places ==
  ASSUME NEW l \in Nat
  PROVE  Len(AsListed(l)) = l /\ \A i \in 1 .. l : AsListed(l)[i] = i
BY DEF AsListed

\* Nothing is merged before the first place.
LEMMA MergedNone ==
  ASSUME NEW cs, NEW missed, NEW world
  PROVE  Merged(cs, AsListed(0), missed, world) = cs.initial
<1>1. Len(AsListed(0)) = 0 /\ 0 \in Nat
  BY Places
<1>2. PICK g : /\ PatchRounds(g, cs.initial, PatchesAt(cs, AsListed(0), missed, world), 0)
               /\ Merged(cs, AsListed(0), missed, world) = g[0]
  BY <1>1, MergedRounds
<1>3. g[0] = cs.initial
  <2>1. \A f, spec, patches : PatchRounds(f, spec, patches, 0) => f[0] = spec
    BY <1>1, PatchRound, Zenon
  <2> QED BY <1>2, <2>1, Zenon
<1> QED BY <1>2, <1>3

\* One more place is one more merge.
LEMMA MergedOneMore ==
  ASSUME NEW cs, NEW world, NEW l \in Nat, NEW missed, NEW more,
         \A i \in 1 .. l : i \in missed <=> i \in more
  PROVE  Merged(cs, AsListed(l + 1), more, world) =
           Merge(Merged(cs, AsListed(l), missed, world), Patch(cs, l + 1, more, world))
<1> DEFINE M == l + 1
           before == PatchesAt(cs, AsListed(l), missed, world)
           patches == PatchesAt(cs, AsListed(M), more, world)
<1>1. M \in Nat /\ l <= M /\ M \in 1 .. M /\ M - 1 = l /\ \A i \in 1 .. l : i \in 1 .. M
  OBVIOUS
<1>2. \A i \in 1 .. l : before[i] = Patch(cs, i, missed, world)
  BY Places, Zenon DEF PatchesAt
<1>3. \A i \in 1 .. M : patches[i] = Patch(cs, i, more, world)
  <2> HIDE DEF M
  <2> QED BY <1>1, Places, Zenon DEF PatchesAt
<1>4. \A i \in 1 .. l : before[i] = patches[i]
  <2>1. \A i \in 1 .. l : Patch(cs, i, missed, world) = Patch(cs, i, more, world)
    BY Zenon DEF Patch
  <2> HIDE DEF before, patches, M
  <2> QED BY <1>1, <1>2, <1>3, <2>1, Zenon
<1> HIDE DEF M
<1>5. Len(AsListed(l)) = l /\ Len(AsListed(M)) = M
  BY <1>1, Places
<1>6. PICK g : PatchRounds(g, cs.initial, before, l) /\ Merged(cs, AsListed(l), missed, world) = g[l]
  BY <1>5, MergedRounds
<1>7. PICK h : PatchRounds(h, cs.initial, patches, M) /\ Merged(cs, AsListed(M), more, world) = h[M]
  BY <1>1, <1>5, MergedRounds
<1> HIDE DEF before, patches
<1>8. g[l] = h[l]
  BY <1>1, <1>4, <1>6, <1>7, SameRounds, SMTT(20)
<1>9. h[M] = Merge(h[M - 1], patches[M])
  <2>1. ASSUME NEW f, NEW spec, NEW some, PatchRounds(f, spec, some, M)
        PROVE  \A n \in 1 .. M : f[n] = Merge(f[n - 1], some[n])
    <3>1. M \in Nat
      BY <1>1
    <3> QED BY <2>1, <3>1, PatchRound
  <2> QED BY <1>1, <1>7, <2>1, Zenon
<1>10. Merged(cs, AsListed(M), more, world) =
         Merge(Merged(cs, AsListed(l), missed, world), Patch(cs, M, more, world))
  BY <1>1, <1>3, <1>6, <1>7, <1>8, <1>9, Zenon
<1> QED BY <1>10 DEF M

\* What is found of the resource at a place.
Found(cs, place, missed, world) ==
  IF place \in missed THEN <<>> ELSE world[cs.resources[place].kind]

\* The resources up to a place have handlers that can read what is found.
AllReadable(cs, place, missed, world) ==
  \A i \in 1 .. place :
    /\ cs.resources[i].kind \in Registered
    /\ Readable(cs.resources[i].kind, Found(cs, i, missed, world))

\* Then their patches may come in any order.
LEMMA ReadableCommute ==
  ASSUME NEW cs, NEW L \in Nat, NEW missed, NEW world, AllReadable(cs, L, missed, world)
  PROVE  Commuting(PatchesAt(cs, AsListed(L), missed, world), L)
<1> DEFINE patches == PatchesAt(cs, AsListed(L), missed, world)
           kind(i) == cs.resources[i].kind
           found(i) == Found(cs, i, missed, world)
<1>1. \A i \in 1 .. L : kind(i) \in Registered /\ Readable(kind(i), found(i))
  BY Zenon DEF AllReadable
<1>2. ASSUME NEW i \in 1 .. L
      PROVE  patches[i] = Handle(kind(i), found(i))
  <2>1. patches[i] = Patch(cs, i, missed, world)
    BY Places, Zenon DEF PatchesAt
  <2> QED BY <2>1, Zenon DEF Patch, Found
<1>3. ASSUME NEW i \in 1 .. L, NEW j \in 1 .. L
      PROVE  kind(i) = kind(j) => found(i) = found(j) \/ found(i) = <<>> \/ found(j) = <<>>
  BY Zenon DEF Found
<1> HIDE DEF kind, found, patches
<1>4. ASSUME NEW i \in 1 .. L PROVE IsPatch(patches[i])
  BY <1>1, <1>2, HandledPatch, Zenon
<1>5. ASSUME NEW i \in 1 .. L, NEW j \in 1 .. L PROVE Compatible(patches[i], patches[j])
  <2>1. /\ kind(i) \in Registered /\ Readable(kind(i), found(i))
        /\ kind(j) \in Registered /\ Readable(kind(j), found(j))
        /\ kind(i) = kind(j) => found(i) = found(j) \/ found(i) = <<>> \/ found(j) = <<>>
    BY <1>1, <1>3, Zenon
  <2>2. Compatible(Handle(kind(i), found(i)), Handle(kind(j), found(j)))
    BY <2>1, HandledCompatible
  <2> QED BY <1>2, <2>2, Zenon
<1>6. Commuting(patches, L)
  BY <1>4, <1>5, Zenon DEF Commuting
<1> QED BY <1>6 DEF patches

\* Whatever the order, the same is merged.
LEMMA AnyOrder ==
  ASSUME NEW cs, HasTierList(cs.initial), NEW L \in Nat, NEW missed, NEW world,
         AllReadable(cs, L, missed, world), NEW places \in SetToSeqs(1 .. L)
  PROVE  Merged(cs, places, missed, world) = Merged(cs, AsListed(L), missed, world)
<1> DEFINE patches == PatchesAt(cs, AsListed(L), missed, world)
           ordered == PatchesAt(cs, places, missed, world)
<1>1. Cardinality(1 .. L) = L
  BY FS_Interval
<1>2. /\ places \in [1 .. L -> 1 .. L]
      /\ \A m, n \in 1 .. L : m # n => places[m] # places[n]
  BY <1>1 DEF SetToSeqs
<1>3. Len(places) = L
  BY <1>2
<1>4. ASSUME NEW n \in 1 .. L
      PROVE  places[n] \in 1 .. L /\ ordered[n] = patches[places[n]]
  <2>1. places[n] \in 1 .. L
    BY <1>2
  <2>2. ordered[n] = Patch(cs, places[n], missed, world)
    BY <1>3, Zenon DEF PatchesAt
  <2>3. patches[places[n]] = Patch(cs, places[n], missed, world)
    BY <2>1, Places, Zenon DEF PatchesAt
  <2> QED BY <2>1, <2>2, <2>3
<1>5. Len(AsListed(L)) = L
  BY Places
<1>6. PICK g : PatchRounds(g, cs.initial, patches, L) /\ Merged(cs, AsListed(L), missed, world) = g[L]
  BY <1>5, MergedRounds
<1>7. PICK h : PatchRounds(h, cs.initial, ordered, L) /\ Merged(cs, places, missed, world) = h[L]
  BY <1>3, MergedRounds
<1>8. Commuting(patches, L)
  BY ReadableCommute
<1> HIDE DEF patches, ordered
<1>9. g[L] = h[L]
  <2>1. \A m, n \in 1 .. L : places[m] = places[n] => m = n
    BY <1>2, Zenon
  <2>2. \A spec, ps, os, order, e, f :
          /\ HasTierList(spec)
          /\ Commuting(ps, L)
          /\ \A n \in 1 .. L : order[n] \in 1 .. L /\ os[n] = ps[order[n]]
          /\ \A m, n \in 1 .. L : order[m] = order[n] => m = n
          /\ PatchRounds(e, spec, ps, L)
          /\ PatchRounds(f, spec, os, L)
          => e[L] = f[L]
    BY OrderOfPatches, Zenon
  <2> QED BY <1>4, <1>6, <1>7, <1>8, <2>1, <2>2, SMTT(20)
<1> QED BY <1>6, <1>7, <1>9

-----------------------------------------------------------------------------
(* A reconcile.                                                            *)

\* The fields stay the same ones.
LEMMA MergedDomain ==
  ASSUME NEW dst, NEW src
  PROVE  DOMAIN Merge(dst, src) = DOMAIN dst
  BY DEF Merge

\* The places of the resources that were read.
Done == (1 .. next - 1) \ unread

\* The inductive invariant of a reconcile: what the buffer has of the resources
\* before the next, and that it is what a merge of them in their order makes.
ReconcileInv ==
  sync # Nil =>
    /\ sync \in ClusterSync
    /\ objects \in World
    /\ next \in 1 .. Len(sync.resources) + 1
    /\ unread \subseteq 1 .. next - 1
    /\ errors \in BOOLEAN
    /\ errors => Incomplete(sync, next, objects)
    /\ ~errors =>
         /\ sync.initial # Nil
         /\ DOMAIN buffer = DOMAIN EmptySpec
         /\ HasRead(buffer, sync.initial, KindsAt(sync, Done), objects)
         /\ AllReadable(sync, next - 1, unread, objects)
         /\ sync.initial.tiers.set =>
              /\ HasTierList(buffer)
              /\ HasTiers(buffer.tiers.list, sync.initial.tiers.list, KindsAt(sync, Done), objects)
              /\ buffer = Merged(sync, AsListed(next - 1), unread, objects)

\* The part of it that the last reconcile leaves.
SentInv == ReadIsSent /\ FailsOnlyIfIncomplete /\ TiersOfInitialData /\ OrderIrrelevant

\* What was sent does not change with the reconcile that goes on.
LEMMA SentStays ==
  ASSUME SentInv, UNCHANGED <<sent, objects>>
  PROVE  SentInv'
<1>1. sent' = sent /\ objects' = objects
  OBVIOUS
<1> QED BY <1>1, Zenon DEF SentInv, ReadIsSent, FailsOnlyIfIncomplete, TiersOfInitialData,
           OrderIrrelevant

\* Nothing was sent.
LEMMA NothingSent ==
  ASSUME sent' = Nil
  PROVE  SentInv'
BY Zenon DEF SentInv, ReadIsSent, FailsOnlyIfIncomplete, TiersOfInitialData, OrderIrrelevant

\* The objects of a kind, if a handler can read them.
LEMMA CompleteIsReadable ==
  ASSUME NEW world \in World, NEW kind \in Registered
  PROVE  /\ IsList(world["VPC"])
         /\ Complete(kind, world[kind]) => Readable(kind, world[kind])
<1>1. "VPC" \in Registered /\ "AWSManagedMachinePool" \in Registered
  BY DEF Registered
<1>2. \A k \in Registered : IsList(world[k])
  BY SyncAssumption, Zenon
<1>3. ASSUME kind = "AWSManagedMachinePool", Complete(kind, world[kind]),
             NEW i \in DOMAIN world[kind]
      PROVE  HasTaints(world[kind][i])
  <2> DEFINE pools == world["AWSManagedMachinePool"]
             fields == pools[i].fields
  <2>1. Considered("AWSManagedMachinePool", pools) = pools
    BY DEF Considered
  <2>2. "taints" \in Paths["AWSManagedMachinePool"]
    BY DEF Paths
  <2>3. getNested(pools[i], Paths["AWSManagedMachinePool"])
    BY <1>3, <2>1, Zenon DEF Complete
  <2>4. "taints" \in DOMAIN fields
    BY <2>2, <2>3, Zenon DEF getNested
  <2>5. i \in DOMAIN pools
    BY <1>3, Zenon
  <2>6. IsList(fields["taints"])
    BY <2>4, <2>5, SyncAssumption, Zenon
  <2> QED BY <1>3, <2>6, Zenon DEF HasTaints
<1> QED BY <1>1, <1>2, <1>3, Zenon DEF Readable

\* A ClusterSync with initial data.
LEMMA InitialData ==
  ASSUME NEW cs \in ClusterSync
  PROVE  /\ Len(cs.resources) \in Nat /\ DOMAIN cs.resources = 1 .. Len(cs.resources)
         /\ cs.initial # Nil =>
              /\ DOMAIN cs.initial = DOMAIN EmptySpec
              /\ IsList(cs.initial.tiers.list)
              /\ cs.initial.tiers.set => HasTierList(cs.initial)
<1>1. cs.resources \in Seq([kind: STRING, single: BOOLEAN])
  BY SyncAssumption, Zenon
<1>2. Len(cs.resources) \in Nat /\ DOMAIN cs.resources = 1 .. Len(cs.resources)
  BY <1>1
<1>3. ASSUME cs.initial # Nil
      PROVE  /\ DOMAIN cs.initial = DOMAIN EmptySpec
             /\ cs.initial.tiers.set \in BOOLEAN
             /\ IsList(cs.initial.tiers.list)
             /\ \A i \in DOMAIN cs.initial.tiers.list :
                  /\ DOMAIN cs.initial.tiers.list[i] = DOMAIN EmptyTier
                  /\ IsList(cs.initial.tiers.list[i].taints)
  BY <1>3, SyncAssumption, Zenon
<1>4. ASSUME cs.initial # Nil, cs.initial.tiers.set
      PROVE  HasTierList(cs.initial)
  <2>1. cs.initial.tiers.set = TRUE
    BY <1>3, <1>4, Zenon
  <2> QED BY <1>3, <1>4, <2>1, Zenon DEF HasTierList, AreTiers, IsTier
<1> QED BY <1>2, <1>3, <1>4, Zenon

\* A reconcile that begins has read nothing.
LEMMA ReconcileBegins ==
  ASSUME NEW cs \in ClusterSync, NEW world \in World, Reconcile(cs, world)
  PROVE  ReconcileInv' /\ SentInv'
<1>1. /\ sync' = cs /\ objects' = world /\ next' = 1 /\ unread' = {}
      /\ buffer' = (IF cs.initial = Nil THEN EmptySpec ELSE cs.initial)
      /\ errors' = (cs.initial = Nil) /\ sent' = Nil
  BY DEF Reconcile
<1>2. SentInv'
  BY <1>1, NothingSent, Zenon
<1>3. next' \in 1 .. Len(cs.resources) + 1 /\ Done' = {} /\ next' - 1 = 0
  <2>1. Len(cs.resources) \in Nat
    BY InitialData, Zenon
  <2> QED BY <1>1, <2>1 DEF Done
<1>4. errors' => Incomplete(cs, 1, world)
  BY <1>1, Zenon DEF Incomplete
<1>5. ASSUME ~errors'
      PROVE  /\ cs.initial # Nil
             /\ buffer' = cs.initial
             /\ DOMAIN cs.initial = DOMAIN EmptySpec
             /\ cs.initial.tiers.set => HasTierList(cs.initial)
  <2>1. cs.initial # Nil
    BY <1>1, <1>5, Zenon
  <2>2. buffer' = cs.initial
    BY <1>1, <2>1, Zenon
  <2> QED BY <2>1, <2>2, InitialData, Zenon
<1>6. HasRead(cs.initial, cs.initial, {}, world)
  <2>1. "VPC" \in Registered
    BY DEF Registered
  <2> QED BY <2>1, CompleteIsReadable, InitialRead, Zenon
<1>7. KindsAt(cs, {}) = {}
  BY DEF KindsAt
<1>8. errors' \in BOOLEAN
  BY <1>1
<1>9. HasTiers(cs.initial.tiers.list, cs.initial.tiers.list, {}, world)
  BY InitialTiers, Zenon
<1>10. AllReadable(cs, 0, {}, world)
  BY DEF AllReadable
<1>11. Merged(cs, AsListed(0), {}, world) = cs.initial
  BY MergedNone, Zenon
<1>12. unread' \subseteq 1 .. next' - 1
  BY <1>1, Zenon
<1> HIDE DEF Done
<1>13. ASSUME ~errors'
       PROVE  /\ sync'.initial # Nil
              /\ DOMAIN buffer' = DOMAIN EmptySpec
              /\ HasRead(buffer', sync'.initial, KindsAt(sync', Done'), objects')
              /\ AllReadable(sync', next' - 1, unread', objects')
              /\ sync'.initial.tiers.set =>
                   /\ HasTierList(buffer')
                   /\ HasTiers(buffer'.tiers.list, sync'.initial.tiers.list, KindsAt(sync', Done'),
                               objects')
                   /\ buffer' = Merged(sync', AsListed(next' - 1), unread', objects')
  BY <1>1, <1>3, <1>5, <1>6, <1>7, <1>9, <1>10, <1>11, <1>13, Zenon
<1>14. ReconcileInv'
  BY <1>1, <1>3, <1>4, <1>8, <1>12, <1>13, Zenon DEF ReconcileInv
<1> QED BY <1>2, <1>14

\* A resource that is parsed, in a reconcile that goes on.
LEMMA NextResource ==
  ASSUME ReconcileInv, Parsing
  PROVE  /\ sync # Nil /\ sync \in ClusterSync /\ objects \in World
         /\ next \in 1 .. Len(sync.resources) /\ Len(sync.resources) \in Nat
         /\ next + 1 \in 1 .. Len(sync.resources) + 1
         /\ unread \subseteq 1 .. (next + 1) - 1
         /\ unread \cup {next} \subseteq 1 .. (next + 1) - 1
         /\ (1 .. (next + 1) - 1) \ unread = Done \cup {next}
         /\ (1 .. (next + 1) - 1) \ (unread \cup {next}) = Done
<1>1. /\ sync # Nil /\ sync \in ClusterSync /\ objects \in World
      /\ next \in 1 .. Len(sync.resources) + 1
      /\ unread \subseteq 1 .. next - 1
  BY Zenon DEF ReconcileInv, Parsing
<1>2. next <= Len(sync.resources)
  BY DEF Parsing
<1>3. Len(sync.resources) \in Nat
  BY <1>1, InitialData, Zenon
<1>4. /\ next \in 1 .. Len(sync.resources)
      /\ next + 1 \in 1 .. Len(sync.resources) + 1
  BY <1>1, <1>2, <1>3
<1>5. /\ 1 .. (next + 1) - 1 = (1 .. next - 1) \cup {next}
      /\ next \notin 1 .. next - 1
  BY <1>3, <1>4
<1> QED BY <1>1, <1>3, <1>4, <1>5, Zenon DEF Done

\* What is missing stays missing.
LEMMA StillIncomplete ==
  ASSUME NEW cs, NEW place \in Nat, NEW world, Incomplete(cs, place, world)
  PROVE  Incomplete(cs, place + 1, world)
<1>1. 1 .. place - 1 \subseteq 1 .. (place + 1) - 1
  OBVIOUS
<1> QED BY <1>1, Zenon DEF Incomplete

\* A resource that cannot be parsed.
LEMMA ParseErrorKeeps ==
  ASSUME ReconcileInv, SentInv, ParseError
  PROVE  ReconcileInv' /\ SentInv'
<1>1. /\ Parsing /\ errors' = TRUE /\ next' = next + 1
      /\ UNCHANGED <<sync, objects, buffer, unread, sent>>
  BY DEF ParseError
<1>2. SentInv'
  BY <1>1, SentStays
<1>3. /\ sync # Nil /\ sync \in ClusterSync /\ objects \in World
      /\ next \in 1 .. Len(sync.resources) /\ Len(sync.resources) \in Nat
      /\ next + 1 \in 1 .. Len(sync.resources) + 1
      /\ unread \subseteq 1 .. (next + 1) - 1
  BY <1>1, NextResource, Zenon
<1>4. \/ Resource.kind \notin Registered
      \/ Resource.single
      \/ ~Complete(Resource.kind, objects[Resource.kind])
  BY Zenon DEF ParseError
<1>5. next \in 1 .. (next + 1) - 1
  BY <1>3
<1>6. Incomplete(sync, next + 1, objects)
  BY <1>4, <1>5, Zenon DEF Incomplete, Complete, Resource
<1>7. ReconcileInv'
  BY <1>1, <1>3, <1>6, ZenonT(30) DEF ReconcileInv
<1> QED BY <1>2, <1>7

\* The patch of a resource that is parsed, and that the resources up to it could
\* be read.
LEMMA ParsedPatch ==
  ASSUME NEW cs, NEW l \in Nat, NEW missed, NEW more, NEW world,
         \A i \in 1 .. l : i \in missed <=> i \in more,
         AllReadable(cs, l, missed, world),
         cs.resources[l + 1].kind \in Registered,
         NEW found, found = Found(cs, l + 1, more, world), Readable(cs.resources[l + 1].kind, found)
  PROVE  /\ AllReadable(cs, l + 1, more, world)
         /\ Patch(cs, l + 1, more, world) = Handle(cs.resources[l + 1].kind, found)
<1>1. \A i \in 1 .. l + 1 : i \in 1 .. l \/ i = l + 1
  OBVIOUS
<1>2. \A i \in 1 .. l : Found(cs, i, missed, world) = Found(cs, i, more, world)
  BY Zenon DEF Found
<1>3. AllReadable(cs, l + 1, more, world)
  BY <1>1, <1>2, Zenon DEF AllReadable
<1>4. Patch(cs, l + 1, more, world) = Handle(cs.resources[l + 1].kind, found)
  BY Zenon DEF Patch, Found
<1> QED BY <1>3, <1>4

\* A resource whose objects are read, or whose list fails.
LEMMA ParseKeeps ==
  ASSUME ReconcileInv, SentInv, Parse \/ ParseUnread
  PROVE  ReconcileInv' /\ SentInv'
<1> DEFINE kind == Resource.kind
           found == IF next \in unread' THEN <<>> ELSE objects[kind]
           initial == sync.initial
           kinds == KindsAt(sync, Done)
<1>1. /\ Parsing /\ next' = next + 1 /\ kind \in Registered
      /\ UNCHANGED <<sync, objects, errors, sent>>
  BY DEF Parse, ParseUnread
<1>2. SentInv'
  BY <1>1, SentStays
<1>3. /\ sync # Nil /\ sync \in ClusterSync /\ objects \in World
      /\ next \in 1 .. Len(sync.resources) /\ Len(sync.resources) \in Nat
      /\ next + 1 \in 1 .. Len(sync.resources) + 1
      /\ unread \subseteq 1 .. (next + 1) - 1
      /\ unread \cup {next} \subseteq 1 .. (next + 1) - 1
      /\ (1 .. (next + 1) - 1) \ unread = Done \cup {next}
      /\ (1 .. (next + 1) - 1) \ (unread \cup {next}) = Done
  BY <1>1, NextResource, Zenon
<1>4. errors \in BOOLEAN /\ (errors => Incomplete(sync, next + 1, objects))
  <2>1. next \in Nat
    BY <1>3
  <2>2. errors \in BOOLEAN /\ (errors => Incomplete(sync, next, objects))
    BY <1>3, Zenon DEF ReconcileInv
  <2> QED BY <2>1, <2>2, StillIncomplete, Zenon
<1>5. unread' = unread \/ unread' = unread \cup {next}
  BY Zenon DEF Parse, ParseUnread
<1>6. unread' \subseteq 1 .. next' - 1
  BY <1>1, <1>3, <1>5, Zenon
<1>7. next - 1 \in Nat /\ (next - 1) + 1 = next /\ (next + 1) - 1 = next /\ next \notin 1 .. next - 1
  BY <1>3
<1>8. next \notin unread
  <2>1. unread \subseteq 1 .. next - 1
    BY <1>3, Zenon DEF ReconcileInv
  <2> QED BY <1>7, <2>1, Zenon
<1>9. ASSUME NEW i \in 1 .. next - 1
      PROVE  i \in unread <=> i \in unread'
  <2>1. i # next
    BY <1>7, ZenonT(30)
  <2> QED BY <1>5, <2>1
<1>10. /\ found = Found(sync, next, unread', objects)
       /\ buffer' = Merge(buffer, Handle(kind, found))
       /\ \/ found = objects[kind] /\ Done' = Done \cup {next} /\ Complete(kind, objects[kind])
          \/ found = <<>> /\ Done' = Done
  <2>1. found = Found(sync, next, unread', objects)
    BY Zenon DEF Found, Resource
  <2>2. CASE Parse
    <3>1. /\ buffer' = Merge(buffer, Handle(kind, objects[kind])) /\ unread' = unread
          /\ Complete(kind, objects[kind])
      BY <2>2, Zenon DEF Parse
    <3>2. Done' = Done \cup {next}
      BY <1>1, <1>3, <3>1, Zenon DEF Done
    <3>3. found = objects[kind]
      BY <1>8, <3>1, Zenon
    <3> HIDE DEF found, kind, Done
    <3> QED BY <2>1, <3>1, <3>2, <3>3, Zenon
  <2>3. CASE ParseUnread
    <3>1. buffer' = Merge(buffer, Handle(kind, <<>>)) /\ unread' = unread \cup {next}
      BY <2>3, Zenon DEF ParseUnread
    <3>2. Done' = Done
      BY <1>1, <1>3, <3>1, Zenon DEF Done
    <3>3. found = <<>>
      BY <3>1, Zenon
    <3> HIDE DEF found, kind, Done
    <3> QED BY <2>1, <3>1, <3>2, <3>3, Zenon
  <2> QED BY <2>2, <2>3
<1>11. IsList(objects["VPC"]) /\ Readable(kind, found)
  <2>1. IsList(objects["VPC"]) /\ (Complete(kind, objects[kind]) => Readable(kind, objects[kind]))
    BY <1>1, <1>3, CompleteIsReadable, Zenon
  <2>2. Readable(kind, <<>>)
    <3>1. IsList(<<>>) /\ DOMAIN <<>> = {}
      BY DEF IsList
    <3> QED BY <3>1, Zenon DEF Readable
  <2> HIDE DEF found
  <2> QED BY <1>10, <2>1, <2>2, Zenon
<1> HIDE DEF found
<1>12. KindsAt(sync, Done \cup {next}) = kinds \cup {kind}
  <2> HIDE DEF Done
  <2> QED BY DEF KindsAt, Resource
<1>13. kind = sync.resources[next].kind
  BY ZenonT(30) DEF Resource
<1> HIDE DEF kind, kinds
<1>14. ASSUME ~errors
       PROVE  /\ initial # Nil
              /\ DOMAIN buffer' = DOMAIN EmptySpec
              /\ HasRead(buffer', initial, KindsAt(sync, Done'), objects)
              /\ AllReadable(sync, next, unread', objects)
              /\ initial.tiers.set =>
                   /\ HasTierList(buffer')
                   /\ HasTiers(buffer'.tiers.list, initial.tiers.list, KindsAt(sync, Done'), objects)
                   /\ buffer' = Merged(sync, AsListed(next), unread', objects)
  <2>1. /\ initial # Nil
        /\ DOMAIN buffer = DOMAIN EmptySpec
        /\ HasRead(buffer, initial, kinds, objects)
        /\ AllReadable(sync, next - 1, unread, objects)
        /\ initial.tiers.set =>
             /\ HasTierList(buffer)
             /\ HasTiers(buffer.tiers.list, initial.tiers.list, kinds, objects)
             /\ buffer = Merged(sync, AsListed(next - 1), unread, objects)
    BY <1>3, <1>14, Zenon DEF ReconcileInv, kinds
  <2>2. DOMAIN buffer' = DOMAIN EmptySpec
    BY <1>10, <2>1, MergedDomain, Zenon
  <2>3. HasRead(buffer', initial, KindsAt(sync, Done'), objects)
    <3>1. HasRead(Merge(buffer, Handle(kind, objects[kind])), initial, kinds \cup {kind}, objects)
      BY <1>1, <1>11, <2>1, ReadOneMore, Zenon
    <3>2. HasRead(Merge(buffer, Handle(kind, <<>>)), initial, kinds, objects)
      BY <1>1, <1>11, <2>1, ReadNoMore, SMTT(20)
    <3> HIDE DEF Done
    <3> QED BY <1>10, <1>12, <3>1, <3>2, Zenon DEF kinds
  <2>4. /\ AllReadable(sync, next, unread', objects)
        /\ Patch(sync, next, unread', objects) = Handle(kind, found)
    <3> DEFINE l == next - 1
               more == unread'
    <3>1. /\ l \in Nat /\ l + 1 = next
          /\ \A i \in 1 .. l : i \in unread <=> i \in more
          /\ AllReadable(sync, l, unread, objects)
      BY <1>7, <1>9, <2>1, Zenon
    <3> HIDE DEF l, more
    <3>2. found = Found(sync, l + 1, more, objects)
      BY <1>10, <3>1, Zenon DEF more
    <3>3. sync.resources[l + 1].kind = kind
      BY <1>13, <3>1, Zenon
    <3>4. /\ sync.resources[l + 1].kind \in Registered
          /\ Readable(sync.resources[l + 1].kind, found)
      BY <1>1, <1>11, <3>3, Zenon
    <3>5. /\ AllReadable(sync, l + 1, more, objects)
          /\ Patch(sync, l + 1, more, objects) = Handle(sync.resources[l + 1].kind, found)
      BY <3>1, <3>2, <3>4, ParsedPatch, ZenonT(30)
    <3> QED BY <3>1, <3>3, <3>5, Zenon DEF more
  <2>5. ASSUME initial.tiers.set
        PROVE  /\ HasTierList(buffer')
               /\ HasTiers(buffer'.tiers.list, initial.tiers.list, KindsAt(sync, Done'), objects)
               /\ buffer' = Merged(sync, AsListed(next), unread', objects)
    <3>1. IsPatch(Handle(kind, found))
      BY <1>1, <1>11, HandledPatch, Zenon
    <3>2. HasTierList(buffer) /\ HasTiers(buffer.tiers.list, initial.tiers.list, kinds, objects)
      BY <2>1, <2>5, Zenon
    <3>3. HasTierList(buffer')
      BY <1>10, <3>1, <3>2, MergeIntoList, Zenon
    <3>4. HasTiers(buffer'.tiers.list, initial.tiers.list, KindsAt(sync, Done'), objects)
      <4>1. IsList(initial.tiers.list)
        BY <1>3, <2>1, InitialData, Zenon
      <4>2. CASE found = objects[kind] /\ Done' = Done \cup {next}
        <5>1. HasTiers(Merge(buffer, Handle(kind, objects[kind])).tiers.list, initial.tiers.list,
                       kinds \cup {kind}, objects)
          <6>1. Readable(kind, objects[kind])
            BY <1>11, <4>2, Zenon
          <6> QED BY <1>1, <3>2, <4>1, <6>1, TiersReadOneMore, Zenon
        <5> HIDE DEF Done
        <5> QED BY <1>10, <1>12, <4>2, <5>1, Zenon
      <4>3. CASE found = <<>> /\ Done' = Done
        <5>1. Merge(buffer, Handle(kind, <<>>)).tiers.list = buffer.tiers.list
          BY <1>1, <3>2, MergeNothing, Zenon
        <5> HIDE DEF Done
        <5> QED BY <1>10, <3>2, <4>3, <5>1, Zenon DEF kinds
      <4> QED BY <1>10, <4>2, <4>3, Zenon
    <3>5. buffer' = Merged(sync, AsListed(next), unread', objects)
      <4> DEFINE l == next - 1
                 more == unread'
      <4>1. /\ l \in Nat /\ l + 1 = next
            /\ \A i \in 1 .. l : i \in unread <=> i \in more
            /\ buffer = Merged(sync, AsListed(l), unread, objects)
        BY <1>7, <1>9, <2>1, <2>5, Zenon
      <4> HIDE DEF l, more
      <4>2. Merged(sync, AsListed(l + 1), more, objects) =
              Merge(Merged(sync, AsListed(l), unread, objects), Patch(sync, l + 1, more, objects))
        BY <4>1, MergedOneMore
      <4> QED BY <1>10, <2>4, <4>1, <4>2, Zenon DEF more
    <3> QED BY <3>3, <3>4, <3>5
  <2> QED BY <2>1, <2>2, <2>3, <2>4, <2>5, SMTT(20)
<1>15. next' - 1 = next
  BY <1>1, <1>7
<1> HIDE DEF Done
<1>16. ReconcileInv'
  BY <1>1, <1>3, <1>4, <1>6, <1>14, <1>15, Zenon DEF ReconcileInv
<1> QED BY <1>2, <1>16

\* The end of a reconcile.
LEMMA FinishKeeps ==
  ASSUME ReconcileInv, Finish
  PROVE  ReconcileInv' /\ SentInv'
<1>1. /\ sync # Nil /\ next > Len(sync.resources)
      /\ sent' = [sync |-> sync, unread |-> unread, failed |-> errors, data |-> buffer]
      /\ sync' = Nil /\ objects' = objects
  BY DEF Finish
<1>2. /\ sync \in ClusterSync /\ next \in 1 .. Len(sync.resources) + 1
      /\ errors \in BOOLEAN
      /\ errors => Incomplete(sync, next, objects)
      /\ ~errors =>
           /\ sync.initial # Nil
           /\ HasRead(buffer, sync.initial, KindsAt(sync, Done), objects)
           /\ AllReadable(sync, next - 1, unread, objects)
           /\ sync.initial.tiers.set =>
                /\ HasTiers(buffer.tiers.list, sync.initial.tiers.list, KindsAt(sync, Done), objects)
                /\ buffer = Merged(sync, AsListed(next - 1), unread, objects)
  BY <1>1, Zenon DEF ReconcileInv
<1>3. Len(sync.resources) \in Nat /\ DOMAIN sync.resources = 1 .. Len(sync.resources)
  BY <1>2, InitialData, ZenonT(30)
<1>4. next = Len(sync.resources) + 1 /\ next - 1 = Len(sync.resources)
  BY <1>1, <1>2, <1>3
<1>5. Done = DOMAIN sync.resources \ unread
  BY <1>3, <1>4, Zenon DEF Done
<1>6. /\ sent'.sync = sync /\ sent'.unread = unread
      /\ sent'.failed = errors /\ sent'.data = buffer
  BY <1>1
<1>7. ReadIsSent'
  BY <1>1, <1>2, <1>5, <1>6, Zenon DEF ReadIsSent
<1>8. FailsOnlyIfIncomplete'
  BY <1>1, <1>2, <1>4, <1>6, Zenon DEF FailsOnlyIfIncomplete
<1>9. TiersOfInitialData'
  BY <1>1, <1>2, <1>5, <1>6, Zenon DEF TiersOfInitialData
<1>10. OrderIrrelevant'
  <2>1. ASSUME ~errors, sync.initial.tiers.set,
               NEW places \in SetToSeqs(DOMAIN sync.resources)
        PROVE  buffer = Merged(sync, places, unread, objects)
    <3> DEFINE L == Len(sync.resources)
    <3>1. HasTierList(sync.initial)
      BY <1>2, <2>1, InitialData, Zenon
    <3>2. /\ L \in Nat /\ places \in SetToSeqs(1 .. L)
          /\ AllReadable(sync, L, unread, objects)
          /\ buffer = Merged(sync, AsListed(L), unread, objects)
      BY <1>2, <1>3, <1>4, <2>1, Zenon
    <3> HIDE DEF L
    <3> QED BY <3>1, <3>2, AnyOrder
  <2> QED BY <1>1, <1>2, <1>6, <2>1, Zenon DEF OrderIrrelevant
<1>11. ReconcileInv'
  BY <1>1, Zenon DEF ReconcileInv
<1> QED BY <1>7, <1>8, <1>9, <1>10, <1>11, SMTT(20) DEF SentInv

\* Every step of the process keeps the invariant of its reconciles.
LEMMA ReconcileNextKeeps ==
  ASSUME ReconcileInv, SentInv, [Next]_allVars
  PROVE  ReconcileInv' /\ SentInv'
<1>1. CASE UNCHANGED reconcileVars
  <2>1. UNCHANGED <<sync, objects, next, buffer, errors, unread, sent>>
    BY <1>1 DEF reconcileVars
  <2>2. SentInv'
    BY <2>1, SentStays
  <2>3. Done' = Done
    BY <2>1, Zenon DEF Done
  <2>4. ReconcileInv'
    BY <2>1, <2>3, Zenon DEF ReconcileInv
  <2> QED BY <2>2, <2>4
<1>2. CASE Stopped
  <2>1. sync' = Nil /\ sent' = Nil
    BY <1>2 DEF Stopped
  <2> QED BY <2>1, NothingSent, Zenon DEF ReconcileInv
<1>3. CASE ReconcileStep
  BY <1>3, ReconcileBegins, ParseErrorKeeps, ParseKeeps, FinishKeeps, Zenon DEF ReconcileStep
<1>4. StartupStep => UNCHANGED reconcileVars
  BY DEF StartupStep
<1>5. UNCHANGED allVars => UNCHANGED reconcileVars
  BY DEF allVars
<1> QED BY <1>1, <1>2, <1>3, <1>4, <1>5, Zenon DEF Next

\* What a reconcile has done so far, and what the last one sent.
LEMMA AlwaysReconcileInv == Spec => [](ReconcileInv /\ SentInv)
<1>1. Init => ReconcileInv /\ SentInv
  <2>1. Init => sync = Nil /\ sent = Nil
    BY DEF Init, Idle
  <2> QED BY <2>1, Zenon DEF ReconcileInv, SentInv, ReadIsSent, FailsOnlyIfIncomplete,
             TiersOfInitialData, OrderIrrelevant
<1>2. ReconcileInv /\ SentInv /\ [Next]_allVars => (ReconcileInv /\ SentInv)'
  BY ReconcileNextKeeps
<1> QED BY <1>1, <1>2, PTL DEF Spec

\* Whatever ClusterSyncs list, in whatever order and however often, and
\* whichever lists fail, what Reconcile sends has what it read: the labels, the
\* issuer, the account, the networks and the zones are those of the objects that
\* the handlers saw, and what no handler saw is what the initial data has.
THEOREM WhatIsReadIsSent == Spec => []ReadIsSent
<1>1. SentInv => ReadIsSent
  BY DEF SentInv
<1> QED BY <1>1, AlwaysReconcileInv, PTL

\* Reconcile ends with an error only for a reason that its ClusterSync or the
\* objects that a handler looks at give: neither a list that fails nor a public
\* subnet is one.
THEOREM FailuresHaveCauses == Spec => []FailsOnlyIfIncomplete
<1>1. SentInv => FailsOnlyIfIncomplete
  BY DEF SentInv
<1> QED BY <1>1, AlwaysReconcileInv, PTL

\* The tiers that Merge leaves are the initial ones, each with what its last
\* machine pool and EKS configuration add to it, whatever mergeTiers went over
\* and in whatever order.
THEOREM InitialTiersStay == Spec => []TiersOfInitialData
<1>1. SentInv => TiersOfInitialData
  BY DEF SentInv
<1> QED BY <1>1, AlwaysReconcileInv, PTL

\* When the initial data lists the tiers, every order of the watched resources
\* of a ClusterSync makes Parse and Merge leave the same data to send.
THEOREM OrderDoesNotMatter == Spec => []OrderIrrelevant
<1>1. SentInv => OrderIrrelevant
  BY DEF SentInv
<1> QED BY <1>1, AlwaysReconcileInv, PTL

=============================================================================
