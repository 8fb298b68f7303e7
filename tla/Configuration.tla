---------------------------- MODULE Configuration ---------------------------
(***************************************************************************)
(* What the three programs make of their flags, their configuration file   *)
(* and their environment: pkg/config/config.go (environment variables),    *)
(* pkg/api/config/v1 (files of the client and of the sync manager), the    *)
(* flags of cmd/client and cmd/sync/manager, and the parameters of the     *)
(* queue that pkg/sqs/sqs.go accepts.                                      *)
(*                                                                         *)
(* A text is a string and "" is the empty one, which for getEnv, for the   *)
(* options of a controller manager and for the JSON of a file is also an   *)
(* absent one.  Times and the other settings of leader election, health    *)
(* endpoints and controllers are texts too: each of them is only copied.   *)
(***************************************************************************)
EXTENDS Integers, FiniteSets

CONSTANTS
  Numeral,    \* the numbers that texts stand for (strconv.ParseInt, Atoi)
  Duration,   \* the texts that time.ParseDuration accepts
  Truth,      \* the truth values that texts stand for (strconv.ParseBool)
  GVK,        \* group, version and kind of resources that can be watched
  Nil

-----------------------------------------------------------------------------
(* The environment.                                                        *)

getEnv(env, v, default) == IF env[v] = "" THEN default ELSE env[v]

ApiNumber == {"SQS_BATCH_SIZE", "SQS_WAIT_SECONDS", "SQS_RUN_INTERVAL"}

\* Variables without which the apiserver does not start.
ApiRequired == ApiNumber \cup
  {"AWS_REGION", "DB_AWS_REGION", "DB_ENDPOINT", "DB_TABLE_NAME",
   "SQS_ENDPOINT", "SQS_AWS_REGION", "SQS_QUEUE_NAME",
   "OIDC_CLIENT_ID", "OIDC_ISSUER_URL", "K8S_RESOURCE_ID",
   "API_TENANT_ID", "API_CLIENT_ID", "API_CLIENT_SECRET",
   "API_AUTHORIZED_GROUP_ID", "API_CACHE_REDIS_HOST"}

ApiDefault ==
  [DB_INDEX_NAME |-> "", API_RATE_LIMITER |-> "", LOG_LEVEL |-> "INFO",
   API_HOST |-> "0.0.0.0:8080", API_CACHE_TTL |-> "1h",
   API_CACHE_REDIS_TLS_ENABLED |-> "true"]

EnvVar == ApiRequired \cup DOMAIN ApiDefault

ApiText(env) ==
  [v \in EnvVar |->
     getEnv(env, v, IF v \in DOMAIN ApiDefault THEN ApiDefault[v] ELSE "")]

\* The AppConfig of the apiserver, or Nil when a required variable is not set
\* or one of the others cannot be parsed.
LoadApiConfig(env) ==
  LET text == ApiText(env)
      sound == /\ \A v \in ApiRequired : text[v] # ""
               /\ \A v \in ApiNumber : text[v] \in DOMAIN Numeral
               /\ text["API_CACHE_TTL"] \in Duration
               /\ text["API_CACHE_REDIS_TLS_ENABLED"] \in DOMAIN Truth
      value(v) ==
        CASE v \in ApiNumber -> Numeral[text[v]]
          [] v = "API_CACHE_REDIS_TLS_ENABLED" -> Truth[text[v]]
          [] v = "API_RATE_LIMITER" -> text[v] = "enabled"
          [] v = "LOG_LEVEL" -> IF text[v] \in {"DEBUG", "INFO"} THEN text[v] ELSE "WARN"
          [] OTHER -> text[v]
  IN IF sound THEN [v \in EnvVar |-> value(v)] ELSE Nil

ClientRequired == {"SQS_ENDPOINT", "SQS_AWS_REGION", "SQS_QUEUE_NAME"}

\* The AppConfig of the client and of the sync manager.
LoadClientConfig(env) ==
  IF \A v \in ClientRequired : getEnv(env, v, "") # ""
  THEN [v \in ClientRequired |-> env[v]]
  ELSE Nil

-----------------------------------------------------------------------------
(* The queue.                                                              *)

\* The parameters of a queue, of which the client gives only the first three.
QueueConfig(app, batchSize, waitSeconds, visibilityTimeout) ==
  [region |-> app["SQS_AWS_REGION"], endpoint |-> app["SQS_ENDPOINT"],
   name |-> app["SQS_QUEUE_NAME"], batchSize |-> batchSize,
   waitSeconds |-> waitSeconds, visibilityTimeout |-> visibilityTimeout]

\* No program gives a QueueURL.  Zero is in every range: it is what the client
\* has, which never receives.
validateConfig(q) ==
  /\ q.region # "" /\ q.endpoint # "" /\ q.name # ""
  /\ q.batchSize \in 0 .. 10
  /\ q.waitSeconds \in 0 .. 20
  /\ q.visibilityTimeout \in 0 .. 12 * 60 * 60

-----------------------------------------------------------------------------
(* Flags and files of the two controller managers.                         *)

FlagDefault ==
  [config |-> "", metrics |-> ":9090", probe |-> ":9091", webhook |-> ":9092",
   namespace |-> "cluster-registry", leaderElect |-> ""]

\* The flags, from those given on the command line; leader-elect is "" when it
\* is false, given or not.
ParsedFlags(given) ==
  [f \in DOMAIN FlagDefault |-> IF given[f] = Nil THEN FlagDefault[f] ELSE given[f]]

ElectionOption ==
  {"leaderElect", "lock", "electionNamespace", "electionID",
   "leaseDuration", "renewDeadline", "retryPeriod"}

Option == ElectionOption \cup
  {"metrics", "probe", "readinessName", "livenessName", "webhookServer",
   "cacheSyncTimeout", "groupKindConcurrency"}

\* The ctrl.Options that main builds from the flags.
ManagerOptions(flags, id) ==
  [[o \in Option |-> ""] EXCEPT
     !["metrics"] = flags.metrics, !["probe"] = flags.probe,
     !["leaderElect"] = flags.leaderElect, !["electionID"] = id,
     !["lock"] = "leases"]

\* Options that are still empty, taken from the file.
Filled(options, file, names) ==
  [o \in Option |-> IF o \in names /\ options[o] = "" THEN file.options[o] ELSE options[o]]

addLeaderElectionTo(options, file) == Filled(options, file, ElectionOption)

\* The port is a pointer that is read before anything tells that it is set.
PortIsRead(file) == file.host # ""

\* Mutant: the port is read first.
addWebhookToPortFirst(options, file) ==
  IF file.port = Nil THEN Nil
  ELSE IF file.host # "" /\ file.port > 0 /\ file.certDir # ""
       THEN [options EXCEPT !["webhookServer"] = file.host]
       ELSE options

\* The options with the file's webhook server, or Nil when the read of an
\* absent port panics.
addWebhookTo(options, file) ==
  IF PortIsRead(file) /\ file.port = Nil THEN Nil
  ELSE IF file.host # "" /\ file.port > 0 /\ file.certDir # ""
       THEN [options EXCEPT !["webhookServer"] = file.host]
       ELSE options

\* Mutant: what the file says replaces what the flags say.
addToOver(options, file) ==
  addWebhookTo([o \in Option |-> IF file.options[o] = "" THEN options[o] ELSE file.options[o]],
               file)

\* The options of the flags, completed from the file.
addTo(options, file) ==
  addWebhookTo(Filled(addLeaderElectionTo(options, file), file, Option \ {"webhookServer"}),
               file)

-----------------------------------------------------------------------------
(* The configurations themselves.                                          *)

ClientDefaults(flags) ==
  [namespace |-> flags.namespace, bindAddress |-> flags.webhook,
   serviceIdAnnotation |-> "adobe.serviceid", watchedGVKs |-> {}]

SyncDefaults(flags) == [namespace |-> flags.namespace, watchedGVKs |-> {}]

\* The zero ClientConfig and SyncConfig, which is what main goes on with when
\* no file is named.
NoClientConfig ==
  [namespace |-> "", bindAddress |-> "", serviceIdAnnotation |-> "", watchedGVKs |-> {}]

NoSyncConfig == [namespace |-> "", watchedGVKs |-> {}]

\* A file is decoded onto the defaults: what it leaves out stays.
fromFile(defaults, file) ==
  [k \in DOMAIN defaults |-> IF file.settings[k] = Nil THEN defaults[k] ELSE file.settings[k]]

\* A file that cannot be read or decoded is Nil, and so are the options then.
NewConfig(options, file, defaults) ==
  IF file = Nil
  THEN [options |-> Nil, settings |-> defaults]
  ELSE [options |-> addTo(options, file), settings |-> fromFile(defaults, file)]

\* Mutant: a GVK that is not installed ends the loop.
loadWatchedGVKsUntilMissing(settings, available) ==
  IF available # Nil /\ settings.watchedGVKs \subseteq available
  THEN settings.watchedGVKs
  ELSE {}

\* The configured GVKs that discovery found; none when it failed.
loadWatchedGVKs(settings, available) ==
  IF available = Nil THEN {} ELSE settings.watchedGVKs \cap available

=============================================================================
