---------------------------- MODULE MCSyncProcess ---------------------------
(* Instances of SyncProcess, and with it of Startup, for TLC.              *)
EXTENDS SyncProcess, TLC

Numerals == ("0" :> 0) @@ ("5" :> 5) @@ ("10" :> 10) @@ ("11" :> 11) @@ ("-1" :> -1)
Durations == {"1h", "0"}
Truths == ("true" :> TRUE) @@ ("0" :> FALSE)

Set(f, k, v) == [f EXCEPT ![k] = v]

\* Every variable set.
Env == [v \in EnvVar |-> IF v \in ApiNumber THEN "5"
                         ELSE IF v \in DOMAIN ApiDefault THEN "" ELSE "x"]

ClusterAPI == {"Cluster", "AWSManagedControlPlane", "AWSManagedMachinePool", "EKSConfig"}
Controllers == {"VPC", "Subnet"}
SmallBundle == {ClusterAPI, Controllers}
SmallGVK == ClusterAPI \cup Controllers

NoFlags == [f \in DOMAIN FlagDefault |-> Nil]
WithFile == Set(NoFlags, "config", "/etc/config.yaml")

File ==
  [options |-> [o \in Option |-> IF o = "metrics" THEN ":1" ELSE ""],
   host |-> "", port |-> Nil, certDir |-> "",
   settings |-> [namespace |-> Nil, bindAddress |-> Nil,
                 serviceIdAnnotation |-> Nil, watchedGVKs |-> GVK]]

Deployed(p, f, file, env) == [program |-> p, flags |-> f, file |-> file, env |-> env]

\* Environments of the apiserver: one variable missing, empty or out of range.
ApiDeployment ==
  {Deployed("apiserver", NoFlags, Nil, e) :
     e \in {Env} \cup {Set(Env, v, "") : v \in {"DB_AWS_REGION", "API_CACHE_REDIS_HOST"}}
           \cup {Set(Env, "SQS_BATCH_SIZE", t) : t \in {"0", "10", "11", "-1", "ten"}}
           \cup {Set(Env, "API_CACHE_TTL", t) : t \in {"0", "hour"}}
           \cup {Set(Env, "API_CACHE_REDIS_TLS_ENABLED", t) : t \in {"0", "maybe"}}}

\* Flags and files of the controller managers.
ClientDeployment ==
  {Deployed("client", f, file, Env) :
     f \in {NoFlags, Set(NoFlags, "namespace", "ns"), WithFile,
            Set(WithFile, "namespace", "ns"), Set(WithFile, "metrics", "")},
     file \in {File, [File EXCEPT !.settings.namespace = "other"]}}
  \cup
  {Deployed("client", WithFile, file, Env) :
     file \in {Nil, [File EXCEPT !.host = "h"],
               [File EXCEPT !.host = "h", !.port = 9443, !.certDir = "c"]}}
  \cup
  {Deployed("client", WithFile, File, Set(Env, v, "")) : v \in ClientRequired}

SyncDeployment ==
  {Deployed("sync", WithFile, file, Env) : file \in {File, Nil}}

SmallDeployment == ApiDeployment \cup ClientDeployment \cup SyncDeployment

-----------------------------------------------------------------------------
(* ClusterSyncs and the objects they find.                                 *)

Object(name, fields) == [name |-> name, private |-> name = "private", fields |-> fields]

Pool(name, type) ==
  Object(name, [name |-> name, instanceType |-> type, minSize |-> 1, maxSize |-> 2,
                labels |-> ("tier" :> name),
                taints |-> <<[key |-> "k", value |-> "", effect |-> "NoSchedule"]>>])

Config(name) == Object(name, [containerRuntime |-> "containerd"])

Subnet(name, id) == Object(name, [availabilityZone |-> "z", availabilityZoneID |-> id])

Vpc(owner) == Object("v", [vpcID |-> owner, cidrBlocks |-> <<"10.0.0.0/8">>, ownerID |-> owner])

Labels(region) ==
  Object("c", [clusterShortName |-> "c", locationShortName |-> region,
               provider |-> "eks", location |-> "us-west-2", environment |-> "dev"])

Nothing == [k \in Registered |-> <<>>]

Cluster1 ==
  [Nothing EXCEPT
     !["Cluster"] = <<Labels("va6")>>,
     !["AWSManagedControlPlane"] = <<Object("p", [arn |-> <<"arn", "/", "oidc", "/", "id">>])>>,
     !["VPC"] = <<Vpc("o1"), Vpc("o2")>>,
     !["Subnet"] = <<Subnet("private", "z1"), Object("public", [x \in {} |-> 0]),
                     Subnet("private", "z2")>>,
     !["AWSManagedMachinePool"] = <<Pool("a", "m5"), Pool("b", "m5"), Pool("a", "m6")>>,
     !["EKSConfig"] = <<Config("a"), Config("c")>>]

SmallWorld ==
  {Cluster1, Nothing,
   [Cluster1 EXCEPT !["EKSConfig"] = <<Object("a", [x \in {} |-> 0])>>,
                    !["Cluster"] = <<Labels("va6"), Labels("")>>]}

Tier(name, type) == [EmptyTier EXCEPT !.name = name, !.instanceType = type]

Data(tiers) == [EmptySpec EXCEPT !.tiers = tiers, !.accountId = "o0", !.region = "or2"]

Listed(kinds) == [i \in DOMAIN kinds |-> [kind |-> kinds[i], single |-> FALSE]]

SmallClusterSync ==
  {[initial |-> i, resources |-> r] :
     i \in {Nil, Data(NoTiers), Data(TierList(<<>>)),
           Data(TierList(<<Tier("a", ""), Tier("b", "c5")>>))},
     r \in {Listed(<<"AWSManagedMachinePool", "EKSConfig">>),
            Listed(<<"EKSConfig", "Subnet", "AWSManagedMachinePool">>),
            Listed(<<"Cluster", "VPC", "AWSManagedControlPlane">>),
            Listed(<<"VPC", "Subnet", "VPC">>),
            Listed(<<"VPC", "HelmRelease">>),
            <<[kind |-> "Subnet", single |-> TRUE]>>}}

=============================================================================
