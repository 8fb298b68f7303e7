-------------------------- MODULE ResourceHandlers --------------------------
(***************************************************************************)
(* What the sync manager reads from the resources of a cluster: the six    *)
(* handlers of pkg/sync/parser/handler, and the merge of what they return  *)
(* into a ClusterSpec (pkg/api/registry/v1/merge.go, with mergo).          *)
(*                                                                         *)
(* An object has a name, whether that name contains "private", and the     *)
(* values found under the paths its handler reads: a path with no value,   *)
(* or with one of another type, is not in the domain.  Texts that are cut  *)
(* or put together are sequences.                                          *)
(***************************************************************************)
EXTENDS Integers, SequencesExt, Ordered

\* A list of tiers that was never set, which is not the empty list.
NoTiers == [set |-> FALSE, list |-> <<>>]
TierList(list) == [set |-> TRUE, list |-> list]

\* The fields of ClusterSpec that handlers fill.
EmptySpec ==
  [shortName |-> "", region |-> "", cloudType |-> "", cloudProviderRegion |-> "",
   environment |-> "", oidcIssuer |-> <<>>, accountId |-> "",
   virtualNetworks |-> <<>>, availabilityZones |-> <<>>, tiers |-> NoTiers]

EmptyTier ==
  [name |-> "", instanceType |-> "", containerRuntime |-> "",
   minCapacity |-> 0, maxCapacity |-> 0, labels |-> <<>>, taints |-> <<>>]

-----------------------------------------------------------------------------
(* Handlers.  Each goes over the objects in order, returns an error at the *)
(* first field it does not find, and overwrites what it has or adds to it. *)

\* getNestedString and the others fail on a field that is missing.
getNested(obj, paths) == paths \subseteq DOMAIN obj.fields

\* The fields each handler reads.
Paths ==
  [Cluster |-> {"clusterShortName", "locationShortName", "provider", "location", "environment"},
   AWSManagedControlPlane |-> {"arn"},
   VPC |-> {"vpcID", "cidrBlocks", "ownerID"},
   Subnet |-> {"availabilityZone", "availabilityZoneID"},
   AWSManagedMachinePool |->
     {"name", "instanceType", "minSize", "maxSize", "labels", "taints"},
   EKSConfig |-> {"containerRuntime"}]

isPrivateSubnet(obj) == obj.private

\* The objects that a handler looks at: of the subnets, those that are private.
Considered(kind, objects) ==
  LET private == InOrder({i \in DOMAIN objects : isPrivateSubnet(objects[i])})
  IN IF kind = "Subnet" THEN [i \in DOMAIN private |-> objects[private[i]]]
                        ELSE objects

\* Mutant: an incomplete public subnet is an error too.
CompleteAny(kind, objects) ==
  \A i \in DOMAIN objects : getNested(objects[i], Paths[kind])

\* Whether a handler returns no error.
Complete(kind, objects) ==
  LET read == Considered(kind, objects)
  IN \A i \in DOMAIN read : getNested(read[i], Paths[kind])

HandleCluster(objects) ==
  IF objects = <<>> THEN EmptySpec
  ELSE LET labels == Last(objects).fields
       IN [EmptySpec EXCEPT !.shortName = labels["clusterShortName"],
                            !.region = labels["locationShortName"],
                            !.cloudType = labels["provider"],
                            !.cloudProviderRegion = labels["location"],
                            !.environment = labels["environment"]]

\* The text after the first "/", or nothing.
extractOIDCIssuerFromARN(arn) ==
  LET i == SelectInSeq(arn, LAMBDA t : t = "/")
  IN IF i = 0 THEN <<>> ELSE SubSeq(arn, i + 1, Len(arn))

HandleControlPlane(objects) ==
  IF objects = <<>> THEN EmptySpec
  ELSE [EmptySpec EXCEPT
          !.oidcIssuer = extractOIDCIssuerFromARN(Last(objects).fields["arn"])]

HandleVPC(objects) ==
  IF objects = <<>> THEN EmptySpec
  ELSE [EmptySpec EXCEPT
          !.accountId = Last(objects).fields["ownerID"],
          !.virtualNetworks =
            [i \in DOMAIN objects |-> [id |-> objects[i].fields["vpcID"],
                                       cidrs |-> objects[i].fields["cidrBlocks"]]]]

HandleSubnet(objects) ==
  LET private == Considered("Subnet", objects)
  IN [EmptySpec EXCEPT
        !.availabilityZones =
          [i \in DOMAIN private |-> [name |-> private[i].fields["availabilityZone"],
                                     id |-> private[i].fields["availabilityZoneID"]]]]

\* The place of the first tier of a name, or 0 (slices.IndexFunc).
FirstOf(tiers, name) == SelectInSeq(tiers, LAMBDA t : t.name = name)

\* The tiers with tier t in the place of the first one of its name, or last.
PutTier(tiers, t) ==
  LET i == FirstOf(tiers, t.name)
  IN IF i = 0 THEN Append(tiers, t) ELSE [tiers EXCEPT ![i] = t]

\* The list of tiers after a loop that puts one after the other.
PutTiers(tiers) ==
  LET put[n \in 0 .. Len(tiers)] ==
        IF n = 0 THEN <<>> ELSE PutTier(put[n - 1], tiers[n])
  IN IF tiers = <<>> THEN NoTiers ELSE TierList(put[Len(tiers)])

\* taint.ToString of Kubernetes.
TaintText(t) ==
  <<t.key>> \o (IF t.value = "" THEN <<>> ELSE <<"=", t.value>>)
            \o (IF t.effect = "" THEN <<>> ELSE <<":", t.effect>>)

getTaintsAsStringSlice(taints) == [i \in DOMAIN taints |-> TaintText(taints[i])]

HandleMachinePool(objects) ==
  LET tier(obj) ==
        [EmptyTier EXCEPT !.name = obj.fields["name"],
                          !.instanceType = obj.fields["instanceType"],
                          !.minCapacity = obj.fields["minSize"],
                          !.maxCapacity = obj.fields["maxSize"],
                          !.labels = obj.fields["labels"],
                          !.taints = getTaintsAsStringSlice(obj.fields["taints"])]
  IN [EmptySpec EXCEPT !.tiers = PutTiers([i \in DOMAIN objects |-> tier(objects[i])])]

\* The tier's name is that of the object.
HandleEKSConfig(objects) ==
  LET tier(obj) ==
        [EmptyTier EXCEPT !.name = obj.name,
                          !.containerRuntime = obj.fields["containerRuntime"]]
  IN [EmptySpec EXCEPT !.tiers = PutTiers([i \in DOMAIN objects |-> tier(objects[i])])]

\* The handlers that main registers.
Registered ==
  {"Cluster", "VPC", "Subnet", "AWSManagedControlPlane", "AWSManagedMachinePool", "EKSConfig"}

Handle(kind, objs) ==
  CASE kind = "Cluster" -> HandleCluster(objs)
    [] kind = "VPC" -> HandleVPC(objs)
    [] kind = "Subnet" -> HandleSubnet(objs)
    [] kind = "AWSManagedControlPlane" -> HandleControlPlane(objs)
    [] kind = "AWSManagedMachinePool" -> HandleMachinePool(objs)
    [] kind = "EKSConfig" -> HandleEKSConfig(objs)

-----------------------------------------------------------------------------
(* The merge.                                                              *)

\* Keys of both, where the first one has the last word.
MergeLabels(dst, src) ==
  [k \in DOMAIN dst \cup DOMAIN src |-> IF k \in DOMAIN dst THEN dst[k] ELSE src[k]]

\* Mutant: the runtime of the source, which it may not know.
MergeTierRuntime(dst, src) ==
  [dst EXCEPT !.instanceType = IF @ = "" THEN src.instanceType ELSE @,
              !.containerRuntime = src.containerRuntime,
              !.minCapacity = IF @ = 0 THEN src.minCapacity ELSE @,
              !.maxCapacity = IF @ = 0 THEN src.maxCapacity ELSE @,
              !.labels = MergeLabels(@, src.labels),
              !.taints = @ \o src.taints]

\* mergo without override, appending slices: what is there stays.
MergeTier(dst, src) ==
  [dst EXCEPT !.instanceType = IF @ = "" THEN src.instanceType ELSE @,
              !.containerRuntime = IF @ = "" THEN src.containerRuntime ELSE @,
              !.minCapacity = IF @ = 0 THEN src.minCapacity ELSE @,
              !.maxCapacity = IF @ = 0 THEN src.maxCapacity ELSE @,
              !.labels = MergeLabels(@, src.labels),
              !.taints = @ \o src.taints]

\* Mutant: a tier that is not there yet is added.
MergeOrAddTier(tiers, s) ==
  LET i == FirstOf(tiers, s.name)
  IN IF i = 0 THEN Append(tiers, s) ELSE [tiers EXCEPT ![i] = MergeTier(@, s)]

\* A tier of the source goes into the first tier of its name; one that the
\* destination does not have is dropped.
MergeOneTier(tiers, s) ==
  LET i == FirstOf(tiers, s.name)
  IN IF i = 0 THEN tiers ELSE [tiers EXCEPT ![i] = MergeTier(@, s)]

mergeTiers(dst, src) ==
  LET merged[n \in 0 .. Len(src)] ==
        IF n = 0 THEN dst ELSE MergeOneTier(merged[n - 1], src[n])
  IN merged[Len(src)]

MergeTierLists(dst, src) ==
  IF dst.set THEN TierList(mergeTiers(dst.list, src.list)) ELSE src

\* Mutant: mergo without override.
MergeIfEmpty(dst, src) ==
  [f \in DOMAIN dst |->
     IF f = "tiers" THEN MergeTierLists(dst.tiers, src.tiers)
     ELSE IF dst[f] = EmptySpec[f] THEN src[f] ELSE dst[f]]

\* mergo with override: what the source has replaces what is there, except for
\* tiers, which the transformer merges unless there is no list of them yet.
Merge(dst, src) ==
  [f \in DOMAIN dst |->
     IF f = "tiers" THEN MergeTierLists(dst.tiers, src.tiers)
     ELSE IF src[f] = EmptySpec[f] THEN dst[f] ELSE src[f]]

-----------------------------------------------------------------------------
(* What is read is there after the merges.                                 *)

\* A list: its places are 1, 2 and so on.
IsList(s) == s \in Seq({s[i] : i \in DOMAIN s})

\* The value that the last object has under a path, if it has one.
LastOf(objs, path, otherwise) ==
  IF objs = <<>> THEN otherwise
  ELSE IF Last(objs).fields[path] = "" THEN otherwise ELSE Last(objs).fields[path]

\* The label of a cluster that fills each field.
LabelOf ==
  [shortName |-> "clusterShortName", region |-> "locationShortName",
   cloudType |-> "provider", cloudProviderRegion |-> "location",
   environment |-> "environment"]

\* What data has of what was read: the fields of the labels, the issuer and the
\* account are those of the last cluster, control plane and VPC, each VPC is a
\* network and each private subnet an availability zone, and what was not read
\* keeps its initial value.
HasRead(data, initial, kinds, world) ==
  LET read(kind) == IF kind \in kinds THEN world[kind] ELSE <<>>
      subnets == Considered("Subnet", read("Subnet"))
      planes == read("AWSManagedControlPlane")
      issuer == extractOIDCIssuerFromARN(Last(planes).fields["arn"])
  IN /\ \A f \in DOMAIN LabelOf :
          data[f] = LastOf(read("Cluster"), LabelOf[f], initial[f])
     /\ data.oidcIssuer = IF planes = <<>> \/ issuer = <<>> THEN initial.oidcIssuer ELSE issuer
     /\ data.accountId = LastOf(read("VPC"), "ownerID", initial.accountId)
     /\ data.virtualNetworks =
          IF read("VPC") = <<>> THEN initial.virtualNetworks
          ELSE [i \in DOMAIN read("VPC") |-> [id |-> read("VPC")[i].fields["vpcID"],
                                              cidrs |-> read("VPC")[i].fields["cidrBlocks"]]]
     /\ data.availabilityZones =
          IF DOMAIN subnets = {} THEN initial.availabilityZones
          ELSE [i \in DOMAIN subnets |-> [name |-> subnets[i].fields["availabilityZone"],
                                          id |-> subnets[i].fields["availabilityZoneID"]]]

\* A field of a tier: what the initial data gives, or else what the last of the
\* objects at some places has under a path.
Completed(given, nothing, objs, places, path) ==
  IF given # nothing \/ places = {} THEN given ELSE objs[Max(places)].fields[path]

\* What tiers have of what was read: each initial tier is there, in its place,
\* and the first one of a name has what its last pool and configuration add.
HasTiers(tiers, initial, kinds, world) ==
  LET pools == world["AWSManagedMachinePool"]
      configs == world["EKSConfig"]
      first(i) == \A j \in 1 .. i - 1 : initial[j].name # initial[i].name
      poolsOf(i) == {k \in DOMAIN pools : /\ "AWSManagedMachinePool" \in kinds /\ first(i)
                                          /\ pools[k].fields["name"] = initial[i].name}
      configsOf(i) == {k \in DOMAIN configs : /\ "EKSConfig" \in kinds /\ first(i)
                                              /\ configs[k].name = initial[i].name}
  IN /\ DOMAIN tiers = DOMAIN initial
     /\ \A i \in DOMAIN initial :
          /\ tiers[i].name = initial[i].name
          /\ tiers[i].instanceType =
               Completed(initial[i].instanceType, "", pools, poolsOf(i), "instanceType")
          /\ tiers[i].minCapacity =
               Completed(initial[i].minCapacity, 0, pools, poolsOf(i), "minSize")
          /\ tiers[i].maxCapacity =
               Completed(initial[i].maxCapacity, 0, pools, poolsOf(i), "maxSize")
          /\ tiers[i].containerRuntime =
               Completed(initial[i].containerRuntime, "", configs, configsOf(i), "containerRuntime")

=============================================================================
