----------------------------- MODULE SyncProcess ----------------------------
(***************************************************************************)
(* The process of the sync manager, from main to the data it sends: once   *)
(* it has started (module Startup) it reconciles ClusterSyncs.  A          *)
(* reconcile sets the buffer of the ResourceParser to the initial data,    *)
(* parses the watched resources in their order, reading from a Kubernetes  *)
(* cluster where a kind may not be installed or that may not answer, and   *)
(* sends what the buffer holds then.  One reconcile runs at a time here;   *)
(* SyncManager has those that share the buffer, their status and queue.    *)
(***************************************************************************)
EXTENDS Startup, ResourceHandlers

CONSTANTS
  ClusterSync,  \* ClusterSyncs: initial data (Nil: not JSON) and resources
  World         \* the objects that each kind can have in the cluster

VARIABLES
  sync,         \* the ClusterSync that is reconciled, or Nil
  objects,      \* the objects that the last reconcile finds, or Nil
  next,         \* the place of the resource that is parsed next
  buffer,       \* the buffer of the ResourceParser
  errors,       \* whether errList has an error
  unread,       \* history: the places of the resources whose list failed
  sent          \* history: the last reconcile, whether it failed, and the data
                \* that it sent if not, or Nil

reconcileVars == <<sync, objects, next, buffer, errors, unread, sent>>
allVars == <<startupVars, reconcileVars>>

\* Initial data is a ClusterSpec, tiers have their fields, and resources, tiers,
\* the objects of a kind and the taints of a pool or a tier are lists.
ASSUME SyncAssumption ==
  /\ \A cs \in ClusterSync :
       /\ cs.resources \in Seq([kind: STRING, single: BOOLEAN])
       /\ cs.initial # Nil =>
            /\ DOMAIN cs.initial = DOMAIN EmptySpec
            /\ cs.initial.tiers.set \in BOOLEAN
            /\ IsList(cs.initial.tiers.list)
            /\ \A i \in DOMAIN cs.initial.tiers.list :
                 /\ DOMAIN cs.initial.tiers.list[i] = DOMAIN EmptyTier
                 /\ IsList(cs.initial.tiers.list[i].taints)
  /\ \A world \in World :
       /\ \A kind \in Registered : IsList(world[kind])
       /\ \A i \in DOMAIN world["AWSManagedMachinePool"] :
            LET fields == world["AWSManagedMachinePool"][i].fields
            IN "taints" \in DOMAIN fields => IsList(fields["taints"])

Idle ==
  /\ sync = Nil
  /\ next = 1
  /\ buffer = EmptySpec
  /\ errors = FALSE
  /\ unread = {}

Init ==
  /\ StartupInit
  /\ Idle
  /\ objects = Nil
  /\ sent = Nil

-----------------------------------------------------------------------------
(* A reconcile.                                                            *)

Reconcile(cs, world) ==
  /\ stage = "running"
  /\ program = "sync"
  /\ sync = Nil
  /\ sync' = cs
  /\ objects' = world
  /\ next' = 1
  /\ buffer' = IF cs.initial = Nil THEN EmptySpec ELSE cs.initial
  /\ errors' = (cs.initial = Nil)
  /\ unread' = {}
  /\ sent' = Nil
  /\ UNCHANGED startupVars

\* A kind that is not installed, or a cluster that does not answer.
CannotRead(kind) == kind \notin installed \/ "kubernetes" \in down

\* The resource that is parsed now.
Parsing == sync # Nil /\ next <= Len(sync.resources)
Resource == sync.resources[next]

\* A resource without handler, an object that cannot be got, or one that lacks
\* a field: nothing is merged, and the next resource is parsed.
ParseError ==
  /\ Parsing
  /\ \/ Resource.kind \notin Registered
     \/ Resource.single /\ (CannotRead(Resource.kind) \/ objects[Resource.kind] = <<>>)
     \/ ~CannotRead(Resource.kind) /\ ~Complete(Resource.kind, objects[Resource.kind])
  /\ errors' = TRUE
  /\ next' = next + 1
  /\ UNCHANGED <<startupVars, sync, objects, buffer, unread, sent>>

\* Parse merges what the handler returns into the buffer.
Parse ==
  /\ Parsing
  /\ Resource.kind \in Registered
  /\ ~CannotRead(Resource.kind)
  /\ Resource.single => objects[Resource.kind] # <<>>
  /\ Complete(Resource.kind, objects[Resource.kind])
  /\ buffer' = Merge(buffer, Handle(Resource.kind, objects[Resource.kind]))
  /\ next' = next + 1
  /\ UNCHANGED <<startupVars, sync, objects, errors, unread, sent>>

\* A list that fails is logged, and parsed as a list of no objects.
ParseUnread ==
  /\ Parsing
  /\ Resource.kind \in Registered
  /\ ~Resource.single
  /\ CannotRead(Resource.kind)
  /\ buffer' = Merge(buffer, Handle(Resource.kind, <<>>))
  /\ unread' = unread \cup {next}
  /\ next' = next + 1
  /\ UNCHANGED <<startupVars, sync, objects, errors, sent>>

\* The end of the reconcile: the data is sent unless there was an error.
Finish ==
  /\ sync # Nil
  /\ next > Len(sync.resources)
  /\ sent' = [sync |-> sync, unread |-> unread, failed |-> errors, data |-> buffer]
  /\ sync' = Nil
  /\ next' = 1
  /\ buffer' = EmptySpec
  /\ errors' = FALSE
  /\ unread' = {}
  /\ UNCHANGED <<startupVars, objects>>

\* The process is stopped in the middle of a reconcile.
Stopped ==
  /\ Stop
  /\ sync' = Nil
  /\ next' = 1
  /\ buffer' = EmptySpec
  /\ errors' = FALSE
  /\ unread' = {}
  /\ sent' = Nil
  /\ objects' = Nil

StartupStep ==
  /\ Step \/ Restart \/ Recover
     \/ (\E s \in Service : Outage(s)) \/ (\E gvks \in Bundle : Install(gvks))
  /\ UNCHANGED reconcileVars

ReconcileStep ==
  \/ \E cs \in ClusterSync, world \in World : Reconcile(cs, world)
  \/ ParseError
  \/ Parse
  \/ ParseUnread
  \/ Finish

Next == StartupStep \/ Stopped \/ ReconcileStep

Fairness ==
  /\ WF_allVars(Step /\ UNCHANGED reconcileVars)
  /\ WF_allVars(Restart /\ UNCHANGED reconcileVars)

Spec == Init /\ [][Next]_allVars /\ Fairness

-----------------------------------------------------------------------------
(* What is sent.                                                           *)

\* Kinds of the resources at some places.
KindsAt(cs, places) == {cs.resources[i].kind : i \in places}

\* A reconcile that sends data has merged every resource it read, whatever was
\* listed before and after it, and nothing else.
ReadIsSent ==
  sent # Nil /\ ~sent.failed =>
    HasRead(sent.data, sent.sync.initial,
            KindsAt(sent.sync, DOMAIN sent.sync.resources \ sent.unread), objects)

\* Why a reconcile of cs may fail before the resource at a place: the initial
\* data, a handler, a single object, or a field that a handler reads is missing.
Incomplete(cs, place, world) ==
  \/ cs.initial = Nil
  \/ \E i \in 1 .. place - 1 :
       LET res == cs.resources[i]
       IN \/ res.kind \notin Registered
          \/ res.single
          \/ \E j \in DOMAIN Considered(res.kind, world[res.kind]) :
               ~getNested(Considered(res.kind, world[res.kind])[j], Paths[res.kind])

\* A reconcile sends nothing only if something is missing: public subnets and
\* lists that fail do not stop it.
FailsOnlyIfIncomplete ==
  sent # Nil /\ sent.failed =>
    Incomplete(sent.sync, Len(sent.sync.resources) + 1, objects)

\* When the initial data lists tiers, even none, the data that is sent has just
\* those, completed by what was read: pools and configurations of other tiers are
\* dropped.
TiersOfInitialData ==
  sent # Nil /\ ~sent.failed /\ sent.sync.initial.tiers.set =>
    HasTiers(sent.data.tiers.list, sent.sync.initial.tiers.list,
             KindsAt(sent.sync, DOMAIN sent.sync.resources \ sent.unread), objects)

\* What is merged for the resource at a place.
Patch(cs, place, missed, world) ==
  LET kind == cs.resources[place].kind
  IN Handle(kind, IF place \in missed THEN <<>> ELSE world[kind])

\* The initial data with the patches in some order of the resources.
Merged(cs, places, missed, world) ==
  LET merged[n \in 0 .. Len(places)] ==
        IF n = 0 THEN cs.initial ELSE Merge(merged[n - 1], Patch(cs, places[n], missed, world))
  IN merged[Len(places)]

\* Machine pools and EKS configurations complete each other's tiers, and the
\* order of the watched resources does not matter to what is sent, provided
\* that the initial data lists the tiers: every order has the same result.
OrderIrrelevant ==
  sent # Nil /\ ~sent.failed /\ sent.sync.initial.tiers.set =>
    \A places \in SetToSeqs(DOMAIN sent.sync.resources) :
      sent.data = Merged(sent.sync, places, sent.unread, objects)

=============================================================================
