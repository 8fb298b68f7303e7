----------------------------- MODULE SyncManager ----------------------------
(***************************************************************************)
(* The sync manager: SyncController (pkg/sync/manager/controller.go)       *)
(* reconciles ClusterSync objects with one ResourceParser                  *)
(* (pkg/sync/parser/parser.go), which all its reconciles share.            *)
(*                                                                         *)
(* A reconcile fills the parser's buffer with the initial data of its      *)
(* ClusterSync, merges into it what the handlers extract from each watched *)
(* resource, and sends the result unless its hash is the one in the        *)
(* ClusterSync's status.  The controller runs reconciles of different      *)
(* ClusterSyncs at the same time.  Nothing guards the buffer: its fields   *)
(* are written and read one by one.                                        *)
(***************************************************************************)
EXTENDS Integers, FiniteSets

CONSTANTS
  Sync,                     \* ClusterSync objects
  N,                        \* number of resources each of them watches
  Version,                  \* contents of a watched resource or InitialData,
                            \*   in the order they are created in
  MaxConcurrentReconciles,  \* option of the controller
  Nil,
  MaxChanges                \* bound: changes of objects by others

\* Field 0 of the buffer is what InitialData sets, field k what the handler of
\* the k-th watched resource sets.
Field == 0 .. N

\* The content of a field: whose object it comes from, and its version.
Entry == [sync: Sync, version: Version]

Data == [Field -> Entry \cup {Nil}]

\* A ClusterSync: its InitialData, the data whose hash the status has
\* (SyncedData is always stored with its hash), and whether LastSyncStatus is
\* "fail".
Instance == [initial: Version, hash: Data \cup {Nil}, failed: BOOLEAN]

ASSUME SyncAssumption ==
  /\ N \in Nat
  /\ Version \subseteq Nat
  /\ 0 \in Version
  /\ MaxConcurrentReconciles \in Nat
  /\ Nil \notin Entry
  /\ Nil \notin Data

VARIABLES
  objects,    \* objects[s][k]: the k-th resource that s watches
  server,     \* server[s]: ClusterSync s in the API server
  cached,     \* cached[s]: ClusterSync s in the manager's informer cache
  cacheNow,   \* cacheNow[s]: that copy has the current resourceVersion
  changes,    \* changes made by others so far
  requests,   \* the controller's work queue
  pc,         \* pc[s]: what the reconcile of s does next
  step,       \* step[s]: the field that the loop of the reconcile is at
  instance,   \* instance[s]: the ClusterSync that the reconcile works on
  now,        \* now[s]: instance[s] has the current resourceVersion
  patch,      \* patch[s]: what the handler extracted
  errs,       \* errs[s]: errList is not empty
  data,       \* data[s]: syncedData, as far as Diff has read it
  buffer,     \* ResourceParser.buffer
  last        \* last[s]: the last data that SQS accepted from s

apiVars == <<objects, server, cached, cacheNow, changes>>
localVars == <<pc, step, instance, now, patch, errs, data>>
vars == <<apiVars, requests, localVars, buffer, last>>

NoData == [f \in Field |-> Nil]

PC == {"idle", "set", "parse", "merge", "diff", "enqueue", "status"}

SyncTypeOK ==
  /\ objects \in [Sync -> [1 .. N -> Version]]
  /\ server \in [Sync -> Instance]
  /\ cached \in [Sync -> Instance]
  /\ cacheNow \in [Sync -> BOOLEAN]
  /\ changes \in Nat
  /\ requests \subseteq Sync
  /\ pc \in [Sync -> PC]
  /\ step \in [Sync -> 0 .. N + 1]
  /\ instance \in [Sync -> Instance \cup {Nil}]
  /\ now \in [Sync -> BOOLEAN]
  /\ patch \in [Sync -> Entry \cup {Nil}]
  /\ errs \in [Sync -> BOOLEAN]
  /\ data \in [Sync -> Data]
  /\ buffer \in Data
  /\ last \in [Sync -> Data \cup {Nil}]

\* The manager starts with ClusterSyncs that were never synced.
Init ==
  /\ objects = [s \in Sync |-> [k \in 1 .. N |-> 0]]
  /\ server = [s \in Sync |-> [initial |-> 0, hash |-> Nil, failed |-> FALSE]]
  /\ cached = server
  /\ cacheNow = [s \in Sync |-> TRUE]
  /\ changes = 0
  /\ requests = Sync
  /\ pc = [s \in Sync |-> "idle"]
  /\ step = [s \in Sync |-> 0]
  /\ instance = [s \in Sync |-> Nil]
  /\ now = [s \in Sync |-> FALSE]
  /\ patch = [s \in Sync |-> Nil]
  /\ errs = [s \in Sync |-> FALSE]
  /\ data = [s \in Sync |-> NoData]
  /\ buffer = NoData
  /\ last = [s \in Sync |-> Nil]

-----------------------------------------------------------------------------
(* Kubernetes: the objects and what the controller is told of them.        *)

\* Someone changes a watched resource.
Change(s, k, v) ==
  /\ changes < MaxChanges
  /\ v # objects[s][k]
  /\ objects' = [objects EXCEPT ![s][k] = v]
  /\ changes' = changes + 1
  /\ UNCHANGED <<server, cached, cacheNow, requests, localVars, buffer, last>>

\* Someone changes the InitialData of a ClusterSync.
Edit(s, v) ==
  /\ changes < MaxChanges
  /\ v # server[s].initial
  /\ server' = [server EXCEPT ![s].initial = v]
  /\ cacheNow' = [cacheNow EXCEPT ![s] = FALSE]
  /\ now' = [now EXCEPT ![s] = FALSE]
  /\ changes' = changes + 1
  /\ UNCHANGED <<objects, cached, requests, pc, step, instance, patch, errs, data,
                 buffer, last>>

\* An event of a watched resource, of a change or of the periodic resync, is
\* mapped to the ClusterSync that watches it.
Notify(s) ==
  /\ s \notin requests
  /\ requests' = requests \cup {s}
  /\ UNCHANGED <<apiVars, localVars, buffer, last>>

\* hasDifferentHash of a stored ClusterSync: its hash is missing, or else it
\* is that of the SyncedData stored with it.
EventFilter(old, new) == new.hash = Nil \/ new.initial # old.initial

\* The informer sees the current ClusterSync, and passes the event on if the
\* filter lets it.
Observe(s) ==
  /\ ~cacheNow[s]
  /\ cached' = [cached EXCEPT ![s] = server[s]]
  /\ cacheNow' = [cacheNow EXCEPT ![s] = TRUE]
  /\ requests' = IF EventFilter(cached[s], server[s])
                 THEN requests \cup {s} ELSE requests
  /\ UNCHANGED <<objects, server, changes, localVars, buffer, last>>

-----------------------------------------------------------------------------
(* Reconcile.                                                              *)

Active == {s \in Sync : pc[s] # "idle"}

\* The controller never runs two reconciles of one ClusterSync at once.  A Get
\* that fails is retried.  InitialData that is no YAML counts as an error, and
\* what could be read of it is used.
Start(s) ==
  /\ s \in requests
  /\ pc[s] = "idle"
  /\ Cardinality(Active) < MaxConcurrentReconciles
  /\ requests' = requests \ {s}
  /\ pc' = [pc EXCEPT ![s] = "set"]
  /\ instance' = [instance EXCEPT ![s] = cached[s]]
  /\ now' = [now EXCEPT ![s] = cacheNow[s]]
  /\ \E invalid \in BOOLEAN : errs' = [errs EXCEPT ![s] = invalid]
  /\ UNCHANGED <<apiVars, step, patch, data, buffer, last>>

\* Reconcile returns.
Return(s) ==
  /\ pc' = [pc EXCEPT ![s] = "idle"]
  /\ step' = [step EXCEPT ![s] = 0]
  /\ instance' = [instance EXCEPT ![s] = Nil]
  /\ now' = [now EXCEPT ![s] = FALSE]
  /\ patch' = [patch EXCEPT ![s] = Nil]
  /\ errs' = [errs EXCEPT ![s] = FALSE]
  /\ data' = [data EXCEPT ![s] = NoData]

\* Mutant: the buffer is not replaced, only what InitialData has is set.
SetInitialData(s) ==
  /\ pc[s] = "set"
  /\ buffer' = [buffer EXCEPT ![0] = [sync |-> s, version |-> instance[s].initial]]
  /\ step' = [step EXCEPT ![s] = 1]
  /\ pc' = [pc EXCEPT ![s] = "parse"]
  /\ UNCHANGED <<apiVars, requests, instance, now, patch, errs, data, last>>

\* SetBuffer, the next field.
SetBuffer(s) ==
  /\ pc[s] = "set"
  /\ buffer' = [buffer EXCEPT ![step[s]] =
                  IF step[s] = 0 THEN [sync |-> s, version |-> instance[s].initial]
                                 ELSE Nil]
  /\ IF step[s] < N
     THEN step' = [step EXCEPT ![s] = step[s] + 1] /\ pc' = pc
     ELSE step' = [step EXCEPT ![s] = 1] /\ pc' = [pc EXCEPT ![s] = "parse"]
  /\ UNCHANGED <<apiVars, requests, instance, now, patch, errs, data, last>>

\* Parse of the next resource: its objects are fetched and handled.  When List
\* fails, the error is logged and the patch is the one of no objects.
Parse(s) ==
  /\ pc[s] = "parse"
  /\ step[s] <= N
  /\ \E e \in {[sync |-> s, version |-> objects[s][step[s]]], Nil} :
       patch' = [patch EXCEPT ![s] = e]
  /\ pc' = [pc EXCEPT ![s] = "merge"]
  /\ UNCHANGED <<apiVars, requests, step, instance, now, errs, data, buffer, last>>

\* No handler for the resource, Get failed, or the handler did: the error is
\* noted and the next resource parsed.
ParseError(s) ==
  /\ pc[s] = "parse"
  /\ step[s] <= N
  /\ errs' = [errs EXCEPT ![s] = TRUE]
  /\ step' = [step EXCEPT ![s] = step[s] + 1]
  /\ UNCHANGED <<apiVars, requests, pc, instance, now, patch, data, buffer, last>>

\* The end of Parse: what the patch has replaces what the buffer has.
Merge(s) ==
  /\ pc[s] = "merge"
  /\ buffer' = IF patch[s] = Nil THEN buffer
                                 ELSE [buffer EXCEPT ![step[s]] = patch[s]]
  /\ patch' = [patch EXCEPT ![s] = Nil]
  /\ step' = [step EXCEPT ![s] = step[s] + 1]
  /\ pc' = [pc EXCEPT ![s] = "parse"]
  /\ UNCHANGED <<apiVars, requests, instance, now, errs, data, last>>

\* All resources are parsed.  With errors the status says so, and nothing is
\* sent.
EndParse(s) ==
  /\ pc[s] = "parse"
  /\ step[s] = N + 1
  /\ IF errs[s]
     THEN /\ instance' = [instance EXCEPT ![s].failed = TRUE]
          /\ pc' = [pc EXCEPT ![s] = "status"]
     ELSE /\ instance' = [instance EXCEPT ![s].failed = FALSE]
          /\ pc' = [pc EXCEPT ![s] = "diff"]
  /\ step' = [step EXCEPT ![s] = 0]
  /\ UNCHANGED <<apiVars, requests, now, patch, errs, data, buffer, last>>

\* Mutant: data is sent only for a status without a hash.
FirstDataOnly(s) == instance[s].hash = Nil

\* isLastSyncSuccessful and hasDifferentHash.
ShouldEnqueueData(s) == ~instance[s].failed /\ instance[s].hash # data[s]

\* Diff reads the next field; a ClusterSpec can always be marshalled.  If there
\* is nothing to send, Reconcile returns and the status stays as it was.
Diff(s) ==
  /\ pc[s] = "diff"
  /\ IF step[s] <= N
     THEN /\ data' = [data EXCEPT ![s][step[s]] = buffer[step[s]]]
          /\ step' = [step EXCEPT ![s] = step[s] + 1]
          /\ UNCHANGED <<pc, instance, now, patch, errs>>
     ELSE IF ShouldEnqueueData(s)
          THEN /\ pc' = [pc EXCEPT ![s] = "enqueue"]
               /\ UNCHANGED <<step, instance, now, patch, errs, data>>
          ELSE Return(s)
  /\ UNCHANGED <<apiVars, requests, buffer, last>>

\* Mutant: the hash is that of another object than the data.
HashOther(s) ==
  /\ instance' = [instance EXCEPT ![s].hash = s]
  /\ pc' = [pc EXCEPT ![s] = "status"]
  /\ UNCHANGED <<apiVars, requests, step, now, patch, errs, data, buffer>>

\* The status gets the hash of the data, whatever becomes of the message.
StoreHash(s) ==
  /\ instance' = [instance EXCEPT ![s].hash = data[s]]
  /\ pc' = [pc EXCEPT ![s] = "status"]
  /\ UNCHANGED <<apiVars, requests, step, now, patch, errs, data, buffer>>

\* SQS accepts the message, and Enqueue says so or not.
Enqueue(s) ==
  /\ pc[s] = "enqueue"
  /\ StoreHash(s)
  /\ last' = [last EXCEPT ![s] = data[s]]

\* SQS did not accept it: Enqueue failed, or the message is among those it
\* refused, for which there is no error.
EnqueueError(s) ==
  /\ pc[s] = "enqueue"
  /\ StoreHash(s)
  /\ UNCHANGED last

\* The status is stored in the version of the ClusterSync that Get returned.
StoreStatus(s) ==
  /\ now[s]
  /\ server' = [server EXCEPT ![s] = instance[s]]
  /\ cacheNow' = [cacheNow EXCEPT ![s] = FALSE]

UpdateStatus(s) ==
  /\ pc[s] = "status"
  /\ StoreStatus(s)
  /\ Return(s)
  /\ UNCHANGED <<objects, cached, changes, requests, buffer, last>>

\* A conflict, or another error, with or without effect: try again later.
UpdateStatusError(s) ==
  /\ pc[s] = "status"
  /\ StoreStatus(s) \/ UNCHANGED <<server, cacheNow>>
  /\ Return(s)
  /\ requests' = requests \cup {s}
  /\ UNCHANGED <<objects, cached, changes, buffer, last>>

\* The manager dies and starts again: its informers list every object, and the
\* creation of a watched one is an event that no filter stops.
Restart ==
  /\ pc' = [s \in Sync |-> "idle"]
  /\ step' = [s \in Sync |-> 0]
  /\ instance' = [s \in Sync |-> Nil]
  /\ now' = [s \in Sync |-> FALSE]
  /\ patch' = [s \in Sync |-> Nil]
  /\ errs' = [s \in Sync |-> FALSE]
  /\ data' = [s \in Sync |-> NoData]
  /\ buffer' = NoData
  /\ cached' = server
  /\ cacheNow' = [s \in Sync |-> TRUE]
  /\ requests' = Sync
  /\ UNCHANGED <<objects, server, changes, last>>

Reconcile(s) ==
  \/ SetBuffer(s)
  \/ Parse(s)
  \/ ParseError(s)
  \/ Merge(s)
  \/ EndParse(s)
  \/ Diff(s)
  \/ Enqueue(s)
  \/ EnqueueError(s)
  \/ UpdateStatus(s)
  \/ UpdateStatusError(s)

Kubernetes(s) ==
  \/ \E k \in 1 .. N, v \in Version : Change(s, k, v)
  \/ \E v \in Version : Edit(s, v)
  \/ Notify(s)
  \/ Observe(s)

Next == Restart \/ \E s \in Sync : Kubernetes(s) \/ Start(s) \/ Reconcile(s)

Spec == Init /\ [][Next]_vars

-----------------------------------------------------------------------------
(* Whose data is sent.                                                     *)

\* Data of s alone: its InitialData, and nothing of another ClusterSync.
OwnData(s, d) ==
  /\ d[0] # Nil
  /\ \A f \in Field : d[f] # Nil => d[f].sync = s

\* event.go: a partial cluster update "refers to an update of the ClusterSync
\* object".  What Reconcile sends for a ClusterSync, past failed parses and
\* lists, restarts and reconciles of others before it, is its own data.
Isolated == \A s \in Sync : last[s] # Nil => OwnData(s, last[s])

\* s uses the buffer of the parser, from SetBuffer to the end of Diff.
Window(s) == pc[s] \in {"set", "parse", "merge", "diff"}

NoOverlap == \A s1, s2 \in Sync : Window(s1) /\ Window(s2) => s1 = s2

\* The manager when no two reconciles use the buffer at the same time.
CalmSpec == Init /\ [][Next /\ NoOverlap']_vars

-----------------------------------------------------------------------------
(* Progress.                                                               *)

CurrentData(s) ==
  [f \in Field |-> [sync |-> s,
                    version |-> IF f = 0 THEN server[s].initial ELSE objects[s][f]]]

\* List failed.
ListError(s) == pc[s] = "parse" /\ pc'[s] = "merge" /\ patch'[s] = Nil

\* No object goes back to a content that it had before.
NeverBack ==
  \A s \in Sync :
    /\ server'[s].initial >= server[s].initial
    /\ \A k \in 1 .. N : objects'[s][k] >= objects[s][k]

SteadyNext ==
  /\ Next
  /\ NoOverlap'
  /\ NeverBack
  /\ \A s \in Sync : ~ListError(s)

\* Goroutines run, informers catch up, and the periodic resync tells the
\* controller of every watched object again and again.
Fairness ==
  \A s \in Sync :
    WF_vars(Start(s)) /\ WF_vars(Reconcile(s)) /\ WF_vars(Notify(s)) /\ WF_vars(Observe(s))

\* SQS accepts the message, if one is sent.
Accepted(s) == ~EnqueueError(s) \/ Enqueue(s)

\* With a queue that accepts every message.
ReliableSpec ==
  Init /\ [][SteadyNext /\ \A s \in Sync : Accepted(s)]_vars /\ Fairness

\* A step with neither a restart nor an error but a conflict.
CleanStep ==
  /\ ~Restart
  /\ \A s \in Sync :
       /\ errs'[s] => errs[s]
       /\ now[s] => ~UpdateStatusError(s) \/ UpdateStatus(s)
       /\ Accepted(s)

ErrorsStop == <>[][CleanStep]_vars

InSync == \A s \in Sync : last[s] = CurrentData(s)

\* Once changes and errors stop, the last data sent for each ClusterSync is,
\* and stays, that of its objects, whatever stale copies of it, conflicts,
\* failed parses and restarts its reconciles met.
SyncConverges == ErrorsStop => <>[]InSync

=============================================================================
