------------------------------- MODULE Client -------------------------------
(***************************************************************************)
(* The cluster-registry-client of one Kubernetes cluster: what it does to  *)
(* the Cluster objects of its namespace and which messages it sends.       *)
(*                                                                         *)
(* Three parts of it write these objects at the same time, and so do users *)
(* and the PATCH route of the apiserver: ClusterReconciler (pkg/client/    *)
(* controllers/cluster_controller.go) sets the CA and sends the object to  *)
(* SQS; the Alertmanager webhook (pkg/client/webhook) sets tags; and       *)
(* ServiceMetadataWatcherReconciler copies fields of other objects into    *)
(* Spec.ServiceMetadata.  The first two replace the object they read from  *)
(* the informer cache, the last one sends merge patches.                   *)
(***************************************************************************)
EXTENDS Integers, Sequences

CONSTANTS
  Cluster,      \* names of Cluster objects
  Tag,          \* keys of Spec.Tags
  Value,        \* values of tags and of metadata fields
  AlertName,    \* names of alerts
  DeadMansSwitch, \* the name of the alert that always fires
  AlertMap,     \* the configured AlertRules, in their order
  Request,      \* webhook requests that can be served at once
  Watcher,      \* ServiceMetadataWatcher objects
  Field,        \* destinations in Spec.ServiceMetadata
  Owner,        \* Owner[f]: the watcher that has f as a destination
  Allowed,      \* watchers all of whose objects have a watched GVK, and fields
  HasCAData,    \* ClusterReconciler.CAData is not empty
  Annotations,  \* what users set in the annotations of a Cluster
  Nil,
  MaxChanges    \* bound: changes by others, and alerts

\* A map of tags: Nil for a key that it does not have.
Tags == [Tag -> Value \cup {Nil}]

Rule == [alertName: AlertName, onFiring: Tags, onResolved: Tags]

Alert == [name: AlertName, status: {"firing", "resolved", "other"}]

\* The annotations that the client reads: skip-ca-cert, excluded-tags and
\* skip-cache-invalidation.
Annotation == [skipCA: BOOLEAN, excluded: SUBSET Tag, quiet: BOOLEAN]

\* What hashCluster covers of an object.
Content ==
  [ca: BOOLEAN, tags: Tags, services: [Field -> Value \cup {Nil}],
   skipCA: BOOLEAN, excluded: SUBSET Tag]

\* A Cluster object: its resourceVersion, the content, and the two annotations
\* that the hash leaves out.
Object ==
  [rev: Nat, content: Content, quiet: BOOLEAN, hash: Content \cup {Nil}]

\* A message: the object in its body and the SkipCacheInvalidation attribute.
Message == [rev: Nat, content: Content, quiet: BOOLEAN]

ASSUME ClientAssumption ==
  /\ AlertMap \in Seq(Rule)
  /\ Owner \in [Field -> Watcher]
  /\ Allowed \subseteq Watcher
  /\ HasCAData \in BOOLEAN
  /\ Annotations \subseteq Annotation
  /\ MaxChanges \in Nat
  /\ Nil \notin Value \cup Cluster \cup Content \cup Object \cup Message \cup Tags
  /\ Nil \notin [Field -> Value \cup {Nil}]

VARIABLES
  obj,        \* obj[c]: the object in the API server
  rev,        \* the last resourceVersion that was given to an object
  cache,      \* cache[c]: the object in the client's informer cache
  src,        \* src[f]: the value that the watched field has
  changes,    \* changes and alerts so far
  requests,   \* work queue of ClusterReconciler
  pc,         \* what its worker does next
  name,       \* the object the worker reconciles
  instance,   \* the copy it works on
  last,       \* last[c]: the last message of c that SQS stored
  hpc,        \* hpc[r]: what webhook request r does next
  tag,        \* tag[r]: the tags it sets
  attempts,   \* attempts[r]: calls of updateClusterTags still allowed
  items,      \* items[r]: copies of the objects it still has to update
  watchers,   \* work queue of ServiceMetadataWatcherReconciler
  patches,    \* patches[w]: values found by the reconcile of w, or Nil
  pending,    \* pending[w]: patches it still has to apply
  intended    \* history: intended[c] has the change of every write to c

apiVars == <<obj, rev, intended>>
reconcilerVars == <<requests, pc, name, instance, last>>
webhookVars == <<hpc, tag, attempts, items>>
watcherVars == <<watchers, patches, pending>>
vars == <<apiVars, cache, src, changes, reconcilerVars, webhookVars, watcherVars>>

NoItems == [c \in Cluster |-> Nil]

ClientTypeOK ==
  /\ obj \in [Cluster -> Object \cup {Nil}]
  /\ rev \in Nat
  /\ cache \in [Cluster -> Object \cup {Nil}]
  /\ src \in [Field -> Value \cup {Nil}]
  /\ changes \in Nat
  /\ requests \subseteq Cluster
  /\ pc \in {"idle", "update", "enqueue"}
  /\ name \in Cluster \cup {Nil}
  /\ instance \in Object \cup {Nil}
  /\ last \in [Cluster -> Message \cup {Nil}]
  /\ hpc \in [Request -> {"idle", "list", "update"}]
  /\ tag \in [Request -> Tags \cup {Nil}]
  /\ attempts \in [Request -> 0 .. 3]
  /\ items \in [Request -> [Cluster -> Object \cup {Nil}]]
  /\ watchers \subseteq Watcher
  /\ patches \in [Watcher -> [Field -> Value \cup {Nil}] \cup {Nil}]
  /\ pending \in [Watcher -> SUBSET (Cluster \X Field)]
  /\ intended \in [Cluster -> Content \cup {Nil}]

\* The client starts in a cluster without Cluster objects.
Init ==
  /\ obj = NoItems
  /\ rev = 0
  /\ cache = NoItems
  /\ src = [f \in Field |-> Nil]
  /\ changes = 0
  /\ requests = {}
  /\ pc = "idle"
  /\ name = Nil
  /\ instance = Nil
  /\ last = NoItems
  /\ hpc = [r \in Request |-> "idle"]
  /\ tag = [r \in Request |-> Nil]
  /\ attempts = [r \in Request |-> 0]
  /\ items = [r \in Request |-> NoItems]
  /\ watchers = {}
  /\ patches = [w \in Watcher |-> Nil]
  /\ pending = [w \in Watcher |-> {}]
  /\ intended = NoItems

-----------------------------------------------------------------------------
(* The changes that writers make to the content of an object.              *)

WithCA(x) == [x EXCEPT !.ca = TRUE]

\* Mutant: the excluded-tags annotation is not read.
WithAllTags(x, t) ==
  [x EXCEPT !.tags = [k \in Tag |-> IF t[k] # Nil THEN t[k] ELSE x.tags[k]]]

\* The loop of updateClusterTags over the tags of an alert skips the keys in
\* the excluded-tags annotation.
WithTags(x, t) ==
  [x EXCEPT !.tags = [k \in Tag |->
     IF t[k] # Nil /\ k \notin x.excluded THEN t[k] ELSE x.tags[k]]]

WithTag(x, k, v) == [x EXCEPT !.tags = [x.tags EXCEPT ![k] = v]]

WithService(x, f, v) == [x EXCEPT !.services = [x.services EXCEPT ![f] = v]]

WithAnnotation(x, a) == [x EXCEPT !.skipCA = a.skipCA, !.excluded = a.excluded]

-----------------------------------------------------------------------------
(* The Kubernetes API server, and who else writes Cluster objects.         *)

\* An object is stored with a new resourceVersion, unless nothing changed.
Store(c, o) ==
  IF obj[c] # Nil /\ [o EXCEPT !.rev = obj[c].rev] = obj[c]
  THEN UNCHANGED <<obj, rev>>
  ELSE /\ rev' = rev + 1
       /\ obj' = [obj EXCEPT ![c] = [o EXCEPT !.rev = rev + 1]]

\* Mutant: objects are sent without the resourceVersion they were read with.
CurrentAny(c, o) == obj[c] # Nil

\* Update replaces an object if the new one was made from its current version.
Current(c, o) == obj[c] # Nil /\ obj[c].rev = o.rev

\* A merge patch applies to whatever version the object has.
Patch(c, content) ==
  /\ obj[c] # Nil
  /\ Store(c, [obj[c] EXCEPT !.content = content])

\* Others change things at most MaxChanges times.
Change == changes < MaxChanges /\ changes' = changes + 1

\* A user creates a Cluster object, or changes the annotations of one.
Apply(c, a) ==
  LET content == IF obj[c] # Nil THEN obj[c].content
                 ELSE [ca |-> FALSE, tags |-> [k \in Tag |-> Nil],
                       services |-> [f \in Field |-> Nil],
                       skipCA |-> FALSE, excluded |-> {}]
  IN
  /\ Change
  /\ Store(c, [rev |-> 0, content |-> WithAnnotation(content, a),
               quiet |-> a.quiet, hash |-> Nil])
  /\ intended' = [intended EXCEPT ![c] =
       WithAnnotation(IF obj[c] # Nil THEN intended[c] ELSE content, a)]
  /\ UNCHANGED <<cache, src, reconcilerVars, webhookVars, watcherVars>>

Delete(c) ==
  /\ Change
  /\ obj[c] # Nil
  /\ obj' = [obj EXCEPT ![c] = Nil]
  /\ intended' = [intended EXCEPT ![c] = Nil]
  /\ UNCHANGED <<rev, cache, src, reconcilerVars, webhookVars, watcherVars>>

\* The PATCH route of the apiserver sends a merge patch with one tag.
PatchCluster(c, k, v) ==
  /\ Change
  /\ Patch(c, WithTag(obj[c].content, k, v))
  /\ intended' = [intended EXCEPT ![c] = WithTag(intended[c], k, v)]
  /\ UNCHANGED <<cache, src, reconcilerVars, webhookVars, watcherVars>>

\* A watched field gets another value, or goes away.
ChangeSource(f, v) ==
  /\ Change
  /\ src[f] # v
  /\ src' = [src EXCEPT ![f] = v]
  /\ UNCHANGED <<apiVars, cache, reconcilerVars, webhookVars, watcherVars>>

-----------------------------------------------------------------------------
(* ClusterReconciler.                                                      *)

HashCluster(o) == o.content

HasDifferentHash(o) == o.hash # HashCluster(o)

\* The informer delivers the current version of an object; versions between
\* the cached and the current one may be skipped.  The event filters admit it
\* if its hash differs from the one in its annotation, and any deletion.
Observe(c) ==
  /\ cache[c] # obj[c]
  /\ cache' = [cache EXCEPT ![c] = obj[c]]
  /\ requests' = IF obj[c] = Nil \/ HasDifferentHash(obj[c])
                 THEN requests \cup {c} ELSE requests
  /\ UNCHANGED <<apiVars, src, changes, pc, name, instance, last, webhookVars, watcherVars>>

\* Mutant: an update that leaves the object as it is does not pass the filter.
ResyncFiltered(c) ==
  /\ cache[c] # Nil
  /\ cache[c] # obj[c]
  /\ c \notin requests
  /\ requests' = requests \cup {c}
  /\ UNCHANGED <<apiVars, cache, src, changes, pc, name, instance, last, webhookVars, watcherVars>>

\* The periodic resync of the informer delivers the cached object as an update.
Resync(c) ==
  /\ cache[c] # Nil
  /\ c \notin requests
  /\ HasDifferentHash(cache[c])
  /\ requests' = requests \cup {c}
  /\ UNCHANGED <<apiVars, cache, src, changes, pc, name, instance, last, webhookVars, watcherVars>>

\* The reconcile of c is over; after an error the request is queued again.
Done(again) ==
  /\ pc' = "idle"
  /\ name' = Nil
  /\ instance' = Nil
  /\ requests' = IF again THEN requests \cup {name} ELSE requests

\* Reconcile: the object is read from the cache; one that is gone is ignored.
\* It is updated first unless it has the skip-ca-cert annotation or there is
\* no CA data.
Reconcile(c) ==
  /\ pc = "idle"
  /\ c \in requests
  /\ requests' = requests \ {c}
  /\ IF cache[c] = Nil
     THEN UNCHANGED <<pc, name, instance>>
     ELSE /\ name' = c
          /\ instance' = cache[c]
          /\ pc' = IF ~cache[c].content.skipCA /\ HasCAData
                   THEN "update" ELSE "enqueue"
  /\ UNCHANGED <<apiVars, cache, src, changes, last, webhookVars, watcherVars>>

\* Reconcile: the CA is set; Update returns the stored object.
UpdateCA ==
  LET o == [instance EXCEPT !.content = WithCA(instance.content)] IN
  /\ pc = "update"
  /\ Current(name, instance)
  /\ Store(name, o)
  /\ intended' = [intended EXCEPT ![name] = WithCA(intended[name])]
  /\ instance' = obj'[name]
  /\ pc' = "enqueue"
  /\ UNCHANGED <<cache, src, changes, requests, name, last, webhookVars, watcherVars>>

\* Mutant: the message is sent although the Update failed.
UpdateCAConflictIgnored ==
  /\ pc = "update"
  /\ ~Current(name, instance)
  /\ pc' = "enqueue"
  /\ UNCHANGED <<apiVars, cache, src, changes, requests, name, instance, last, webhookVars, watcherVars>>

\* The object has changed since it was read: Update fails with a conflict.
UpdateCAConflict ==
  /\ pc = "update"
  /\ ~Current(name, instance)
  /\ Done(TRUE)
  /\ UNCHANGED <<apiVars, cache, src, changes, last, webhookVars, watcherVars>>

\* Update fails for another reason, before or after it took effect.
UpdateCAError ==
  LET o == [instance EXCEPT !.content = WithCA(instance.content)] IN
  /\ pc = "update"
  /\ \/ UNCHANGED apiVars
     \/ /\ Current(name, instance)
        /\ Store(name, o)
        /\ intended' = [intended EXCEPT ![name] = WithCA(intended[name])]
  /\ Done(TRUE)
  /\ UNCHANGED <<cache, src, changes, last, webhookVars, watcherVars>>

\* SQS stores the message of the instance.
Send == last' = [last EXCEPT ![name] =
  [rev |-> instance.rev, content |-> instance.content, quiet |-> instance.quiet]]

\* ReconcileCreateUpdate: the message is stored.  The hash annotation and the
\* removal of skip-cache-invalidation stay in the instance, which is dropped.
Enqueue ==
  /\ pc = "enqueue"
  /\ Send
  /\ Done(FALSE)
  /\ UNCHANGED <<apiVars, cache, src, changes, webhookVars, watcherVars>>

\* The call succeeds and lists the entry as failed: Enqueue only logs it.
EnqueueRefused ==
  /\ pc = "enqueue"
  /\ Done(FALSE)
  /\ UNCHANGED <<apiVars, cache, src, changes, last, webhookVars, watcherVars>>

\* The call fails, or times out after the message was stored.
EnqueueError ==
  /\ pc = "enqueue"
  /\ Send \/ UNCHANGED last
  /\ Done(TRUE)
  /\ UNCHANGED <<apiVars, cache, src, changes, webhookVars, watcherVars>>

-----------------------------------------------------------------------------
(* The Alertmanager webhook.                                               *)

\* The loop in process takes the first rule for the alert.
Rules(a) == {i \in DOMAIN AlertMap : AlertMap[i].alertName = a.name}

First(i, S) == i \in S /\ \A j \in S : i <= j

\* The handler has answered: nothing of the request is left.
Answer(r) ==
  /\ hpc' = [hpc EXCEPT ![r] = "idle"]
  /\ tag' = [tag EXCEPT ![r] = Nil]
  /\ attempts' = [attempts EXCEPT ![r] = 0]
  /\ items' = [items EXCEPT ![r] = NoItems]

\* process: a dead man's switch only sets a metric, an alert without a rule or
\* with another status is an error; every other alert updates the tags, in at
\* most three attempts.
Process(r, a) ==
  /\ Change
  /\ hpc[r] = "idle"
  /\ \/ /\ \/ a.name = DeadMansSwitch /\ a.status = "firing"
           \/ Rules(a) = {}
           \/ a.status = "other"
        /\ UNCHANGED webhookVars
     \/ /\ ~(a.name = DeadMansSwitch /\ a.status = "firing")
        /\ a.status # "other"
        /\ \E i \in DOMAIN AlertMap :
             /\ First(i, Rules(a))
             /\ tag' = [tag EXCEPT ![r] = IF a.status = "firing"
                          THEN AlertMap[i].onFiring ELSE AlertMap[i].onResolved]
        /\ hpc' = [hpc EXCEPT ![r] = "list"]
        /\ attempts' = [attempts EXCEPT ![r] = 3]
        /\ UNCHANGED items
  /\ UNCHANGED <<apiVars, cache, src, reconcilerVars, watcherVars>>

\* updateClusterTags: the objects are listed from the cache.
List(r) ==
  /\ hpc[r] = "list"
  /\ IF cache = NoItems
     THEN Answer(r)
     ELSE /\ items' = [items EXCEPT ![r] = cache]
          /\ hpc' = [hpc EXCEPT ![r] = "update"]
          /\ UNCHANGED <<tag, attempts>>
  /\ UNCHANGED <<apiVars, cache, src, changes, reconcilerVars, watcherVars>>

\* One object is written with the tags of the alert.
StoreTags(r, c) ==
  LET o == items[r][c] IN
  /\ Current(c, o)
  /\ Store(c, [o EXCEPT !.content = WithTags(o.content, tag[r])])
  /\ intended' = [intended EXCEPT ![c] = WithTags(intended[c], tag[r])]

\* updateClusterTags: one turn of the loop.  After the last the request is
\* answered with success.
UpdateTags(r, c) ==
  /\ hpc[r] = "update"
  /\ items[r][c] # Nil
  /\ StoreTags(r, c)
  /\ IF [items[r] EXCEPT ![c] = Nil] = NoItems
     THEN Answer(r)
     ELSE /\ items' = [items EXCEPT ![r] = [items[r] EXCEPT ![c] = Nil]]
          /\ UNCHANGED <<hpc, tag, attempts>>
  /\ UNCHANGED <<cache, src, changes, reconcilerVars, watcherVars>>

\* Mutant: the attempts are counted but never run out.
RetryForever(r) ==
  /\ hpc' = [hpc EXCEPT ![r] = "list"]
  /\ attempts' = [attempts EXCEPT ![r] = attempts[r] - 1]
  /\ items' = [items EXCEPT ![r] = NoItems]
  /\ UNCHANGED tag

\* retry: a failed attempt starts again from the list; after the last the
\* request is answered with an error.
Retry(r) ==
  IF attempts[r] = 1
  THEN Answer(r)
  ELSE /\ hpc' = [hpc EXCEPT ![r] = "list"]
       /\ attempts' = [attempts EXCEPT ![r] = attempts[r] - 1]
       /\ items' = [items EXCEPT ![r] = NoItems]
       /\ UNCHANGED tag

\* The list fails, as it does before the caches have started: main starts the
\* webhook first.
ListError(r) ==
  /\ hpc[r] = "list"
  /\ Retry(r)
  /\ UNCHANGED <<apiVars, cache, src, changes, reconcilerVars, watcherVars>>

UpdateTagsConflict(r, c) ==
  /\ hpc[r] = "update"
  /\ items[r][c] # Nil
  /\ ~Current(c, items[r][c])
  /\ Retry(r)
  /\ UNCHANGED <<apiVars, cache, src, changes, reconcilerVars, watcherVars>>

\* Update fails for another reason, before or after it took effect.
UpdateTagsError(r, c) ==
  /\ hpc[r] = "update"
  /\ items[r][c] # Nil
  /\ StoreTags(r, c) \/ UNCHANGED apiVars
  /\ Retry(r)
  /\ UNCHANGED <<cache, src, changes, reconcilerVars, watcherVars>>

-----------------------------------------------------------------------------
(* ServiceMetadataWatcherReconciler.                                       *)

\* enqueueRequestsFromMapFunc and the event filters: an event of a watcher or
\* of one of its objects, or the periodic resync, queues the watcher.
Notify(w) ==
  /\ w \notin watchers
  /\ watchers' = watchers \cup {w}
  /\ UNCHANGED <<apiVars, cache, src, changes, reconcilerVars, webhookVars, patches, pending>>

Found(w) == [f \in Field |-> IF Owner[f] = w THEN src[f] ELSE Nil]

\* Mutant: only fields that an object does not have yet are patched.
TargetsOnce(w) ==
  {t \in Cluster \X Field :
     /\ cache[t[1]] # Nil
     /\ Found(w)[t[2]] # Nil
     /\ cache[t[1]].content.services[t[2]] = Nil}

\* The patches of all clusters in the cache.
Targets(w) == {c \in Cluster : cache[c] # Nil} \X {f \in Field : Found(w)[f] # Nil}

\* Reconcile: one object whose GVK is not watched, or without fields, ends it
\* without patches.  A field that is not found is skipped.  An error of a Get
\* queues the watcher again and leaves everything as it was.
ReconcileWatcher(w) ==
  /\ w \in watchers
  /\ patches[w] = Nil
  /\ watchers' = watchers \ {w}
  /\ IF w \in Allowed /\ Targets(w) # {}
     THEN /\ patches' = [patches EXCEPT ![w] = Found(w)]
          /\ pending' = [pending EXCEPT ![w] = Targets(w)]
     ELSE UNCHANGED <<patches, pending>>
  /\ UNCHANGED <<apiVars, cache, src, changes, reconcilerVars, webhookVars>>

\* The patch of field f of object c is done, whatever came of it.
Patched(w, c, f) ==
  LET left == pending[w] \ {<<c, f>>} IN
  /\ pending' = [pending EXCEPT ![w] = left]
  /\ patches' = IF left = {} THEN [patches EXCEPT ![w] = Nil] ELSE patches

StoreService(w, c, f) ==
  /\ Patch(c, WithService(obj[c].content, f, patches[w][f]))
  /\ intended' = [intended EXCEPT ![c] = WithService(intended[c], f, patches[w][f])]

\* applyServiceMetadataPatches: one turn of the inner loop.
ApplyPatch(w, c, f) ==
  /\ <<c, f>> \in pending[w]
  /\ StoreService(w, c, f)
  /\ Patched(w, c, f)
  /\ UNCHANGED <<cache, src, changes, reconcilerVars, webhookVars, watchers>>

\* The object is gone: the error is logged.
ApplyPatchGone(w, c, f) ==
  /\ <<c, f>> \in pending[w]
  /\ obj[c] = Nil
  /\ Patched(w, c, f)
  /\ UNCHANGED <<apiVars, cache, src, changes, reconcilerVars, webhookVars, watchers>>

\* Another error, before or after the patch took effect, is logged too: the
\* loop goes on and the watcher is not queued again.
ApplyPatchError(w, c, f) ==
  /\ <<c, f>> \in pending[w]
  /\ StoreService(w, c, f) \/ UNCHANGED apiVars
  /\ Patched(w, c, f)
  /\ UNCHANGED <<cache, src, changes, reconcilerVars, webhookVars, watchers>>

-----------------------------------------------------------------------------

\* The process starts again: the informers list the objects and deliver each
\* of them as created.
Restart ==
  /\ Change
  /\ cache' = obj
  /\ requests' = {c \in Cluster : obj[c] # Nil /\ HasDifferentHash(obj[c])}
  /\ pc' = "idle"
  /\ name' = Nil
  /\ instance' = Nil
  /\ hpc' = [r \in Request |-> "idle"]
  /\ tag' = [r \in Request |-> Nil]
  /\ attempts' = [r \in Request |-> 0]
  /\ items' = [r \in Request |-> NoItems]
  /\ watchers' = Watcher
  /\ patches' = [w \in Watcher |-> Nil]
  /\ pending' = [w \in Watcher |-> {}]
  /\ UNCHANGED <<apiVars, src, last>>

Others ==
  \/ \E c \in Cluster, a \in Annotations : Apply(c, a)
  \/ \E c \in Cluster : Delete(c)
  \/ \E c \in Cluster, k \in Tag, v \in Value : PatchCluster(c, k, v)
  \/ \E f \in Field, v \in Value \cup {Nil} : ChangeSource(f, v)

Reconciler ==
  \/ \E c \in Cluster : Observe(c) \/ Resync(c) \/ Reconcile(c)
  \/ UpdateCA \/ UpdateCAConflict \/ UpdateCAError
  \/ Enqueue \/ EnqueueRefused \/ EnqueueError

Webhook(r) ==
  \/ \E a \in Alert : Process(r, a)
  \/ List(r) \/ ListError(r)
  \/ \E c \in Cluster :
       UpdateTags(r, c) \/ UpdateTagsConflict(r, c) \/ UpdateTagsError(r, c)

MetadataWatcher(w) ==
  \/ Notify(w) \/ ReconcileWatcher(w)
  \/ \E c \in Cluster, f \in Field :
       ApplyPatch(w, c, f) \/ ApplyPatchGone(w, c, f) \/ ApplyPatchError(w, c, f)

Next ==
  \/ Others
  \/ Reconciler
  \/ \E r \in Request : Webhook(r)
  \/ \E w \in Watcher : MetadataWatcher(w)
  \/ Restart

Spec == Init /\ [][Next]_vars

\* The work queues serve every request in turn, the informers deliver every
\* change and resync for ever, and a reconcile that has begun goes on.
Fairness ==
  /\ \A c \in Cluster :
       WF_vars(Observe(c)) /\ WF_vars(Resync(c)) /\ SF_vars(Reconcile(c))
  /\ WF_vars(UpdateCA \/ UpdateCAConflict \/ UpdateCAError)
  /\ WF_vars(Enqueue \/ EnqueueRefused \/ EnqueueError)
  /\ \A w \in Watcher :
       /\ WF_vars(Notify(w)) /\ WF_vars(ReconcileWatcher(w))
       /\ WF_vars(\E c \in Cluster, f \in Field :
            ApplyPatch(w, c, f) \/ ApplyPatchGone(w, c, f) \/ ApplyPatchError(w, c, f))

FairSpec == Spec /\ Fairness

-----------------------------------------------------------------------------

\* Every acknowledged write to an object stays in it until another write
\* changes the same thing: although ClusterReconciler and the webhook write
\* back whole objects which they read from a cache, they never undo a tag, a
\* field of the service metadata, the CA or an annotation that someone else
\* wrote in between.
NoWriteUndone == \A c \in Cluster : obj[c] # Nil => obj[c].content = intended[c]

\* The webhook leaves a tag alone which the object, as it is when it is
\* written, excludes (docs/developer-guides/annotations.md): only the PATCH
\* route changes one, even if the annotation was set after the list.
ExcludedUntouched ==
  [][\A c \in Cluster, k \in Tag :
       obj[c] # Nil /\ obj'[c] # Nil /\ k \in obj[c].content.excluded =>
         \/ obj'[c].content.tags[k] = obj[c].content.tags[k]
         \/ \E v \in Value : PatchCluster(c, k, v)]_vars

\* ClusterReconciler never sends an older version of an object after a newer
\* one, although it reads from a cache that may lag behind the version it has
\* written and sent itself: the Update before the message fails on a stale
\* copy, and a copy that needs no Update is at least as new as the last message.
AnnouncedInOrder ==
  [][\A c \in Cluster : last[c] # Nil => last'[c].rev >= last[c].rev]_vars

\* From some time on no call fails except for a conflict, no entry is refused
\* and the process stays up.
ErrorsStop ==
  <>[][ /\ ~Restart
        /\ ~UpdateCAError \/ UpdateCA \/ UpdateCAConflict
        /\ ~EnqueueRefused \/ Enqueue
        /\ ~EnqueueError \/ Enqueue
        /\ \A w \in Watcher, c \in Cluster, f \in Field :
             ApplyPatchError(w, c, f) => ApplyPatch(w, c, f) \/ ApplyPatchGone(w, c, f) ]_vars

\* Once errors stop, the last message of every object comes to have its
\* content: also when SQS refused an entry, which Enqueue reports as success,
\* and when a change was written while another one was being sent.
Announced ==
  ErrorsStop => <>[](\A c \in Cluster :
    obj[c] # Nil => last[c] # Nil /\ last[c].content = obj[c].content)

\* Once errors stop, every object comes to have the value of every watched
\* field, also after a patch that failed and was only logged.
ServicesFollow ==
  ErrorsStop => <>[](\A c \in Cluster, f \in Field :
    obj[c] # Nil /\ Owner[f] \in Allowed /\ src[f] # Nil
      => obj[c].content.services[f] = src[f])

=============================================================================
