---------------------------- MODULE ClientProofs ----------------------------
(***************************************************************************)
(* Proofs that the client undoes no write of another, respects excluded    *)
(* tags and sends the versions of an object in order, for any number of    *)
(* objects, webhook requests and watchers, after a strengthening of the    *)
(* type invariant that is inductive.                                       *)
(***************************************************************************)
EXTENDS Client, TLAPS

\* The type invariant, made inductive: a worker, a request or a watcher that
\* has begun has the data it works on.
Typed ==
  /\ ClientTypeOK
  /\ pc # "idle" => name \in Cluster /\ instance \in Object
  /\ \A r \in Request : hpc[r] # "idle" => tag[r] \in Tags /\ attempts[r] \in 1 .. 3
  /\ \A w \in Watcher : pending[w] # {} => patches[w] # Nil
  /\ \A c \in Cluster : obj[c] # Nil => intended[c] \in Content

\* What a change to an object makes of its content is a content again.
LEMMA ChangedContent ==
  ASSUME NEW x \in Content
  PROVE  /\ WithCA(x) \in Content
         /\ \A t \in Tags : WithTags(x, t) \in Content
         /\ \A k \in Tag, v \in Value : WithTag(x, k, v) \in Content
         /\ \A f \in Field, v \in Value \cup {Nil} : WithService(x, f, v) \in Content
         /\ \A a \in Annotation : WithAnnotation(x, a) \in Content
  BY Zenon DEF Content, Tags, WithCA, WithTags, WithTag, WithService, WithAnnotation, Annotation

\* A stored object is typed, has the given content, and either nothing has
\* changed or it has a version that no object had before.
LEMMA Stored ==
  ASSUME obj \in [Cluster -> Object \cup {Nil}], rev \in Nat,
         NEW c \in Cluster, NEW o \in Object, Store(c, o)
  PROVE  /\ obj' \in [Cluster -> Object \cup {Nil}]
         /\ rev' \in Nat
         /\ obj'[c] \in Object
         /\ obj'[c].content = o.content
         /\ \A d \in Cluster : d # c => obj'[d] = obj[d]
         /\ \/ UNCHANGED <<obj, rev>>
            \/ rev' = rev + 1 /\ obj'[c].rev = rev + 1
<1>1. Nil \notin Object
  BY ClientAssumption, Zenon
<1>2. [o EXCEPT !.rev = rev + 1] \in Object
  BY DEF Object
<1>3. CASE obj[c] # Nil /\ [o EXCEPT !.rev = obj[c].rev] = obj[c]
  <2>1. UNCHANGED <<obj, rev>>
    BY <1>3, Zenon DEF Store
  <2>2. obj[c] \in Object /\ obj[c].content = o.content
    BY <1>3, Zenon DEF Object
  <2> QED
    BY <2>1, <2>2, Zenon
<1>4. CASE ~(obj[c] # Nil /\ [o EXCEPT !.rev = obj[c].rev] = obj[c])
  <2>1. rev' = rev + 1 /\ obj' = [obj EXCEPT ![c] = [o EXCEPT !.rev = rev + 1]]
    BY <1>4, Zenon DEF Store
  <2>2. obj'[c] = [o EXCEPT !.rev = rev + 1]
    BY <2>1, Zenon
  <2>3. obj'[c].rev = rev + 1 /\ obj'[c].content = o.content
    BY <2>2, Zenon DEF Object
  <2> QED
    BY <1>2, <2>1, <2>2, <2>3
<1> QED
  BY <1>3, <1>4, Zenon

-----------------------------------------------------------------------------
(* Type correctness.                                                       *)

\* The first state is typed.
LEMMA InitTyped == Init => Typed
<1> SUFFICES ASSUME Init PROVE Typed
  OBVIOUS
<1>1. NoItems \in [Cluster -> Object \cup {Nil}]
  BY Zenon DEF NoItems
<1> QED
  BY <1>1 DEF Init, Typed, ClientTypeOK, NoItems

\* A step that writes at most object c, with a typed content, keeps the types
\* of the API server's variables.
LEMMA WriteTyped ==
  ASSUME Typed, NEW c \in Cluster, NEW o \in Object, NEW x \in Content,
         Store(c, o), intended' = [intended EXCEPT ![c] = x]
  PROVE  /\ obj' \in [Cluster -> Object \cup {Nil}]
         /\ rev' \in Nat
         /\ intended' \in [Cluster -> Content \cup {Nil}]
         /\ obj'[c] \in Object
         /\ \A d \in Cluster : obj'[d] # Nil => intended'[d] \in Content
<1>1. obj \in [Cluster -> Object \cup {Nil}] /\ rev \in Nat
  BY Zenon DEF Typed, ClientTypeOK
<1>2. intended \in [Cluster -> Content \cup {Nil}]
      /\ \A d \in Cluster : obj[d] # Nil => intended[d] \in Content
  BY Zenon DEF Typed, ClientTypeOK
<1>3. /\ obj' \in [Cluster -> Object \cup {Nil}]
      /\ rev' \in Nat
      /\ obj'[c] \in Object
      /\ \A d \in Cluster : d # c => obj'[d] = obj[d]
  BY <1>1, Stored, Zenon
<1> QED
  BY <1>2, <1>3, Zenon

\* The same for an Update of object c made from a copy o of it.
LEMMA UpdateTyped ==
  ASSUME Typed, NEW c \in Cluster, NEW o \in Object, NEW x \in Content,
         NEW y \in Content, Store(c, [o EXCEPT !.content = x]),
         intended' = [intended EXCEPT ![c] = y]
  PROVE  /\ obj' \in [Cluster -> Object \cup {Nil}]
         /\ rev' \in Nat
         /\ intended' \in [Cluster -> Content \cup {Nil}]
         /\ obj'[c] \in Object
         /\ \A d \in Cluster : obj'[d] # Nil => intended'[d] \in Content
<1>1. [o EXCEPT !.content = x] \in Object
  BY Zenon DEF Object
<1> QED
  BY <1>1, WriteTyped, Zenon

\* What others than the client write is typed.
LEMMA OthersTyped == Typed /\ Others => Typed'
<1> SUFFICES ASSUME Typed, Others PROVE Typed'
  OBVIOUS
<1> USE DEF reconcilerVars, webhookVars, watcherVars
<1>0. Nil \notin Object
  BY ClientAssumption, Zenon
<1>1. ASSUME NEW c \in Cluster, NEW a \in Annotations, Apply(c, a)
      PROVE  Typed'
  <2> DEFINE new == [ca |-> FALSE, tags |-> [k \in Tag |-> Nil],
                     services |-> [f \in Field |-> Nil],
                     skipCA |-> FALSE, excluded |-> {}]
             content == IF obj[c] # Nil THEN obj[c].content ELSE new
             o == [rev |-> 0, content |-> WithAnnotation(content, a),
                   quiet |-> a.quiet, hash |-> Nil]
             x == WithAnnotation(IF obj[c] # Nil THEN intended[c] ELSE content, a)
  <2>1. a \in Annotation /\ a.quiet \in BOOLEAN
    BY ClientAssumption, Zenon DEF Annotation
  <2>2. new \in Content
    BY Zenon DEF Content, Tags
  <2>3. content \in Content
    BY <2>2, Zenon DEF Typed, ClientTypeOK, Object
  <2>4. (IF obj[c] # Nil THEN intended[c] ELSE content) \in Content
    BY <2>3, Zenon DEF Typed
  <2>5. WithAnnotation(content, a) \in Content /\ x \in Content
    BY <2>1, <2>3, <2>4, ChangedContent, Zenon
  <2>6. o \in Object
    BY <2>1, <2>5, Zenon DEF Object
  <2>7. Store(c, o) /\ intended' = [intended EXCEPT ![c] = x]
    BY <1>1, Zenon DEF Apply
  <2>8. /\ obj' \in [Cluster -> Object \cup {Nil}]
        /\ rev' \in Nat
        /\ intended' \in [Cluster -> Content \cup {Nil}]
        /\ \A d \in Cluster : obj'[d] # Nil => intended'[d] \in Content
    <3> HIDE DEF o, x
    <3> QED
      BY <2>5, <2>6, <2>7, WriteTyped, Zenon
  <2>9. /\ changes' = changes + 1
        /\ UNCHANGED <<cache, src, reconcilerVars, webhookVars, watcherVars>>
    BY <1>1, Zenon DEF Apply, Change
  <2> QED
    BY <2>8, <2>9 DEF Typed, ClientTypeOK
<1>2. ASSUME NEW c \in Cluster, Delete(c)
      PROVE  Typed'
  BY <1>2 DEF Delete, Change, Typed, ClientTypeOK
<1>3. ASSUME NEW c \in Cluster, NEW k \in Tag, NEW v \in Value, PatchCluster(c, k, v)
      PROVE  Typed'
  <2>1. obj[c] \in Object /\ obj[c].content \in Content /\ intended[c] \in Content
    BY <1>3, Zenon DEF PatchCluster, Patch, Typed, ClientTypeOK, Object
  <2>2. WithTag(obj[c].content, k, v) \in Content /\ WithTag(intended[c], k, v) \in Content
    BY <2>1, ChangedContent, Zenon
  <2>3. /\ Store(c, [obj[c] EXCEPT !.content = WithTag(obj[c].content, k, v)])
        /\ intended' = [intended EXCEPT ![c] = WithTag(intended[c], k, v)]
    BY <1>3, Zenon DEF PatchCluster, Patch
  <2>4. /\ obj' \in [Cluster -> Object \cup {Nil}]
        /\ rev' \in Nat
        /\ intended' \in [Cluster -> Content \cup {Nil}]
        /\ \A d \in Cluster : obj'[d] # Nil => intended'[d] \in Content
    BY <2>1, <2>2, <2>3, UpdateTyped, Zenon
  <2> QED
    BY <1>3, <2>4 DEF PatchCluster, Change, Typed, ClientTypeOK
<1>4. ASSUME NEW f \in Field, NEW v \in Value \cup {Nil}, ChangeSource(f, v)
      PROVE  Typed'
  BY <1>4 DEF ChangeSource, Change, apiVars, Typed, ClientTypeOK
<1> QED
  BY <1>1, <1>2, <1>3, <1>4, Zenon DEF Others

\* The Update of ClusterReconciler keeps the types of what it writes.
LEMMA CATyped ==
  ASSUME Typed, pc = "update",
         Store(name, [instance EXCEPT !.content = WithCA(instance.content)]),
         Current(name, instance),
         intended' = [intended EXCEPT ![name] = WithCA(intended[name])]
  PROVE  /\ obj' \in [Cluster -> Object \cup {Nil}]
         /\ rev' \in Nat
         /\ intended' \in [Cluster -> Content \cup {Nil}]
         /\ obj'[name] \in Object
         /\ \A d \in Cluster : obj'[d] # Nil => intended'[d] \in Content
<1>1. name \in Cluster /\ instance \in Object
  BY Zenon DEF Typed
<1>2. instance.content \in Content /\ intended[name] \in Content
  BY <1>1, Zenon DEF Object, Typed, Current
<1>3. WithCA(instance.content) \in Content /\ WithCA(intended[name]) \in Content
  BY <1>2, ChangedContent, Zenon
<1> QED
  BY <1>1, <1>3, UpdateTyped, Zenon

\* So is what a step of the worker of ClusterReconciler leaves,
LEMMA ReconcilerTyped == Typed /\ Reconciler => Typed'
<1> SUFFICES ASSUME Typed, Reconciler PROVE Typed'
  OBVIOUS
<1> USE DEF apiVars, webhookVars, watcherVars
<1>1. ASSUME NEW c \in Cluster, Observe(c) PROVE Typed'
  BY <1>1, Zenon DEF Observe, Typed, ClientTypeOK
<1>2. ASSUME NEW c \in Cluster, Resync(c) PROVE Typed'
  BY <1>2, Zenon DEF Resync, Typed, ClientTypeOK
<1>3. ASSUME NEW c \in Cluster, Reconcile(c) PROVE Typed'
  <2>1. CASE cache[c] = Nil
    BY <1>3, <2>1, Zenon DEF Reconcile, Typed, ClientTypeOK
  <2>2. CASE cache[c] # Nil
    <3>1. cache[c] \in Object
      BY <2>2, Zenon DEF Typed, ClientTypeOK
    <3> QED
      BY <1>3, <2>2, <3>1, Zenon DEF Reconcile, Typed, ClientTypeOK
  <2> QED
    BY <2>1, <2>2, Zenon
<1>4. CASE UpdateCA
  <2>1. /\ obj' \in [Cluster -> Object \cup {Nil}]
        /\ rev' \in Nat
        /\ intended' \in [Cluster -> Content \cup {Nil}]
        /\ obj'[name] \in Object
        /\ \A d \in Cluster : obj'[d] # Nil => intended'[d] \in Content
    BY <1>4, CATyped, Zenon DEF UpdateCA
  <2> QED
    BY <1>4, <2>1, Zenon DEF UpdateCA, Typed, ClientTypeOK
<1>5. CASE UpdateCAConflict
  BY <1>5, Zenon DEF UpdateCAConflict, Done, Typed, ClientTypeOK
<1>6. CASE UpdateCAError
  <2>1. /\ obj' \in [Cluster -> Object \cup {Nil}]
        /\ rev' \in Nat
        /\ intended' \in [Cluster -> Content \cup {Nil}]
        /\ \A d \in Cluster : obj'[d] # Nil => intended'[d] \in Content
    <3>1. CASE UNCHANGED apiVars
      BY <3>1, Zenon DEF Typed, ClientTypeOK
    <3>2. CASE ~UNCHANGED apiVars
      BY <1>6, <3>2, CATyped, Zenon DEF UpdateCAError
    <3> QED
      BY <3>1, <3>2, Zenon
  <2> QED
    BY <1>6, <2>1, Zenon DEF UpdateCAError, Done, Typed, ClientTypeOK
<1>7. CASE Enqueue \/ EnqueueRefused \/ EnqueueError
  <2>1. pc = "enqueue" /\ name \in Cluster /\ instance \in Object
    BY <1>7, Zenon DEF Enqueue, EnqueueRefused, EnqueueError, Typed
  <2>2. [rev |-> instance.rev, content |-> instance.content, quiet |-> instance.quiet]
          \in Message
    BY <2>1, Zenon DEF Object, Message
  <2>3. last' \in [Cluster -> Message \cup {Nil}]
    BY <1>7, <2>1, <2>2, Zenon
    DEF Enqueue, EnqueueRefused, EnqueueError, Send, Typed, ClientTypeOK
  <2> QED
    BY <1>7, <2>1, <2>3, Zenon
    DEF Enqueue, EnqueueRefused, EnqueueError, Done, Typed, ClientTypeOK
<1> QED
  BY <1>1, <1>2, <1>3, <1>4, <1>5, <1>6, <1>7, Zenon DEF Reconciler

\* A write of the webhook keeps the types of what it writes.
LEMMA TagsTyped ==
  ASSUME Typed, NEW r \in Request, NEW c \in Cluster,
         hpc[r] = "update", items[r][c] # Nil, StoreTags(r, c)
  PROVE  /\ obj' \in [Cluster -> Object \cup {Nil}]
         /\ rev' \in Nat
         /\ intended' \in [Cluster -> Content \cup {Nil}]
         /\ \A d \in Cluster : obj'[d] # Nil => intended'[d] \in Content
<1> DEFINE o == items[r][c]
<1>1. o \in Object /\ tag[r] \in Tags
  BY DEF Typed, ClientTypeOK
<1>2. o.content \in Content /\ intended[c] \in Content
  BY <1>1, Zenon DEF Object, Typed, StoreTags, Current
<1>3. WithTags(o.content, tag[r]) \in Content /\ WithTags(intended[c], tag[r]) \in Content
  BY <1>1, <1>2, ChangedContent, Zenon
<1>4. /\ Store(c, [o EXCEPT !.content = WithTags(o.content, tag[r])])
      /\ intended' = [intended EXCEPT ![c] = WithTags(intended[c], tag[r])]
  BY Zenon DEF StoreTags
<1> HIDE DEF o
<1> QED
  BY <1>1, <1>3, <1>4, UpdateTyped, Zenon

\* The end of a request, and a new attempt, keep the types of its variables.
LEMMA RetryTyped ==
  ASSUME Typed, NEW r \in Request, hpc[r] # "idle", Answer(r) \/ Retry(r)
  PROVE  /\ hpc' \in [Request -> {"idle", "list", "update"}]
         /\ tag' \in [Request -> Tags \cup {Nil}]
         /\ attempts' \in [Request -> 0 .. 3]
         /\ items' \in [Request -> [Cluster -> Object \cup {Nil}]]
         /\ \A q \in Request : hpc'[q] # "idle" => tag'[q] \in Tags /\ attempts'[q] \in 1 .. 3
<1>1. NoItems \in [Cluster -> Object \cup {Nil}]
  BY Zenon DEF NoItems
<1>2. CASE Answer(r)
  BY <1>1, <1>2 DEF Answer, Typed, ClientTypeOK
<1>3. CASE ~Answer(r)
  <2>1. attempts[r] \in 1 .. 3 /\ attempts[r] # 1
    BY <1>3, Zenon DEF Typed, Retry
  <2>2. /\ hpc' = [hpc EXCEPT ![r] = "list"]
        /\ attempts' = [attempts EXCEPT ![r] = attempts[r] - 1]
        /\ items' = [items EXCEPT ![r] = NoItems]
        /\ tag' = tag
    BY <1>3, Zenon DEF Retry
  <2> QED
    BY <1>1, <2>1, <2>2 DEF Typed, ClientTypeOK
<1> QED
  BY <1>2, <1>3, Zenon

\* a step of a request of the webhook,
LEMMA WebhookTyped == \A r \in Request : Typed /\ Webhook(r) => Typed'
<1> SUFFICES ASSUME NEW r \in Request, Typed, Webhook(r) PROVE Typed'
  OBVIOUS
<1> USE DEF reconcilerVars, watcherVars
<1>1. ASSUME NEW a \in Alert, Process(r, a) PROVE Typed'
  <2>1. CASE UNCHANGED webhookVars
    BY <1>1, <2>1 DEF Process, Change, apiVars, webhookVars, Typed, ClientTypeOK
  <2>2. CASE ~UNCHANGED webhookVars
    <3>1. PICK i \in DOMAIN AlertMap :
            tag' = [tag EXCEPT ![r] = IF a.status = "firing"
                      THEN AlertMap[i].onFiring ELSE AlertMap[i].onResolved]
      BY <1>1, <2>2, Zenon DEF Process
    <3>2. AlertMap[i] \in Rule
      BY ClientAssumption
    <3>3. AlertMap[i].onFiring \in Tags /\ AlertMap[i].onResolved \in Tags
      BY <3>2, Zenon DEF Rule
    <3>4. tag' \in [Request -> Tags \cup {Nil}] /\ tag'[r] \in Tags
          /\ \A q \in Request : q # r => tag'[q] = tag[q]
      BY <3>1, <3>3, Zenon DEF Typed, ClientTypeOK
    <3>5. /\ hpc' = [hpc EXCEPT ![r] = "list"]
          /\ attempts' = [attempts EXCEPT ![r] = 3]
          /\ items' = items
      BY <1>1, <2>2, Zenon DEF Process
    <3>6. /\ changes' = changes + 1
          /\ UNCHANGED <<apiVars, cache, src, reconcilerVars, watcherVars>>
      BY <1>1, Zenon DEF Process, Change
    <3> QED
      BY <3>4, <3>5, <3>6 DEF apiVars, Typed, ClientTypeOK
  <2> QED
    BY <2>1, <2>2, Zenon
<1>2. CASE List(r)
  <2>0. hpc[r] # "idle"
    BY <1>2, Zenon DEF List
  <2>1. CASE Answer(r)
    BY <1>2, <2>0, <2>1, RetryTyped, Zenon DEF List, apiVars, Typed, ClientTypeOK
  <2>2. CASE ~Answer(r)
    BY <1>2, <2>2, Zenon DEF List, apiVars, Typed, ClientTypeOK
  <2> QED
    BY <2>1, <2>2, Zenon
<1>3. ASSUME NEW c \in Cluster, UpdateTags(r, c) PROVE Typed'
  <2>1. /\ obj' \in [Cluster -> Object \cup {Nil}]
        /\ rev' \in Nat
        /\ intended' \in [Cluster -> Content \cup {Nil}]
        /\ \A d \in Cluster : obj'[d] # Nil => intended'[d] \in Content
    BY <1>3, TagsTyped, Zenon DEF UpdateTags
  <2>2. CASE Answer(r)
    BY <1>3, <2>1, <2>2, RetryTyped, Zenon DEF UpdateTags, Typed, ClientTypeOK
  <2>3. CASE ~Answer(r)
    <3>1. /\ items' = [items EXCEPT ![r] = [items[r] EXCEPT ![c] = Nil]]
          /\ UNCHANGED <<hpc, tag, attempts, cache, src, changes, reconcilerVars, watcherVars>>
      BY <1>3, <2>3, Zenon DEF UpdateTags
    <3>2. items' \in [Request -> [Cluster -> Object \cup {Nil}]]
      BY <3>1, Zenon DEF Typed, ClientTypeOK
    <3> QED
      BY <2>1, <3>1, <3>2, Zenon DEF Typed, ClientTypeOK
  <2> QED
    BY <2>2, <2>3, Zenon
<1>4. ASSUME NEW c \in Cluster, UpdateTagsConflict(r, c) PROVE Typed'
  BY <1>4, RetryTyped, Zenon DEF UpdateTagsConflict, apiVars, Typed, ClientTypeOK
<1>5. ASSUME NEW c \in Cluster, UpdateTagsError(r, c) PROVE Typed'
  <2>1. /\ obj' \in [Cluster -> Object \cup {Nil}]
        /\ rev' \in Nat
        /\ intended' \in [Cluster -> Content \cup {Nil}]
        /\ \A d \in Cluster : obj'[d] # Nil => intended'[d] \in Content
    <3>1. CASE UNCHANGED apiVars
      BY <3>1, Zenon DEF apiVars, Typed, ClientTypeOK
    <3>2. CASE StoreTags(r, c)
      BY <1>5, <3>2, TagsTyped, Zenon DEF UpdateTagsError
    <3> QED
      BY <1>5, <3>1, <3>2, Zenon DEF UpdateTagsError
  <2> QED
    BY <1>5, <2>1, RetryTyped, Zenon DEF UpdateTagsError, Typed, ClientTypeOK
<1>6. CASE ListError(r)
  BY <1>6, RetryTyped, Zenon DEF ListError, apiVars, Typed, ClientTypeOK
<1> QED
  BY <1>1, <1>2, <1>3, <1>4, <1>5, <1>6, Zenon DEF Webhook

\* A patch of a watcher keeps the types of what it writes.
LEMMA ServiceTyped ==
  ASSUME Typed, NEW w \in Watcher, NEW c \in Cluster, NEW f \in Field,
         <<c, f>> \in pending[w], StoreService(w, c, f)
  PROVE  /\ obj' \in [Cluster -> Object \cup {Nil}]
         /\ rev' \in Nat
         /\ intended' \in [Cluster -> Content \cup {Nil}]
         /\ \A d \in Cluster : obj'[d] # Nil => intended'[d] \in Content
<1>1. obj[c] \in Object /\ obj[c].content \in Content /\ intended[c] \in Content
  BY Zenon DEF StoreService, Patch, Typed, ClientTypeOK, Object
<1>2. patches[w][f] \in Value \cup {Nil}
  <2>1. patches[w] \in [Field -> Value \cup {Nil}]
    BY Zenon DEF Typed, ClientTypeOK
  <2> QED
    BY <2>1, Zenon
<1> DEFINE v == patches[w][f]
<1>3. WithService(obj[c].content, f, v) \in Content /\ WithService(intended[c], f, v) \in Content
  BY <1>1, <1>2, ChangedContent, Zenon
<1>4. /\ Store(c, [obj[c] EXCEPT !.content = WithService(obj[c].content, f, v)])
      /\ intended' = [intended EXCEPT ![c] = WithService(intended[c], f, v)]
  BY Zenon DEF StoreService, Patch
<1> QED
  BY <1>1, <1>3, <1>4, UpdateTyped, Zenon

\* A patch that is done leaves a watcher typed.
LEMMA PatchedTyped ==
  ASSUME Typed, NEW w \in Watcher, NEW c \in Cluster, NEW f \in Field, Patched(w, c, f)
  PROVE  /\ patches' \in [Watcher -> [Field -> Value \cup {Nil}] \cup {Nil}]
         /\ pending' \in [Watcher -> SUBSET (Cluster \X Field)]
         /\ \A x \in Watcher : pending'[x] # {} => patches'[x] # Nil
<1> DEFINE left == pending[w] \ {<<c, f>>}
<1>1. /\ pending' = [pending EXCEPT ![w] = left]
      /\ patches' = IF left = {} THEN [patches EXCEPT ![w] = Nil] ELSE patches
  BY Zenon DEF Patched
<1>2. left \in SUBSET (Cluster \X Field) /\ left \subseteq pending[w]
  BY Zenon DEF Typed, ClientTypeOK
<1> HIDE DEF left
<1> QED
  BY <1>1, <1>2, Zenon DEF Typed, ClientTypeOK

\* and a step of a watcher of service metadata.
LEMMA WatcherTyped == \A w \in Watcher : Typed /\ MetadataWatcher(w) => Typed'
<1> SUFFICES ASSUME NEW w \in Watcher, Typed, MetadataWatcher(w) PROVE Typed'
  OBVIOUS
<1> USE DEF reconcilerVars, webhookVars
<1>1. CASE Notify(w)
  BY <1>1, Zenon DEF Notify, apiVars, Typed, ClientTypeOK
<1>2. CASE ReconcileWatcher(w)
  <2>1. Found(w) \in [Field -> Value \cup {Nil}]
    BY Zenon DEF Found, Typed, ClientTypeOK
  <2>2. Targets(w) \in SUBSET (Cluster \X Field)
    BY Zenon DEF Targets
  <2>3. [Field -> Value \cup {Nil}] \subseteq [Field -> Value \cup {Nil}] \cup {Nil}
    OBVIOUS
  <2>4. CASE UNCHANGED <<patches, pending>>
    BY <1>2, <2>4, Zenon DEF ReconcileWatcher, apiVars, Typed, ClientTypeOK
  <2>5. CASE ~UNCHANGED <<patches, pending>>
    <3>1. /\ patches' = [patches EXCEPT ![w] = Found(w)]
          /\ pending' = [pending EXCEPT ![w] = Targets(w)]
          /\ watchers' = watchers \ {w}
          /\ UNCHANGED <<apiVars, cache, src, changes, reconcilerVars, webhookVars>>
      BY <1>2, <2>5, Zenon DEF ReconcileWatcher
    <3>2. Found(w) # Nil
      BY <2>1, ClientAssumption, Zenon
    <3> QED
      BY <2>1, <2>2, <3>1, <3>2, Zenon DEF apiVars, Typed, ClientTypeOK
  <2> QED
    BY <2>4, <2>5, Zenon
<1>3. ASSUME NEW c \in Cluster, NEW f \in Field, ApplyPatch(w, c, f) PROVE Typed'
  BY <1>3, ServiceTyped, PatchedTyped, Zenon DEF ApplyPatch, Typed, ClientTypeOK
<1>4. ASSUME NEW c \in Cluster, NEW f \in Field, ApplyPatchGone(w, c, f) PROVE Typed'
  BY <1>4, PatchedTyped, Zenon DEF ApplyPatchGone, apiVars, Typed, ClientTypeOK
<1>5. ASSUME NEW c \in Cluster, NEW f \in Field, ApplyPatchError(w, c, f) PROVE Typed'
  <2>1. /\ obj' \in [Cluster -> Object \cup {Nil}]
        /\ rev' \in Nat
        /\ intended' \in [Cluster -> Content \cup {Nil}]
        /\ \A d \in Cluster : obj'[d] # Nil => intended'[d] \in Content
    <3>1. CASE UNCHANGED apiVars
      BY <3>1, Zenon DEF apiVars, Typed, ClientTypeOK
    <3>2. CASE StoreService(w, c, f)
      BY <1>5, <3>2, ServiceTyped, Zenon DEF ApplyPatchError
    <3> QED
      BY <1>5, <3>1, <3>2, Zenon DEF ApplyPatchError
  <2> QED
    BY <1>5, <2>1, PatchedTyped, Zenon DEF ApplyPatchError, Typed, ClientTypeOK
<1> QED
  BY <1>1, <1>2, <1>3, <1>4, <1>5, Zenon DEF MetadataWatcher

\* Every step keeps the types.
LEMMA NextTyped == Typed /\ [Next]_vars => Typed'
<1> SUFFICES ASSUME Typed, [Next]_vars PROVE Typed'
  OBVIOUS
<1>1. CASE Restart
  <2>1. NoItems \in [Cluster -> Object \cup {Nil}]
    BY Zenon DEF NoItems
  <2> QED
    <3>1. /\ UNCHANGED <<obj, rev, intended, src, last>>
          /\ cache' = obj /\ changes' = changes + 1
          /\ requests' \subseteq Cluster /\ pc' = "idle" /\ name' = Nil /\ instance' = Nil
          /\ hpc' = [r \in Request |-> "idle"] /\ tag' = [r \in Request |-> Nil]
          /\ attempts' = [r \in Request |-> 0] /\ items' = [r \in Request |-> NoItems]
          /\ watchers' = Watcher /\ patches' = [w \in Watcher |-> Nil]
          /\ pending' = [w \in Watcher |-> {}]
      BY <1>1, Zenon DEF Restart, Change, apiVars
    <3>2. /\ hpc' \in [Request -> {"idle", "list", "update"}]
          /\ tag' \in [Request -> Tags \cup {Nil}]
          /\ attempts' \in [Request -> 0 .. 3]
          /\ items' \in [Request -> [Cluster -> Object \cup {Nil}]]
          /\ \A r \in Request : hpc'[r] = "idle"
      BY <2>1, <3>1
    <3>3. /\ patches' \in [Watcher -> [Field -> Value \cup {Nil}] \cup {Nil}]
          /\ pending' \in [Watcher -> SUBSET (Cluster \X Field)]
          /\ \A w \in Watcher : pending'[w] = {}
      BY <3>1, Zenon
    <3>4. ClientTypeOK'
      BY <3>1, <3>2, <3>3 DEF Typed, ClientTypeOK
    <3> QED
      BY <3>1, <3>2, <3>3, <3>4, Zenon DEF Typed
<1>2. CASE UNCHANGED vars
  BY <1>2, Zenon DEF vars, apiVars, reconcilerVars, webhookVars, watcherVars, Typed, ClientTypeOK
<1> QED
  BY <1>1, <1>2, OthersTyped, ReconcilerTyped, WebhookTyped, WatcherTyped, Zenon DEF Next

\* The strengthened type invariant always holds.
LEMMA AlwaysTyped == Spec => []Typed
  BY InitTyped, NextTyped, PTL DEF Spec

-----------------------------------------------------------------------------
(* Copies of objects.                                                      *)

\* o was object c at some time: it has no newer version, and if it has the
\* same version it is the same.
CopyOf(c, o) ==
  /\ o.rev <= rev
  /\ obj[c] # Nil => o.rev <= obj[c].rev /\ (o.rev = obj[c].rev => o = obj[c])

\* Reconcile updates o before it sends it.
NeedsCA(o) == HasCAData /\ ~o.content.skipCA

\* Version n of object c is not newer than the object, nor than a cached one
\* that would be sent without an Update.
Sendable(c, n) ==
  /\ n <= rev
  /\ obj[c] # Nil => n <= obj[c].rev
  /\ cache[c] # Nil /\ ~NeedsCA(cache[c]) => n <= cache[c].rev

\* The parts of the inductive invariant.  The objects are as intended; what
\* the cache and the requests of the webhook hold are copies; the worker
\* updates a copy that needs it, and sends and has sent nothing too old.
Intended ==
  \A c \in Cluster : obj[c] # Nil => obj[c].rev <= rev /\ obj[c].content = intended[c]

Cached == \A c \in Cluster : cache[c] # Nil => CopyOf(c, cache[c])

Listed == \A r \in Request, c \in Cluster : items[r][c] # Nil => CopyOf(c, items[r][c])

ToUpdate ==
  pc = "update" => /\ CopyOf(name, instance)
                   /\ NeedsCA(instance)
                   /\ cache[name] # Nil => instance.rev <= cache[name].rev

ToSend ==
  pc = "enqueue" => /\ Sendable(name, instance.rev)
                    /\ last[name] # Nil => last[name].rev <= instance.rev

Sent == \A c \in Cluster : last[c] # Nil => Sendable(c, last[c].rev)

\* The inductive invariant: everything the client holds is a copy of an
\* object, and the worker holds nothing older than what was sent.
Versions == Intended /\ Cached /\ Listed /\ ToUpdate /\ ToSend /\ Sent

\* What every write does: an object stays or gets a version that nothing had.
Grown ==
  /\ rev <= rev'
  /\ \A c \in Cluster : obj'[c] # Nil =>
       /\ obj'[c].rev <= rev'
       /\ obj'[c].content = intended'[c]
       /\ obj'[c] = obj[c] \/ obj'[c].rev > rev

\* At first the client holds nothing.
LEMMA InitVersions == Init => Versions
  BY Zenon DEF Init, Versions, Intended, Cached, Listed, ToUpdate, ToSend, Sent, NoItems

\* Copies stay copies, and what may be sent may still be sent.
LEMMA GrownKeeps ==
  ASSUME Typed, Typed', Grown, NEW c \in Cluster
  PROVE  /\ \A o \in Object : CopyOf(c, o) => CopyOf(c, o)'
         /\ \A n \in Nat : cache'[c] = cache[c] /\ Sendable(c, n) => Sendable(c, n)'
<1>1. rev \in Nat /\ rev' \in Nat
  BY Zenon DEF Typed, ClientTypeOK
<1>2. obj[c] # Nil => obj[c].rev \in Nat
  BY Zenon DEF Typed, ClientTypeOK, Object
<1>3. obj'[c] # Nil => obj'[c].rev \in Nat
  BY Zenon DEF Typed, ClientTypeOK, Object
<1>4. \A o \in Object : o.rev \in Nat
  BY Zenon DEF Object
<1>5. ASSUME NEW o \in Object, CopyOf(c, o) PROVE CopyOf(c, o)'
  BY <1>1, <1>2, <1>3, <1>4, <1>5 DEF CopyOf, Grown
<1>6. ASSUME NEW n \in Nat, cache'[c] = cache[c], Sendable(c, n) PROVE Sendable(c, n)'
  BY <1>1, <1>2, <1>3, <1>6 DEF Sendable, Grown, NeedsCA
<1> QED
  BY <1>5, <1>6, Zenon

\* A write by anyone but the worker keeps the invariant, if the requests of
\* the webhook hold no new copies.
LEMMA GrownVersions ==
  ASSUME Typed, Typed', Versions, Grown, UNCHANGED <<cache, reconcilerVars>>,
         \A r \in Request, c \in Cluster :
           items'[r][c] # Nil => items'[r][c] \in {items[r][c], cache[c]}
  PROVE  Versions'
<1> USE DEF reconcilerVars
<1>1. ASSUME NEW c \in Cluster, cache[c] # Nil PROVE CopyOf(c, cache[c])'
  BY <1>1, GrownKeeps, Zenon DEF Versions, Cached, Typed, ClientTypeOK
<1>3. ASSUME NEW r \in Request, NEW c \in Cluster, items'[r][c] # Nil
      PROVE  CopyOf(c, items[r][c])'
  <2>1. CASE items'[r][c] = cache[c]
    BY <1>1, <1>3, <2>1, Zenon DEF CopyOf
  <2>2. CASE items'[r][c] = items[r][c]
    <3>1. items[r][c] \in Object /\ CopyOf(c, items[r][c])
      <4>1. items[r][c] \in Object \cup {Nil}
        BY DEF Typed, ClientTypeOK
      <4> QED
        BY <1>3, <2>2, <4>1, Zenon DEF Versions, Listed
    <3>2. \A o \in Object : CopyOf(c, o) => CopyOf(c, o)'
      BY GrownKeeps, Zenon
    <3> QED
      BY <2>2, <3>1, <3>2, Zenon DEF CopyOf
  <2> QED
    BY <1>3, <2>1, <2>2, Zenon
<1>4. pc' = "update" => CopyOf(name, instance)' /\ NeedsCA(instance)'
                        /\ (cache'[name'] # Nil => instance'.rev <= cache'[name'].rev)
  BY GrownKeeps, Zenon DEF Versions, ToUpdate, Typed, CopyOf, NeedsCA
<1>5. pc' = "enqueue" => /\ Sendable(name, instance.rev)'
                         /\ last'[name'] # Nil => last'[name'].rev <= instance'.rev
  BY GrownKeeps, Zenon DEF Versions, ToSend, Typed, Object, Sendable, NeedsCA
<1>6. ASSUME NEW c \in Cluster, last'[c] # Nil PROVE Sendable(c, last[c].rev)'
  BY <1>6, GrownKeeps, Zenon DEF Versions, Sent, Typed, ClientTypeOK, Message, Sendable, NeedsCA
<1>7. \A c \in Cluster : obj'[c] # Nil => obj'[c].rev <= rev' /\ obj'[c].content = intended'[c]
  BY Zenon DEF Grown
<1> QED
  BY <1>1, <1>3, <1>4, <1>5, <1>6, <1>7, Zenon DEF Versions, Intended, Cached, Listed,
     ToUpdate, ToSend, Sent, CopyOf, Sendable

\* Storing the intended content of an object is such a write.
LEMMA StoreGrown ==
  ASSUME Typed, Versions, NEW c \in Cluster, NEW o \in Object, Store(c, o),
         intended' = [intended EXCEPT ![c] = o.content]
  PROVE  Grown
<1>1. /\ obj \in [Cluster -> Object \cup {Nil}] /\ rev \in Nat
      /\ intended \in [Cluster -> Content \cup {Nil}]
  BY Zenon DEF Typed, ClientTypeOK
<1>2. /\ obj'[c] \in Object
      /\ obj'[c].content = o.content
      /\ \A d \in Cluster : d # c => obj'[d] = obj[d]
      /\ \/ UNCHANGED <<obj, rev>>
         \/ rev' = rev + 1 /\ obj'[c].rev = rev + 1
  BY <1>1, Stored, Zenon
<1>3. \A d \in Cluster : obj[d] # Nil => obj[d].rev \in Nat
  BY <1>1, Zenon DEF Object
<1>4. intended'[c] = o.content /\ \A d \in Cluster : d # c => intended'[d] = intended[d]
  BY <1>1, Zenon
<1>5. CASE UNCHANGED <<obj, rev>>
  BY <1>1, <1>2, <1>3, <1>4, <1>5 DEF Grown, Versions, Intended
<1>6. CASE rev' = rev + 1 /\ obj'[c].rev = rev + 1
  BY <1>1, <1>2, <1>3, <1>4, <1>6 DEF Grown, Versions, Intended
<1> QED
  BY <1>2, <1>5, <1>6, Zenon

\* So is storing an object with another content.
LEMMA UpdateGrown ==
  ASSUME Typed, Versions, NEW c \in Cluster, NEW o \in Object,
         NEW x \in Content, Store(c, [o EXCEPT !.content = x]),
         intended' = [intended EXCEPT ![c] = x]
  PROVE  Grown
<1> DEFINE n == [o EXCEPT !.content = x]
<1>1. n \in Object /\ n.content = x
  BY Zenon DEF Object
<1> HIDE DEF n
<1>2. Store(c, n)
  BY Zenon DEF n
<1> QED
  BY <1>1, <1>2, StoreGrown, Zenon

\* The content of a current copy is the intended one.
LEMMA CurrentIntended ==
  ASSUME Versions, NEW c \in Cluster, NEW o, CopyOf(c, o), Current(c, o)
  PROVE  o = obj[c] /\ o.content = intended[c]
  BY Zenon DEF Versions, Intended, CopyOf, Current

\* A step that writes no object is a write in this sense, too.
LEMMA QuietGrown ==
  ASSUME Typed, Versions, UNCHANGED apiVars
  PROVE  Grown
<1>1. rev \in Nat /\ UNCHANGED <<obj, rev, intended>>
  BY Zenon DEF Typed, ClientTypeOK, apiVars
<1> QED
  BY <1>1 DEF Versions, Intended, Grown

\* Writes by others than the client keep the invariant.
LEMMA OthersVersions == Typed /\ Typed' /\ Versions /\ Others => Versions'
<1> SUFFICES ASSUME Typed, Typed', Versions, Others PROVE Versions'
  OBVIOUS
<1>0. ASSUME Grown, UNCHANGED <<cache, reconcilerVars, items>> PROVE Versions'
  BY <1>0, GrownVersions, Zenon
<1>1. ASSUME NEW c \in Cluster, NEW a \in Annotations, Apply(c, a) PROVE Versions'
  <2> DEFINE new == [ca |-> FALSE, tags |-> [k \in Tag |-> Nil],
                     services |-> [f \in Field |-> Nil],
                     skipCA |-> FALSE, excluded |-> {}]
             content == IF obj[c] # Nil THEN obj[c].content ELSE new
             o == [rev |-> 0, content |-> WithAnnotation(content, a),
                   quiet |-> a.quiet, hash |-> Nil]
  <2>1. a \in Annotation /\ a.quiet \in BOOLEAN
    BY ClientAssumption, Zenon DEF Annotation
  <2>2. new \in Content
    BY Zenon DEF Content, Tags
  <2>3. content \in Content
    BY <2>2, Zenon DEF Typed, ClientTypeOK, Object
  <2>4. WithAnnotation(content, a) \in Content
    BY <2>1, <2>3, ChangedContent, Zenon
  <2>5. o \in Object /\ o.content = WithAnnotation(content, a)
    BY <2>1, <2>4, Zenon DEF Object
  <2>6. (IF obj[c] # Nil THEN intended[c] ELSE content) = content
    BY Zenon DEF Versions, Intended
  <2>7. Store(c, o) /\ intended' = [intended EXCEPT ![c] = o.content]
    BY <1>1, <2>6, Zenon DEF Apply
  <2>8. Grown
    <3> HIDE DEF o
    <3> QED
      BY <2>5, <2>7, StoreGrown, Zenon
  <2>9. UNCHANGED <<cache, reconcilerVars, items>>
    BY <1>1, Zenon DEF Apply, webhookVars
  <2> QED
    BY <1>0, <2>8, <2>9, Zenon
<1>2. ASSUME NEW c \in Cluster, Delete(c) PROVE Versions'
  <2>1. Grown
    <3>1. rev \in Nat /\ rev' = rev
      BY <1>2, Zenon DEF Delete, Typed, ClientTypeOK
    <3>2. /\ obj'[c] = Nil
          /\ \A d \in Cluster : d # c => obj'[d] = obj[d] /\ intended'[d] = intended[d]
      BY <1>2, Zenon DEF Delete, Typed, ClientTypeOK
    <3> QED
      BY <3>1, <3>2 DEF Grown, Versions, Intended
  <2> QED
    BY <1>0, <1>2, <2>1, Zenon DEF Delete, webhookVars
<1>3. ASSUME NEW c \in Cluster, NEW k \in Tag, NEW v \in Value, PatchCluster(c, k, v)
      PROVE  Versions'
  <2>1. obj[c] \in Object /\ obj[c].content \in Content /\ obj[c].content = intended[c]
    BY <1>3 DEF PatchCluster, Patch, Typed, ClientTypeOK, Object, Versions, Intended
  <2>2. WithTag(obj[c].content, k, v) \in Content
    BY <2>1, ChangedContent, Zenon
  <2>4. /\ Store(c, [obj[c] EXCEPT !.content = WithTag(obj[c].content, k, v)])
        /\ intended' = [intended EXCEPT ![c] = WithTag(obj[c].content, k, v)]
    BY <1>3, <2>1, Zenon DEF PatchCluster, Patch
  <2>5. Grown
    BY <2>1, <2>2, <2>4, UpdateGrown, Zenon
  <2> QED
    BY <1>0, <1>3, <2>5, Zenon DEF PatchCluster, webhookVars
<1>4. ASSUME NEW f \in Field, NEW v \in Value \cup {Nil}, ChangeSource(f, v)
      PROVE  Versions'
  BY <1>0, <1>4, QuietGrown, Zenon DEF ChangeSource, webhookVars
<1> QED
  BY <1>1, <1>2, <1>3, <1>4, Zenon DEF Others

\* The Update of ClusterReconciler is a write of the intended content.
LEMMA CAGrown ==
  ASSUME Typed, Versions, pc = "update",
         Store(name, [instance EXCEPT !.content = WithCA(instance.content)]),
         Current(name, instance),
         intended' = [intended EXCEPT ![name] = WithCA(intended[name])]
  PROVE  /\ Grown
         /\ obj'[name] \in Object
         /\ obj'[name].rev >= obj[name].rev
         /\ instance = obj[name]
<1>1. name \in Cluster /\ instance \in Object
  BY Zenon DEF Typed
<1>2. instance = obj[name] /\ instance.content = intended[name]
  BY <1>1, CurrentIntended, Zenon DEF Versions, ToUpdate
<1>3. instance.content \in Content /\ WithCA(instance.content) \in Content
  BY <1>1, ChangedContent, Zenon DEF Object
<1>4. Grown
  BY <1>1, <1>2, <1>3, UpdateGrown, Zenon
<1>5. obj'[name] \in Object /\ rev \in Nat
  BY <1>1, CATyped, Zenon DEF Typed, ClientTypeOK
<1>6. obj'[name] = obj[name] \/ obj'[name].rev > rev
  BY <1>1, <1>4, <1>5, ClientAssumption, Zenon DEF Grown
<1>7. obj[name].rev <= rev /\ obj[name].rev \in Nat /\ obj'[name].rev \in Nat
  BY <1>1, <1>2, <1>5, ClientAssumption, Zenon DEF Versions, Intended, Object
<1> QED
  BY <1>2, <1>4, <1>5, <1>6, <1>7

\* A write of the worker keeps what the others hold, and what was sent.
LEMMA CopiesKept ==
  ASSUME Typed, Typed', Versions, Grown, UNCHANGED <<cache, items, last>>
  PROVE  /\ \A c \in Cluster : cache'[c] # Nil => CopyOf(c, cache[c])'
         /\ \A r \in Request, c \in Cluster : items'[r][c] # Nil => CopyOf(c, items[r][c])'
         /\ \A c \in Cluster : last'[c] # Nil => Sendable(c, last[c].rev)'
         /\ \A c \in Cluster : obj'[c] # Nil => obj'[c].rev <= rev' /\ obj'[c].content = intended'[c]
<1>1. ASSUME NEW c \in Cluster, cache'[c] # Nil PROVE CopyOf(c, cache[c])'
  <2>1. cache[c] \in Object /\ CopyOf(c, cache[c])
    BY <1>1, Zenon DEF Versions, Cached, Typed, ClientTypeOK
  <2>2. \A o \in Object : CopyOf(c, o) => CopyOf(c, o)'
    BY GrownKeeps, Zenon
  <2> QED
    BY <2>1, <2>2, Zenon DEF CopyOf
<1>2. ASSUME NEW r \in Request, NEW c \in Cluster, items'[r][c] # Nil
      PROVE  CopyOf(c, items[r][c])'
  <2>1. items[r][c] \in Object /\ CopyOf(c, items[r][c])
    <3>1. items[r][c] \in Object \cup {Nil}
      BY DEF Typed, ClientTypeOK
    <3> QED
      BY <1>2, <3>1, Zenon DEF Versions, Listed
  <2>2. \A o \in Object : CopyOf(c, o) => CopyOf(c, o)'
    BY GrownKeeps, Zenon
  <2> QED
    BY <2>1, <2>2, Zenon DEF CopyOf
<1>3. ASSUME NEW c \in Cluster, last'[c] # Nil PROVE Sendable(c, last[c].rev)'
  BY <1>3, GrownKeeps, Zenon DEF Versions, Sent, Typed, ClientTypeOK, Message, Sendable, NeedsCA
<1> QED
  BY <1>1, <1>2, <1>3, Zenon DEF Grown

\* A step of the worker that ends the reconcile keeps the invariant.
LEMMA DoneVersions ==
  ASSUME Typed, Typed', Versions, Grown, pc' = "idle", UNCHANGED <<cache, items, last>>
  PROVE  Versions'
  BY CopiesKept, Zenon DEF Versions, Intended, Cached, Listed, ToUpdate, ToSend, Sent

\* So does every step of the worker of ClusterReconciler.
LEMMA ReconcilerVersions == Typed /\ Typed' /\ Versions /\ Reconciler => Versions'
<1> SUFFICES ASSUME Typed, Typed', Versions, Reconciler PROVE Versions'
  OBVIOUS
<1> USE DEF webhookVars
<1>t. /\ rev \in Nat
      /\ \A c \in Cluster : obj[c] # Nil => obj[c].rev \in Nat
      /\ \A c \in Cluster : cache[c] # Nil => cache[c].rev \in Nat
      /\ \A c \in Cluster : last[c] # Nil => last[c].rev \in Nat
      /\ pc # "idle" => instance.rev \in Nat /\ name \in Cluster
  BY Zenon DEF Typed, ClientTypeOK, Object, Message
<1>1. ASSUME NEW c \in Cluster, Observe(c) PROVE Versions'
  <2>1. cache' = [cache EXCEPT ![c] = obj[c]] /\ cache'[c] = obj[c]
        /\ \A d \in Cluster : d # c => cache'[d] = cache[d]
    BY <1>1, Zenon DEF Observe, Typed, ClientTypeOK
  <2>2. UNCHANGED <<obj, rev, intended, pc, name, instance, last, items>>
    BY <1>1, Zenon DEF Observe, apiVars
  <2>3. \A d \in Cluster : cache'[d] # Nil => CopyOf(d, cache[d])'
    BY <1>t, <2>1, <2>2 DEF Versions, Intended, Cached, CopyOf
  <2>4. ASSUME NEW d \in Cluster, NEW n \in Nat, Sendable(d, n) PROVE Sendable(d, n)'
    BY <1>t, <2>1, <2>2, <2>4, Zenon DEF Sendable, NeedsCA
  <2>5. pc' = "update" => /\ CopyOf(name, instance)' /\ NeedsCA(instance)'
                          /\ (cache'[name'] # Nil => instance'.rev <= cache'[name'].rev)
    BY <1>t, <2>1, <2>2, Zenon DEF Versions, Intended, ToUpdate, CopyOf, NeedsCA
  <2>6. pc' = "enqueue" => /\ Sendable(name, instance.rev)'
                           /\ last'[name'] # Nil => last'[name'].rev <= instance'.rev
    BY <1>t, <2>2, <2>4, Zenon DEF Versions, ToSend, Sendable, NeedsCA
  <2>7. \A d \in Cluster : last'[d] # Nil => Sendable(d, last[d].rev)'
    BY <1>t, <2>2, <2>4, Zenon DEF Versions, Sent, Sendable, NeedsCA
  <2> QED
    BY <2>2, <2>3, <2>5, <2>6, <2>7, Zenon DEF Versions, Intended, Cached, Listed, ToUpdate,
       ToSend, Sent, CopyOf
<1>2. ASSUME NEW c \in Cluster, Resync(c) PROVE Versions'
  BY <1>2, Zenon DEF Resync, apiVars, Versions, Intended, Cached, Listed, ToUpdate, ToSend,
     Sent, CopyOf, Sendable, NeedsCA
<1>3. ASSUME NEW c \in Cluster, Reconcile(c) PROVE Versions'
  <2>0. UNCHANGED <<obj, rev, intended, cache, last, items>>
    BY <1>3, Zenon DEF Reconcile, apiVars
  <2>1. CASE cache[c] = Nil
    BY <1>3, <2>0, <2>1 DEF Reconcile, Versions, Intended, Cached, Listed, ToUpdate,
       ToSend, Sent, CopyOf, Sendable, NeedsCA
  <2>2. CASE cache[c] # Nil
    <3>1. name' = c /\ instance' = cache[c]
          /\ pc' = IF NeedsCA(cache[c]) THEN "update" ELSE "enqueue"
      BY <1>3, <2>2, Zenon DEF Reconcile, NeedsCA
    <3>2. CopyOf(c, cache[c])
      BY <2>2, Zenon DEF Versions, Cached
    <3>3. CASE NeedsCA(cache[c])
      <4>1. CopyOf(name, instance)' /\ NeedsCA(instance)' /\ instance'.rev <= cache'[name'].rev
        <5>1. cache[c].rev \in Nat
          BY <1>t, <2>2, Zenon
        <5> QED
          BY <2>0, <3>1, <3>2, <3>3, <5>1 DEF CopyOf, NeedsCA
      <4> QED
        BY <2>0, <3>1, <3>3, <4>1, Zenon DEF Versions, Intended, Cached, Listed, ToUpdate,
           ToSend, Sent, CopyOf, Sendable, NeedsCA
    <3>4. CASE ~NeedsCA(cache[c])
      <4>1. Sendable(name, instance.rev)'
        <5>1. cache[c].rev \in Nat
          BY <1>t, <2>2, Zenon
        <5> QED
          BY <2>0, <3>1, <3>2, <5>1 DEF Sendable, CopyOf, NeedsCA
      <4>2. last'[name'] # Nil => last'[name'].rev <= instance'.rev
        BY <2>0, <2>2, <3>1, <3>4, Zenon DEF Versions, Sent, Sendable
      <4> QED
        BY <2>0, <3>1, <3>4, <4>1, <4>2, Zenon DEF Versions, Intended, Cached, Listed,
           ToUpdate, ToSend, Sent, CopyOf, Sendable, NeedsCA
    <3> QED
      BY <3>3, <3>4, Zenon
  <2> QED
    BY <2>1, <2>2, Zenon
<1>4. CASE UpdateCA
  <2>1. /\ Grown
        /\ obj'[name] \in Object
        /\ obj'[name].rev >= obj[name].rev
        /\ instance = obj[name]
    BY <1>4, CAGrown, Zenon DEF UpdateCA
  <2>2. /\ UNCHANGED <<cache, name, last, items>>
        /\ pc = "update" /\ pc' = "enqueue" /\ instance' = obj'[name]
    BY <1>4, Zenon DEF UpdateCA
  <2>3. name \in Cluster /\ instance \in Object /\ obj'[name].rev \in Nat
    BY <2>1, <2>2, Zenon DEF Typed, Object
  <2>4. obj[name] # Nil
    BY <2>1, <2>3, ClientAssumption, Zenon
  <2>5. cache[name] # Nil => NeedsCA(cache[name])
    <3> SUFFICES ASSUME cache[name] # Nil PROVE NeedsCA(cache[name])
      OBVIOUS
    <3>1. cache[name].rev = obj[name].rev
      <4>1. cache[name].rev \in Nat /\ obj[name].rev \in Nat
        BY <1>t, <2>3, <2>4, Zenon
      <4>2. cache[name].rev <= obj[name].rev
        BY <2>3, <2>4, Zenon DEF Versions, Cached, CopyOf
      <4>3. obj[name].rev <= cache[name].rev
        BY <2>1, <2>2, Zenon DEF Versions, ToUpdate
      <4> QED
        BY <4>1, <4>2, <4>3
    <3>2. cache[name] = instance
      BY <2>1, <2>3, <2>4, <3>1, Zenon DEF Versions, Cached, CopyOf
    <3> QED
      BY <2>2, <3>2, Zenon DEF Versions, ToUpdate
  <2>6. Sendable(name, instance.rev)'
    <3>1. obj'[name] # Nil
      BY <2>1, ClientAssumption, Zenon
    <3>2. obj'[name].rev <= rev'
      BY <2>1, <2>3, <3>1, Zenon DEF Grown
    <3> QED
      BY <2>2, <2>3, <2>5, <3>2 DEF Sendable, NeedsCA
  <2>7. last'[name'] # Nil => last'[name'].rev <= instance'.rev
    <3> SUFFICES ASSUME last[name] # Nil PROVE last[name].rev <= obj'[name].rev
      BY <2>2, Zenon
    <3>1. last[name].rev \in Nat /\ obj[name].rev \in Nat
      BY <1>t, <2>3, <2>4, Zenon
    <3>2. last[name].rev <= obj[name].rev
      BY <2>3, <2>4, Zenon DEF Versions, Sent, Sendable
    <3> QED
      BY <2>1, <2>3, <3>1, <3>2
  <2>8. /\ \A c \in Cluster : cache'[c] # Nil => CopyOf(c, cache[c])'
        /\ \A r \in Request, c \in Cluster : items'[r][c] # Nil => CopyOf(c, items[r][c])'
        /\ \A c \in Cluster : last'[c] # Nil => Sendable(c, last[c].rev)'
        /\ \A c \in Cluster : obj'[c] # Nil => obj'[c].rev <= rev' /\ obj'[c].content = intended'[c]
    BY <2>1, <2>2, CopiesKept, Zenon
  <2> QED
    BY <2>2, <2>6, <2>7, <2>8, Zenon DEF Versions, Intended, Cached, Listed, ToUpdate, ToSend,
       Sent
<1>5. CASE UpdateCAConflict
  BY <1>5, QuietGrown, DoneVersions, Zenon DEF UpdateCAConflict, Done
<1>6. CASE UpdateCAError
  <2>1. Grown
    <3>1. CASE UNCHANGED apiVars
      BY <3>1, QuietGrown, Zenon
    <3>2. CASE ~UNCHANGED apiVars
      BY <1>6, <3>2, CAGrown, Zenon DEF UpdateCAError
    <3> QED
      BY <3>1, <3>2, Zenon
  <2> QED
    BY <1>6, <2>1, DoneVersions, Zenon DEF UpdateCAError, Done
<1>7. CASE Enqueue \/ EnqueueRefused \/ EnqueueError
  <2>1. /\ UNCHANGED <<obj, rev, intended, cache, items>>
        /\ pc = "enqueue" /\ pc' = "idle"
    BY <1>7, Zenon DEF Enqueue, EnqueueRefused, EnqueueError, Done, apiVars
  <2>2. CASE UNCHANGED last
    BY <2>1, <2>2, QuietGrown, DoneVersions, Zenon DEF apiVars
  <2>3. CASE Send
    <3>1. last'[name].rev = instance.rev /\ \A c \in Cluster : c # name => last'[c] = last[c]
      BY <1>t, <2>1, <2>3, Zenon DEF Send, Typed, ClientTypeOK
    <3>2. \A c \in Cluster : last'[c] # Nil => Sendable(c, last'[c].rev)
      BY <2>1, <3>1, Zenon DEF Versions, ToSend, Sent
    <3> QED
      BY <2>1, <3>2, Zenon DEF Versions, Intended, Cached, Listed, ToUpdate, ToSend, Sent,
         CopyOf, Sendable, NeedsCA
  <2> QED
    BY <1>7, <2>2, <2>3, Zenon DEF Enqueue, EnqueueRefused, EnqueueError
<1> QED
  BY <1>1, <1>2, <1>3, <1>4, <1>5, <1>6, <1>7, Zenon DEF Reconciler

\* A request of the webhook lists copies, and writes what is intended.
LEMMA WebhookVersions ==
  \A r \in Request : Typed /\ Typed' /\ Versions /\ Webhook(r) => Versions'
<1> SUFFICES ASSUME NEW r \in Request, Typed, Typed', Versions, Webhook(r) PROVE Versions'
  OBVIOUS
<1>0. ASSUME Answer(r) \/ Retry(r)
      PROVE  \A q \in Request, c \in Cluster : items'[q][c] # Nil => items'[q][c] = items[q][c]
  <2>1. items' = [items EXCEPT ![r] = NoItems]
    BY <1>0, Zenon DEF Answer, Retry
  <2> QED
    BY <2>1, Zenon DEF Typed, ClientTypeOK, NoItems
<1>1. ASSUME NEW c \in Cluster, hpc[r] = "update", items[r][c] # Nil, StoreTags(r, c)
      PROVE  Grown
  <2> DEFINE o == items[r][c]
  <2>1. o \in Object /\ tag[r] \in Tags /\ CopyOf(c, o)
    <3>1. o \in Object \cup {Nil}
      BY DEF Typed, ClientTypeOK
    <3>2. tag[r] \in Tags
      BY <1>1, Zenon DEF Typed
    <3> QED
      BY <1>1, <3>1, <3>2, Zenon DEF Versions, Listed
  <2>2. Current(c, o)
    BY <1>1, Zenon DEF StoreTags
  <2>3. o.content = intended[c]
    BY <2>1, <2>2, CurrentIntended, Zenon
  <2>4. WithTags(o.content, tag[r]) \in Content
    BY <2>1, ChangedContent, Zenon DEF Object
  <2>5. /\ Store(c, [o EXCEPT !.content = WithTags(o.content, tag[r])])
        /\ intended' = [intended EXCEPT ![c] = WithTags(o.content, tag[r])]
    BY <1>1, <2>3, Zenon DEF StoreTags
  <2> HIDE DEF o
  <2> QED
    BY <2>1, <2>4, <2>5, UpdateGrown, Zenon
<1>2. ASSUME NEW a \in Alert, Process(r, a) PROVE Versions'
  BY <1>2, QuietGrown, GrownVersions, Zenon DEF Process, webhookVars
<1>3. CASE List(r)
  <2>1. CASE Answer(r)
    BY <1>0, <1>3, <2>1, QuietGrown, GrownVersions, Zenon DEF List
  <2>2. CASE ~Answer(r)
    <3>1. items' = [items EXCEPT ![r] = cache]
      BY <1>3, <2>2, Zenon DEF List
    <3>2. \A q \in Request, c \in Cluster :
            items'[q][c] # Nil => items'[q][c] \in {items[q][c], cache[c]}
      BY <3>1, Zenon DEF Typed, ClientTypeOK
    <3> QED
      BY <1>3, <3>2, QuietGrown, GrownVersions, Zenon DEF List
  <2> QED
    BY <2>1, <2>2, Zenon
<1>4. ASSUME NEW c \in Cluster, UpdateTags(r, c) PROVE Versions'
  <2>1. Grown /\ UNCHANGED <<cache, reconcilerVars>>
    BY <1>1, <1>4, Zenon DEF UpdateTags
  <2>2. CASE Answer(r)
    BY <1>0, <2>1, <2>2, GrownVersions, Zenon
  <2>3. CASE ~Answer(r)
    <3>1. items' = [items EXCEPT ![r] = [items[r] EXCEPT ![c] = Nil]]
      BY <1>4, <2>3, Zenon DEF UpdateTags
    <3>2. \A q \in Request, d \in Cluster : items'[q][d] # Nil => items'[q][d] = items[q][d]
      BY <3>1, Zenon DEF Typed, ClientTypeOK
    <3> QED
      BY <2>1, <3>2, GrownVersions, Zenon
  <2> QED
    BY <2>2, <2>3, Zenon
<1>5. ASSUME NEW c \in Cluster, UpdateTagsConflict(r, c) PROVE Versions'
  BY <1>0, <1>5, QuietGrown, GrownVersions, Zenon DEF UpdateTagsConflict
<1>6. ASSUME NEW c \in Cluster, UpdateTagsError(r, c) PROVE Versions'
  <2>1. Grown
    BY <1>1, <1>6, QuietGrown, Zenon DEF UpdateTagsError
  <2> QED
    BY <1>0, <1>6, <2>1, GrownVersions, Zenon DEF UpdateTagsError
<1>7. CASE ListError(r)
  BY <1>0, <1>7, QuietGrown, GrownVersions, Zenon DEF ListError
<1> QED
  BY <1>2, <1>3, <1>4, <1>5, <1>6, <1>7, Zenon DEF Webhook

\* A patch of a watcher goes to the object as it is, of which it holds no copy.
LEMMA WatcherVersions ==
  \A w \in Watcher : Typed /\ Typed' /\ Versions /\ MetadataWatcher(w) => Versions'
<1> SUFFICES ASSUME NEW w \in Watcher, Typed, Typed', Versions, MetadataWatcher(w)
             PROVE  Versions'
  OBVIOUS
<1> USE DEF webhookVars
<1>0. ASSUME Grown, UNCHANGED <<cache, reconcilerVars, items>> PROVE Versions'
  BY <1>0, GrownVersions, Zenon
<1>1. ASSUME NEW c \in Cluster, NEW f \in Field, <<c, f>> \in pending[w], StoreService(w, c, f)
      PROVE  Grown
  <2>1. obj[c] \in Object /\ obj[c].content \in Content /\ obj[c].content = intended[c]
    BY <1>1 DEF StoreService, Patch, Typed, ClientTypeOK, Object, Versions, Intended
  <2>2. patches[w] \in [Field -> Value \cup {Nil}]
    BY <1>1, Zenon DEF Typed, ClientTypeOK
  <2> DEFINE x == WithService(obj[c].content, f, patches[w][f])
  <2>3. x \in Content
    BY <2>1, <2>2, ChangedContent, Zenon
  <2>4. /\ Store(c, [obj[c] EXCEPT !.content = x])
        /\ intended' = [intended EXCEPT ![c] = x]
    BY <1>1, <2>1, Zenon DEF StoreService, Patch
  <2> HIDE DEF x
  <2> QED
    BY <2>1, <2>3, <2>4, UpdateGrown, Zenon
<1>2. CASE Notify(w)
  BY <1>0, <1>2, QuietGrown, Zenon DEF Notify
<1>3. CASE ReconcileWatcher(w)
  BY <1>0, <1>3, QuietGrown, Zenon DEF ReconcileWatcher
<1>4. ASSUME NEW c \in Cluster, NEW f \in Field, ApplyPatch(w, c, f) PROVE Versions'
  BY <1>0, <1>1, <1>4, Zenon DEF ApplyPatch
<1>5. ASSUME NEW c \in Cluster, NEW f \in Field, ApplyPatchGone(w, c, f) PROVE Versions'
  BY <1>0, <1>5, QuietGrown, Zenon DEF ApplyPatchGone
<1>6. ASSUME NEW c \in Cluster, NEW f \in Field, ApplyPatchError(w, c, f) PROVE Versions'
  BY <1>0, <1>1, <1>6, QuietGrown, Zenon DEF ApplyPatchError
<1> QED
  BY <1>2, <1>3, <1>4, <1>5, <1>6, Zenon DEF MetadataWatcher

\* Every step of the client and of its surroundings keeps the invariant.
LEMMA NextVersions == Typed /\ Typed' /\ Versions /\ [Next]_vars => Versions'
<1> SUFFICES ASSUME Typed, Typed', Versions, [Next]_vars PROVE Versions'
  OBVIOUS
<1>1. CASE Restart
  <2>1. /\ UNCHANGED <<obj, rev, intended, last>>
        /\ cache' = obj /\ pc' = "idle" /\ items' = [r \in Request |-> NoItems]
    BY <1>1, Zenon DEF Restart, apiVars
  <2>2. \A c \in Cluster : obj[c] # Nil => obj[c].rev \in Nat
    BY Zenon DEF Typed, ClientTypeOK, Object
  <2>3. \A c \in Cluster : cache'[c] # Nil => CopyOf(c, cache[c])'
    BY <2>1, <2>2 DEF CopyOf, Versions, Intended
  <2>4. \A c \in Cluster : last'[c] # Nil => Sendable(c, last[c].rev)'
    BY <2>1, Zenon DEF Sendable, Versions, Sent
  <2>5. \A r \in Request, c \in Cluster : items'[r][c] = Nil
    BY <2>1, Zenon DEF NoItems
  <2> QED
    BY <2>1, <2>3, <2>4, <2>5, Zenon DEF Versions, Intended, Cached, Listed, ToUpdate, ToSend,
       Sent
<1>2. CASE UNCHANGED vars
  BY <1>2, Zenon DEF vars, apiVars, reconcilerVars, webhookVars, Versions, Intended, Cached,
     Listed, ToUpdate, ToSend, Sent, CopyOf, Sendable, NeedsCA
<1> QED
  BY <1>1, <1>2, OthersVersions, ReconcilerVersions, WebhookVersions, WatcherVersions, Zenon
  DEF Next

\* Types and versions, together, always hold.
LEMMA AlwaysVersions == Spec => [](Typed /\ Versions)
  BY AlwaysTyped, InitVersions, NextVersions, PTL DEF Spec

-----------------------------------------------------------------------------

\* Every variable of the client always has its type.
THEOREM ClientTypeCorrect == Spec => []ClientTypeOK
<1>1. Typed => ClientTypeOK
  BY Zenon DEF Typed
<1> QED
  BY <1>1, InitTyped, NextTyped, PTL DEF Spec

\* No writer of the client undoes an acknowledged write of another one, a user
\* or the PATCH route, whatever it had cached when it wrote.
THEOREM NothingUndone == Spec => []NoWriteUndone
<1>1. Versions => NoWriteUndone
  BY Zenon DEF Versions, Intended, NoWriteUndone
<1> QED
  BY <1>1, AlwaysVersions, PTL

\* The versions of an object are sent in order, although the cache that they
\* are read from may be older than the last message.
THEOREM SentInOrder == Spec => AnnouncedInOrder
<1>1. ASSUME Typed, Versions, [Next]_vars, NEW c \in Cluster, last[c] # Nil
      PROVE  last'[c].rev >= last[c].rev
  <2>1. last[c].rev \in Nat
    BY <1>1, Zenon DEF Typed, ClientTypeOK, Message
  <2>2. CASE pc = "enqueue" /\ Send
    <3>1. name \in Cluster /\ instance.rev \in Nat
      BY <1>1, <2>2, Zenon DEF Typed, Object
    <3>2. last'[name].rev = instance.rev /\ (c # name => last'[c] = last[c])
      BY <1>1, <2>2, <3>1, Zenon DEF Send, Typed, ClientTypeOK
    <3> QED
      <4>1. CASE c = name
        BY <1>1, <2>2, <3>2, <4>1, Zenon DEF Versions, ToSend
      <4>2. CASE c # name
        BY <2>1, <3>2, <4>2
      <4> QED
        BY <4>1, <4>2, Zenon
  <2>3. CASE UNCHANGED last
    BY <2>1, <2>3
  <2>4. (pc = "enqueue" /\ Send) \/ UNCHANGED last
    BY <1>1, Zenon DEF Next, Others, Apply, Delete, PatchCluster, ChangeSource, Reconciler,
       Observe,
       Resync, Reconcile, UpdateCA, UpdateCAConflict, UpdateCAError, Enqueue, EnqueueRefused,
       EnqueueError, Webhook, Process, List, ListError, UpdateTags, UpdateTagsConflict, UpdateTagsError,
       MetadataWatcher, Notify, ReconcileWatcher, ApplyPatch, ApplyPatchGone, ApplyPatchError,
       Restart, vars, reconcilerVars
  <2> QED
    BY <2>2, <2>3, <2>4, Zenon
<1>2. Typed /\ Versions /\ [Next]_vars
        => [\A c \in Cluster : last[c] # Nil => last'[c].rev >= last[c].rev]_vars
  BY <1>1, Zenon
<1> QED
  BY <1>2, AlwaysVersions, PTL DEF Spec, AnnouncedInOrder

\* A step that stores content x in object d changes no excluded tag if x
\* leaves the excluded tags of d as they are.
LEMMA StoreExcluded ==
  ASSUME Typed, NEW d \in Cluster, NEW o \in Object, NEW x \in Content,
         Store(d, [o EXCEPT !.content = x]),
         \A k \in obj[d].content.excluded : x.tags[k] = obj[d].content.tags[k],
         NEW c \in Cluster, NEW k \in Tag, k \in obj[c].content.excluded
  PROVE  obj'[c].content.tags[k] = obj[c].content.tags[k]
<1> DEFINE n == [o EXCEPT !.content = x]
<1>1. n \in Object /\ n.content = x
  BY Zenon DEF Object
<1>2. obj \in [Cluster -> Object \cup {Nil}] /\ rev \in Nat
  BY Zenon DEF Typed, ClientTypeOK
<1>3. obj'[d].content = x /\ (c # d => obj'[c] = obj[c])
  <2> HIDE DEF n
  <2>1. Store(d, n)
    BY Zenon DEF n
  <2> QED
    BY <1>1, <1>2, <2>1, Stored, Zenon
<1> QED
  BY <1>3, Zenon

\* The client leaves the tags alone that an object excludes, also when the
\* annotation is set while an alert is being processed.
THEOREM ExcludedStay == Spec => ExcludedUntouched
<1> DEFINE Body(c, k) ==
      \/ obj'[c].content.tags[k] = obj[c].content.tags[k]
      \/ \E v \in Value : PatchCluster(c, k, v)
<1>1. ASSUME Typed, Versions, [Next]_vars, NEW c \in Cluster, NEW k \in Tag,
             obj[c] # Nil, obj'[c] # Nil, k \in obj[c].content.excluded
      PROVE  Body(c, k)
  <2>0. CASE UNCHANGED obj
    BY <2>0, Zenon
  <2>1. ASSUME NEW d \in Cluster, NEW a \in Annotations, Apply(d, a) PROVE Body(c, k)
    <3>1. obj \in [Cluster -> Object \cup {Nil}] /\ rev \in Nat
      BY <1>1, Zenon DEF Typed, ClientTypeOK
    <3>2. CASE d # c
      <4>1. obj'[c] = obj[c]
        BY <2>1, <3>1, <3>2, Zenon DEF Apply, Store
      <4> QED
        BY <4>1, Zenon
    <3>3. CASE d = c
      <4> DEFINE x == WithAnnotation(obj[c].content, a)
                 o == [rev |-> 0, content |-> x, quiet |-> a.quiet, hash |-> Nil]
      <4>1. obj[c].content \in Content /\ a \in Annotation
        BY <1>1, <3>1, ClientAssumption, Zenon DEF Object
      <4>2. x \in Content /\ a.quiet \in BOOLEAN
        BY <4>1, ChangedContent, Zenon DEF Annotation
      <4>3. x.tags = obj[c].content.tags
        BY <4>1, Zenon DEF WithAnnotation, Content
      <4>4. Store(c, o)
        BY <1>1, <2>1, <3>3, Zenon DEF Apply
      <4>5. o \in Object /\ o.content = x
        BY <4>2, Zenon DEF Object
      <4>6. obj'[c].content = x
        <5> HIDE DEF o, x
        <5> QED
          BY <3>1, <4>4, <4>5, Stored, Zenon
      <4> QED
        BY <4>3, <4>6, Zenon
    <3> QED
      BY <3>2, <3>3, Zenon
  <2>2. ASSUME NEW d \in Cluster, Delete(d) PROVE Body(c, k)
    BY <1>1, <2>2, Zenon DEF Delete, Typed, ClientTypeOK
  <2>3. ASSUME NEW d \in Cluster, NEW l \in Tag, NEW v \in Value, PatchCluster(d, l, v)
        PROVE  Body(c, k)
    <3>1. CASE d = c /\ l = k
      BY <2>3, <3>1, Zenon
    <3>2. CASE ~(d = c /\ l = k)
      <4> DEFINE x == WithTag(obj[d].content, l, v)
      <4>1. obj[d] \in Object /\ obj[d].content \in Content
        BY <1>1, <2>3, Zenon DEF PatchCluster, Patch, Typed, ClientTypeOK, Object
      <4>2. x \in Content /\ obj \in [Cluster -> Object \cup {Nil}] /\ rev \in Nat
        BY <1>1, <4>1, ChangedContent, Zenon DEF Typed, ClientTypeOK
      <4>3. d = c => x.tags[k] = obj[c].content.tags[k]
        BY <3>2, <4>1, Zenon DEF WithTag, Content, Tags
      <4>4. Store(d, [obj[d] EXCEPT !.content = x])
        BY <2>3, Zenon DEF PatchCluster, Patch
      <4>5. [obj[d] EXCEPT !.content = x] \in Object
            /\ [obj[d] EXCEPT !.content = x].content = x
        BY <4>1, <4>2, Zenon DEF Object
      <4>6. obj'[d].content = x /\ (c # d => obj'[c] = obj[c])
        <5> DEFINE n == [obj[d] EXCEPT !.content = x]
        <5>1. n \in Object /\ n.content = x /\ Store(d, n)
          BY <4>4, <4>5, Zenon
        <5> HIDE DEF n, x
        <5> QED
          BY <4>2, <5>1, Stored, Zenon
      <4> QED
        BY <4>3, <4>6, Zenon
    <3> QED
      BY <3>1, <3>2, Zenon
  <2>4. ASSUME pc = "update", Current(name, instance),
               Store(name, [instance EXCEPT !.content = WithCA(instance.content)])
        PROVE  Body(c, k)
    <3>1. name \in Cluster /\ instance \in Object /\ instance.content \in Content
      BY <1>1, <2>4, Zenon DEF Typed, Object
    <3>2. instance = obj[name]
      BY <1>1, <2>4, <3>1, CurrentIntended, Zenon DEF Versions, ToUpdate
    <3>3. WithCA(instance.content) \in Content
          /\ WithCA(instance.content).tags = instance.content.tags
      BY <3>1, ChangedContent, Zenon DEF WithCA, Content
    <3> QED
      BY <1>1, <2>4, <3>1, <3>2, <3>3, StoreExcluded, Zenon
  <2>5. ASSUME NEW r \in Request, NEW d \in Cluster, hpc[r] = "update",
               items[r][d] # Nil, StoreTags(r, d)
        PROVE  Body(c, k)
    <3> DEFINE o == items[r][d]
               x == WithTags(o.content, tag[r])
    <3>1. o \in Object /\ tag[r] \in Tags /\ CopyOf(d, o) /\ Current(d, o)
      BY <1>1, <2>5 DEF Typed, ClientTypeOK, Versions, Listed, StoreTags
    <3>2. o = obj[d] /\ o.content \in Content
      BY <1>1, <3>1, CurrentIntended, Zenon DEF Object
    <3>3. x \in Content
      BY <3>1, <3>2, ChangedContent, Zenon
    <3>4. \A l \in o.content.excluded : x.tags[l] = o.content.tags[l]
      BY <3>1, <3>2, Zenon DEF WithTags, Content, Tags
    <3>5. Store(d, [o EXCEPT !.content = x])
      BY <2>5, Zenon DEF StoreTags
    <3> HIDE DEF o, x
    <3> QED
      BY <1>1, <3>1, <3>2, <3>3, <3>4, <3>5, StoreExcluded, Zenon
  <2>6. ASSUME NEW w \in Watcher, NEW d \in Cluster, NEW f \in Field,
               <<d, f>> \in pending[w], StoreService(w, d, f)
        PROVE  Body(c, k)
    <3> DEFINE x == WithService(obj[d].content, f, patches[w][f])
    <3>1. obj[d] \in Object /\ obj[d].content \in Content
      BY <1>1, <2>6, Zenon DEF StoreService, Patch, Typed, ClientTypeOK, Object
    <3>2. patches[w] \in [Field -> Value \cup {Nil}]
      BY <1>1, <2>6, Zenon DEF Typed, ClientTypeOK
    <3>3. x \in Content /\ x.tags = obj[d].content.tags
      BY <3>1, <3>2, ChangedContent, Zenon DEF WithService, Content
    <3>4. Store(d, [obj[d] EXCEPT !.content = x])
      BY <2>6, Zenon DEF StoreService, Patch
    <3> HIDE DEF x
    <3> QED
      BY <1>1, <3>1, <3>3, <3>4, StoreExcluded, Zenon
  <2>7. CASE Others
    BY <2>0, <2>1, <2>2, <2>3, <2>7, Zenon DEF Others, ChangeSource, apiVars
  <2>8. CASE Reconciler
    BY <2>0, <2>4, <2>8, Zenon DEF Reconciler, Observe, Resync, Reconcile, UpdateCA,
       UpdateCAConflict, UpdateCAError, Enqueue, EnqueueRefused, EnqueueError, apiVars
  <2>9. ASSUME NEW r \in Request, Webhook(r) PROVE Body(c, k)
    BY <2>0, <2>5, <2>9, Zenon DEF Webhook, Process, List, ListError, UpdateTags,
       UpdateTagsConflict,
       UpdateTagsError, apiVars
  <2>10. ASSUME NEW w \in Watcher, MetadataWatcher(w) PROVE Body(c, k)
    BY <2>0, <2>6, <2>10, Zenon DEF MetadataWatcher, Notify, ReconcileWatcher, ApplyPatch,
       ApplyPatchGone, ApplyPatchError, apiVars
  <2>11. CASE Restart \/ UNCHANGED vars
    BY <2>0, <2>11, Zenon DEF Restart, vars, apiVars
  <2> QED
    BY <1>1, <2>7, <2>8, <2>9, <2>10, <2>11, Zenon DEF Next
<1>2. Typed /\ Versions /\ [Next]_vars
        => [\A c \in Cluster, k \in Tag :
              obj[c] # Nil /\ obj'[c] # Nil /\ k \in obj[c].content.excluded =>
                \/ obj'[c].content.tags[k] = obj[c].content.tags[k]
                \/ \E v \in Value : PatchCluster(c, k, v)]_vars
  BY <1>1, Zenon
<1> QED
  BY <1>2, AlwaysVersions, PTL DEF Spec, ExcludedUntouched

=============================================================================
