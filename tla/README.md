# Cluster Registry in TLA+

A model of the Cluster Registry, its model checking with TLC, and proofs with
TLAPS. Source lines are those of the repository, below `src/`.

## 1. The system

A *Cluster* custom resource in each Kubernetes cluster describes it. The
**client** (`cmd/client`) watches the resource and enqueues each change in an
SQS queue. The **apiserver** (`cmd/apiserver`) polls the queue, stores the
clusters in a DynamoDB table and serves them over REST, with a Redis cache in
front of the list routes. On management clusters the **sync manager**
(`cmd/sync/manager`) watches ClusterSync objects and the resources they select,
and enqueues partial updates. The client also hosts a webhook for Alertmanager
and the ServiceMetadataWatcher.

| part | state | operations | interacts with |
|---|---|---|---|
| message handler (`apiserver.go` 112-144, `event/handler.go`) | message, the cluster it read | get, put, delete, invalidate | SQS, DynamoDB, Redis |
| database (`pkg/database`) | the table, its index | Get, Put, Delete, List, filters, pages | handlers, routes |
| poller (`pkg/sqs/sqs.go`) | `handlerCount`, WaitGroup, batch | Poll, Enqueue, Delete | SQS, handlers |
| list routes and cache (`web/cache.go`, `web/handler/v1`, `v2`) | Redis entries by URL | list, cache fill, expiry | database, handlers |
| other routes | none | get cluster, services, PATCH | database, Kubernetes |
| auth and rate limit (`pkg/auth`, `web/rate_limiter.go`) | limiter | per request | routes |
| ClusterReconciler (`cluster_controller.go`) | annotations of the object | hash, skip annotation, enqueue | Kubernetes, SQS |
| ServiceMetadataWatcher | Cluster's service metadata | collect, patch | Kubernetes |
| Alertmanager webhook | Cluster's tags | firing, resolved, retry | Kubernetes |
| sync manager (`pkg/sync`) | parser buffer, ClusterSync status | parse, diff, hash, enqueue | Kubernetes, SQS |
| configuration and the three mains (`pkg/config`, `pkg/api/config`, `cmd`) | flags, file, environment | load, connect, serve | everything |

What makes it hard: SQS delivers at least once and in any order; several
handlers, in several processes, work on one cluster; DynamoDB reads are
eventually consistent; a handler may die between any two of its calls, each of
which may fail with or without effect; list requests race with handlers for the
cache; the poller counts its goroutines with a counter that is not always
guarded; four writers share one Cluster object and two of them write back what
they read from a cache; lists are read page by page while the table changes;
services fail while a process starts. `PROJECT.json` lists these hazards at
their lines.

## 2. The modules

**UpdatePipeline** is the path of an update, from the queue to the table. A
handler is a small program whose counter `pc[h]` names its next remote call.

| action | code |
|---|---|
| `Send` | `Enqueue`: one entry of the batch accepted by SQS |
| `Appear` | delay or visibility timeout passes (SQS, external) |
| `Receive`, `ReceiveError` | `Poll`: `ReceiveMessage`, start of the goroutine; the `break` on error |
| `Reject` | `NewEvent` failed, other type, body that does not parse: return without Delete |
| `GetCluster`, `GetClusterError` | first read of `Handle` with the `lastUpdated.Before` decision |
| `PutClusterGet` | the second read, inside `PutCluster`, whose error is dropped |
| `PutItem`, `PutItemError` | the unconditional write |
| `Delete`, `DeleteError` | removal of the message |
| `Invalidate` | the end of the closure; ApiServer refines it |
| `Replicate` | the copy eventually consistent reads use catches up (DynamoDB, external) |
| `Restart` | a process dies with its handlers and starts again |

A message body is its identifier. An item is the body, `LastUpdated` and the
identifier of the message whose `RegisteredAt` it has. Formatting
`LastUpdated` as RFC3339Nano and parsing it again is exact for the milliseconds
of `SentTimestamp`, so it is kept as a number. `written` is a history variable.

**ClusterRegistry** is the abstract specification: a map in which the last
update wins and `RegisteredAt` is kept.

**ApiServer** extends UpdatePipeline with the table's index, the Redis entries
and the list requests (`CacheMiss`, `ListClusters`, `ListClustersError`,
`CacheSet`, `Abandon`), and splits `Invalidate` into what Redis sees
(`SkipInvalidation`, `InvalidateCache`, `InvalidateError`). A request that hits
the cache changes nothing and has no action. A query is its cache key; a list
is what the index held for every cluster. `announced` is a history variable.

**SqsPoller** is the loop of `Poll` in detail. `handlerCount++` is made by the
loop without the mutex and `handlerCount--` by the goroutines under it, so load
and store are separate steps. Goroutines are counted, not named. `lost` counts
the updates of `handlerCount` that another store overwrote.

**SyncManager** is Reconcile of the sync manager, with the parser that all its
reconciles share. The buffer is a map from fields to entries; an entry says
whose object it comes from. Field 0 is what InitialData sets, field k what the
handler of the k-th watched resource sets. `SetBuffer`, `Merge` and `Diff` reach
the buffer one field at a time, which is how a data race on the struct shows.
The data stands for its own hash. `server` is the ClusterSync in the API server,
`cached` the informer's copy, and the Booleans `now` and `cacheNow` stand for
comparing resource versions. `Notify` is any event of a watched resource,
periodic resync included.

UpdatePipeline has the loop only as far as handlers can tell: a bounded set of
goroutines and a loop that may end.

**Client** is the client of one Kubernetes cluster with everyone who writes its
Cluster objects. `obj` is the API server, `cache` the informer's copies.
`Update` replaces an object only if its `rev` is current; a merge patch applies
to any version.

| action | code |
|---|---|
| `Apply`, `Delete`, `ChangeSource`, `PatchCluster` | users, watched services, the PATCH route |
| `Observe`, `Resync` | events of the informer through `eventFilters` and `hasDifferentHash` |
| `Reconcile` | read from the cache, choice between Update and message |
| `UpdateCA`, `UpdateCAConflict`, `UpdateCAError` | the CA and its Update |
| `Enqueue`, `EnqueueRefused`, `EnqueueError` | the message; entries that SQS refuses are only logged |
| `Process`, `List`, `ListError`, `UpdateTags` and its failures | an alert, `updateClusterTags`, `retry` |
| `Notify`, `ReconcileWatcher`, `ApplyPatch` and its failures | ServiceMetadataWatcher |
| `Restart` | the process dies; the informers start from the current objects |

The hash of an object is the content it covers. The annotation that holds it is
set in a copy that is then dropped, so `hash` in the API server stays as users
made it. `intended` is a history variable: it makes the change of each write
to what was intended, not to what the writer had read.

**Routes** is what a caller of the REST API sees: the middlewares in the order
`Register` chains them, lists read page by page (`Ask`, `QueryPage`,
`QueryError`, `Respond`, `RespondPanic`), and requests about one cluster
(`PassCall`, `GetItem`, `GetDashItem`, `SendPatch` and the refusals). `Write` is
an update of the table, however it came there. The cache is left out, for
ApiServer has it. **Queries** has the pure part: filters of v1, conditions of v2
with the comparison of dates as texts, and slices; **Ordered** puts a set of
numbers in order.

**Configuration** has what the three programs make of flags, files and
environment. **Startup** has the calls of their mains in order, with outages,
exits and restarts. **ResourceHandlers** has the six handlers of the sync
manager and the merge of what they return, as functions of the objects found; a
list of tiers says whether it was set at all, since mergo tells a nil slice from
an empty one. It also says what such merges should leave (`HasRead`, `HasTiers`).
**SyncProcess** composes them: a process starts, and if it is the sync manager
it reconciles, with kinds that are not installed and lists that fail. Where
SyncManager has the concurrency and abstracts the data, SyncProcess has the
data of one reconcile: `next` is the place of the resource it reads next,
`unread` the places whose lists failed, and `sent` what it ended with, a message
or, if `failed`, none.

In these modules a text is a model value or one of a few strings; an ARN is a
sequence of its parts. Times are a day and a second, in UTC as the apiserver
writes them.

## 3. The runs

| run | checks | instance |
|---|---|---|
| `pipeline` | `TypeOK`, `NoLostUpdate`, `ItemsFromMessages`, `RegressOnlyOnStaleRead` | 2 clusters, 2 handlers, 2 messages (updates and others), 2 timestamps |
| `live` | `EveryUpdateHandled` under `FairSpec` | 1 handler, 2 messages (updates and others) |
| `race` | `AccuratelyReflected`: **violated** | 1 cluster, 2 handlers, 2 updates |
| `apiserver` | `ApiTypeOK`, `Fresh`, `AnnouncedIsListed`, `ImplementsRegistry` under `CalmApiSpec` | 1 cluster, 1 handler, 2 updates, 1 request at a time |
| `cache_converges` | `CacheConverges` under `FairApiSpec` | 1 handler, 1 update or quiet update, 2 requests at once |
| `poller` | `PollerTypeOK`, `MaxMsgsInRange`, `CapacityUpToLostUpdates`, `PollsAgain`, `PollReturns` under `FairSpec` | batches of 3, limit 3, 6 goroutines |
| `sync` | `SyncTypeOK`, `Isolated` under `CalmSpec` | 2 ClusterSyncs, InitialData and 1 resource each |
| `sync_live` | `SyncConverges` under `ReliableSpec` | 1 ClusterSync, InitialData and 2 resources, 3 changes |
| `sync_race` | `Isolated` under `Spec`: **violated** | 2 ClusterSyncs |
| `client` | `ClientTypeOK`, `NoWriteUndone`, `ExcludedUntouched`, `AnnouncedInOrder`, `Announced`, `ServicesFollow` under `FairSpec` | 1 Cluster, 1 tag, 1 alert at a time, 2 watchers, 3 changes |
| `routes` | `RoutesTypeOK`, `NothingMissed`, `NothingTwice`, `NoPanic`, `DatesByDay`, `PatchedByGroup`, `RegisteredIsFound`, `WalkEnds` | 3 clusters, pages of 1 to 3, queries in steps of 2, 2 updates |
| `process` | `StartupTypeOK`, `Precedence`, `ReadIsSent`, `FailsOnlyIfIncomplete`, `TiersOfInitialData`, `OrderIrrelevant`, `SoundRuns`, `RestartWatches` | 30 deployments of 3 programs, 24 ClusterSyncs, 3 sets of objects |

What they show:

- `NoLostUpdate`: whatever fails or is delivered twice, a message is deleted
  only after its update, or one at least as recent, was written.
- `ItemsFromMessages`: an item never mixes two messages, except for the
  `RegisteredAt` it is meant to inherit.
- `RegressOnlyOnStaleRead`: `LastUpdated` goes backwards only in the write of a
  handler whose read did not return the item it replaces. This is the exact
  extent of the weakness that `race` exhibits: two handlers read before either
  writes, and the older update is written last and stays.
- `ImplementsRegistry`, `Fresh`: when no two handlers are between the read and
  the write of one cluster, and reads are current, the table is the abstract
  registry and reflects every handled update. An update with the very timestamp
  of the stored one is applied, which the registry allows.
- `AnnouncedIsListed`: the order put, delete, invalidate is the right one. No
  cached list is older than an update whose handler has invalidated the cache,
  provided no request holds a list it has yet to store at that moment.
- `CacheConverges`: without that proviso, and with skipped or failed
  invalidations, the time to live bounds the damage.
  An error of the database becomes an empty list with status 200 that is cached
  (`v1/handler.go` 133, `cache.go` 90), where the routes document status 500;
  `CacheConverges` therefore assumes that failing queries stop.
- `MaxMsgsInRange`, `CapacityUpToLostUpdates`: the unguarded increment never
  makes the loop ask SQS for zero or too many messages, and exceeds the limit
  on handlers by no more than the number of lost updates. The excess is real:
  an increment that a decrement overwrites lets one handler too many start.
- `PollsAgain`, `PollReturns`: with an accurate count the loop resumes after
  its capacity was reached, and a loop that ends waits for its handlers.
  One failed receive ends polling for the life of the process, which is why
  `PollsAgain` and `EveryUpdateHandled` assume that it does not happen, or that
  another process polls.
- `Isolated`: what an earlier reconcile, interrupted or not, left in the buffer
  never reaches the message of another ClusterSync, as long as reconciles do not
  overlap between SetBuffer and Diff. The controller lets ten overlap, and
  `sync_race` shows the mix.
- `SyncConverges`: stale copies, conflicts, errors and restarts delay the right
  data but do not lose it, provided the queue accepts messages and contents do
  not come back. Both provisos are needed. Without the first, TLC finds data that
  is never sent, since its hash is stored although the enqueue failed
  (`controller.go` 128). Without the second TLC finds this:
  A is stored, B is sent, its status update fails, the object returns to A, and
  the stored hash says that there is nothing to send.
- A reconcile without errors whose data is unchanged does not store its status,
  so an earlier "fail" stays. The model has this behaviour; no property is about
  it.
- `NoWriteUndone`: although two parts of the client write whole objects back,
  no acknowledged write of anyone is undone, because every Update carries the
  version it was made from. `ExcludedUntouched` holds for the same reason: an
  annotation set after the webhook's list makes its Update fail.
- `AnnouncedInOrder`: messages leave the client in the order of the versions.
  What SQS makes of the order is UpdatePipeline's concern.
- `Announced`, `ServicesFollow`: refused entries and failed patches are only
  logged, and the periodic resync makes up for them. For the messages it can,
  because the hash annotation is never stored: every object always looks changed.
- `NothingMissed`, `NothingTwice`, `NoPanic`: reading a list by offset is right
  while no cluster ceases or begins to match. A cluster that ceases moves the
  rest up, past the offset, and may leave the offset beyond the end, where the
  slice panics. The list of a service is complete only when one page takes the
  table: pages are cut first, and `more` is never true.
- `DatesByDay`: conditions on `lastUpdated` are right to the day. "<=" is left
  out: it is read as "<" with a value that begins with "=", which every date
  precedes.
- `PatchedByGroup`, `RegisteredIsFound`: along every path only members patch,
  and what is registered is found, by short name too (not by the routes of
  services, which do not try it).
- `WalkEnds`: every list comes to an end, through the limiter and its refills.
- `SoundRuns`: a process whose deployment is sound serves again and again once
  its services stay up. A webhook host without a port is not sound: `addWebhookTo`
  dereferences the port (`clientconfig.go` 108). A `SQS_BATCH_SIZE` of 0 is:
  `validateConfig` accepts it, and Poll then asks for no messages, while SqsPoller
  assumes at least 1.
- `Precedence`: the help text of `--config` says that flags override the file.
  They do for the metrics and probe addresses; the namespace of the file wins,
  and without a file the namespace is empty whatever the flag says.
- `RestartWatches`: discovery errors at start-up are survived with nothing
  watched, and only another start repairs that.
- `ReadIsSent`, `FailsOnlyIfIncomplete`: a message has what was read, and only
  missing fields, handlers or single objects keep it back; a list that fails
  does not, and the message lacks its data. `TiersOfInitialData`,
  `OrderIrrelevant`: with tiers in InitialData the message has just these, and
  the order of the resources does not matter.

**Bounds.** Two handlers and two messages per cluster are what the get-then-put
race and a redelivery need; two clusters in `pipeline` are what a mix-up of
items needs. Timestamps 0 and 1 cover earlier, equal and later. The
poller's instances let every batch size from one to the full one occur, with
the counter too high and too low. Two ClusterSyncs are what a mix needs, and one
whose two resources and InitialData change is what staleness of each needs.
One Cluster object is what its writers fight for, and three changes let a user, an
alert and a restart meet in it; two watchers are one that is allowed and one
that is not. Three clusters with pages of one and queries in steps of two make
both kinds of pages end early, exactly and late, and two updates move a cluster
in or out on either side of the offset. The deployments of `process` differ
from a plain one in a few variables, flags or settings.
The one handler of `apiserver` never meets another in the window between read
and write, so that run does not test the first proviso of the calm system. The
same instance with two handlers passes too (8,927,798 states), but takes twelve
minutes and is not among the runs. `CalmImplementsRegistry` and `CalmIsFresh`
are proved for any number of handlers.
`MaxChanges` bounds the changes others make. `MaxSent`, `MaxTime`, `MaxLive` and
`MaxLost` are in guards of `Send` and `Receive` only, so they stop new work and
never block work in progress. Handlers, clusters and ClusterSyncs are symmetric,
and symmetry is used for safety.

**Deadlock** is checked except for the poller, whose loop ends for good after a
receive error.

**Fairness.** Goroutines and the loop are scheduled by the Go runtime (weak
fairness). SQS makes a stored message visible after its timeout and delivers it
again for as long as it is stored. Strong fairness of the calls for one message
says that a call that is retried for ever, by redelivery, does not fail for
ever. Redis expires entries that have a time to live, DynamoDB updates its
index, and requests end. The sync manager's reconciles run, its informer catches
up, and the periodic resync of controller-runtime renews the events of every
watched object. `EveryUpdateHandled` assumes that some loop is polling
again and again, which the code guarantees only if someone restarts a process
whose loop has ended; `CacheConverges` assumes a time to live above 0, since 0
means none to Redis. The client's informers deliver and resync, its work queues
are served, and a reconcile that has begun goes on; `Announced` and
`ServicesFollow` assume that errors other than conflicts stop. The limiter
refills with time, and a caller that was refused asks again. A main goes on,
and Kubernetes restarts a container that has ended.

## 4. The proofs

All for every value of the constants, the bounds included. The proofs of Routes
and of SyncProcess are each in two modules, because the time the translation of
a leaf takes grows with what stands before it. Leaves that cite Zenon need no
arithmetic; the SMT solver settles them slowly or not at all.

**ApiServerProofs**, on UpdatePipeline and ApiServer.
- `TypeCorrect`, `NoUpdateIsLost`, `ItemsAreWhole`. `NoLostUpdate` is not
  inductive: the invariant adds what each program counter knows. A handler about
  to delete holds a message that is covered by a write; whatever a handler has
  read for the write, and whatever the copy holds, is an item of the cluster it
  belongs to.
- `RegressNeedsStaleRead`: a handler that reached the write with `seen` equal
  to the stored item passed `~TooOld` against that very item.
- `CalmImplementsRegistry`, `CalmIsFresh`: in the calm system a handler inside
  its window still sees the stored item, because only the handler in the window
  writes the cluster. So each write supersedes the stored item, and a handled
  update stays covered.
- `ApiImplementsPipeline`: every step of the apiserver is a step of the update
  path or leaves it alone, so its theorems carry over (`ApiLosesNoUpdate`).
- `ApiTypeCorrect`.
- `CalmListsAreFresh`: the invariant adds that the table shows every announced
  update, and that so does every list read and not yet stored.

**SqsPollerProofs.**
- `TypeCorrect`, `AsksInRange`, `CapacityKept`. The invariant relates
  `handlerCount` to the goroutines up to the lost updates, bounds a loaded value
  by what has been lost since its load, and says that between the second read
  and the end of the batch only the loop itself raises the count.

**SyncManagerProofs.**
- `TypeCorrect`, for any overlap. The invariant adds that the loops stay within
  the fields.
- `CalmIsIsolated`: the invariant says what the one reconcile in its window has
  made of the buffer: while it sets it, the fields up to `step` are its own;
  afterwards all are; what Diff has read is what the buffer has; and data about
  to be sent is its own.
- `NeverSendsOlder`, `StaysInSync`: the safety that `SyncConverges` rests on.
  With one reconcile in its window at a time, lists that do not fail and contents
  that do not come back (`SteadySpec`), a message is never older, in any field,
  than the one before it, and current data is not replaced before it changes. The
  invariant (`SteadyInv`) puts every version that a reconcile has read between the
  one last sent and the one that is there now. It is not enough to know the cached
  copy: a copy in use may be staler than the cache, but not than what was sent,
  because the cache never goes back and a reconcile reads it when it starts.
- `HashMeansSent`: if the queue also accepts every message, a stored hash of the
  current data means that this data was the last sent. So `shouldEnqueueData`
  (`controller.go` 127), when it finds that hash, holds nothing back. The
  invariant (`HashInv`) says that the data of every hash, in the API server, in the
  cache and in a copy in use, was sent or newer data was.

**ClientProofs.** The inductive invariant is `Versions`.
- `ClientTypeCorrect`.
- `NothingUndone`: a copy, in the cache or in the hands of a writer, has the
  content of the object whenever it has its version. So an Update that is
  accepted was made from what is stored.
- `SentInOrder`: the invariant adds that the copy about to be sent is at least
  as new as the last message, and that so is a cached copy which needs no
  Update.
- `ExcludedStay`: from the same invariant as `NothingUndone`.

**RoutesProofs**, on the lemmas of **ListProofs** about lists.
- `PatchesAreAuthorized`, `LookupsFind`: the invariant (`CallInv`) says what a
  request about one cluster has behind it at each stage: a PATCH past the
  middlewares has the token of a member, and one about to be sent has valid tags
  as well; a cluster that was registered still is, since no action removes an
  item.
- `RoutesAreTyped`.
- `OffsetsStayInside`, `PagesDoNotOverlap`, `PagesLeaveNoGap` (`NoPanic`,
  `NothingTwice`, `NothingMissed`): the reader only has a number, the offset, and
  the table changes under it. The invariant (`WalkInv`, with `Orderly` for one
  list) compares the two by counting. As long as no cluster begins to match, at
  most `offset` clusters that count lie up to the last one listed, so the next
  page begins after it. As long as none ceases to match, at least `offset` of
  them lie before each cluster yet to be listed, so the page begins no later than
  there, and not past the end. The clusters counted are those of one set for the
  table and the query under way, which may have found clusters that have changed
  since.
  `InOrder` is chosen, not computed, and `InOrderSorts` shows that
  what it chooses exists: each number at its rank.
- `DatesAreOrderedByDay`: from the type of the table; texts of different days
  compare as the days do.

**MergeProofs**, on ResourceHandlers: lemmas about merges, no theorem of its own.
`mergeTiers` and `PutTiers` are recursive functions, and what they keep is shown
by the first round that would not keep it (`LeastNumber`). They say what the
buffer has after a merge, field by field and tier by tier, and that the order of
merges does not matter: the patches of two kinds fill different fields, and of
two patches of one tier one comes from a machine pool and one from an EKS
configuration, so two patches commute. Any patch can then be made the last, and
a least number of patches whose order mattered would not be the least.

**SyncProcessProofs**, on SyncProcess, Startup and Configuration.
- `StartupIsTyped`, `FlagsAndFiles` (`StartupTypeOK`, `Precedence`): the
  invariant (`StartupInv`) says what each call of a main leaves for the calls
  after it. Which these are follows from the order of the calls of each
  program.
- `ProcessStarts`: reconciles leave the start alone, so SyncProcess implements
  Startup.
- `WatchesWhatIsConfigured`, `ServesOnlyIfSound`: the converse of `SoundRuns` and
  `RestartWatches`, with one more invariant (`ServeInv`). What is watched is
  configured and installed, and a process serves only if its deployment is
  sound, so `Sound` is no stronger than the code needs.
- `WhatIsReadIsSent`, `FailuresHaveCauses` (`ReadIsSent`,
  `FailsOnlyIfIncomplete`): the invariant (`ReconcileInv`) says what the buffer
  has of each kind at the places before `next` that were read, and that an error
  has its cause at one of the places before `next`. A merge adds the kind of one
  place; a list that failed is a merge of nothing. `HasRead`, in
  ResourceHandlers, says it for every field that a handler fills but the tiers.
- `InitialTiersStay` (`TiersOfInitialData`): a merge into a list that is set
  keeps its length and the name at each place, and completes the first tier of a
  name by the last pool and the last configuration of that name (`HasTiers`: type,
  capacities and runtime; labels and taints are in `OrderIrrelevant` only).
- `OrderDoesNotMatter` (`OrderIrrelevant`): the buffer is the merge of the patches
  at the places before `next` in their order, and another order of the places is
  another order of the patches, which leaves the same (MergeProofs).

Assumptions, which TLC evaluates in the runs of their modules:
- `PipelineAssumption`, `CacheAssumption`, `PollerAssumption`,
  `ClientAssumption` and `SyncAssumption` of SyncManager type the constants; a
  batch is at least 1 and `Nil` is none of the values it stands in for.
- `RoutesAssumption`: so for Routes. Limits and pages are at least 1, clusters
  are numbered in the order of the table, and items and conditions have dates.
- `ProgramAssumption`, `BundleAssumption`, `ConnectionAssumption`: a process
  runs one of the three programs, and a connection to a queue is not `Nil`.
- `SyncAssumption` of SyncProcess: a ClusterSync has a list of resources, its
  initial data has the fields of a ClusterSpec, and objects are found in lists, as
  are tiers and taints.

Only model-checked are the liveness properties, which are beyond the provers:
`EveryUpdateHandled`, `CacheConverges`, `PollsAgain`, `PollReturns`,
`SyncConverges`, `Announced`, `ServicesFollow`, `WalkEnds`, `SoundRuns`,
`RestartWatches`.

Refuted properties are shown by their counterexamples.

## 5. Not modelled

- The choice of cache keys (`GenerateKey`, `sortURLParams`): in ApiServer a
  query is its key.
- Of the sync manager: deletion of ClusterSyncs, and the selection of
  ClusterSyncs by kind, name and labels.
- Of the routes: parameters that do not parse (offset and limit fall back to
  their defaults, a condition is answered with 400), the comparison of other
  fields than dates by order, and the status and phase in the body of a PATCH.
  The limiter's rate and burst are one refill and `Burst`.
- Of the configuration: `syncPeriod`, `cacheNamespace`, `gracefulShutDown` and
  `recoverPanic` can be set in a file and `addTo` applies none of them;
  `DB_AWS_REGION` is required and used nowhere.
- Livez, readyz, version and metrics: no state. Readyz asks the database and
  the queue, and does not notice a Poll loop that has ended.
- `ListClustersWithService` hands on environment and region in the wrong order
  (`database.go` 429); its only caller passes both empty.
- `PartialClusterUpdateHandler`, `DeleteCluster` and `ChangeVisibilityTimeout`
  have no caller. The apiserver, alone in calling
  `Poll`, sets `RunOnce` to false.
- Generated code, and the tools under `local` and `test`.
- SQS, DynamoDB, Redis, Kubernetes, mergo and the cache library are external and
  modelled from how the code uses them. Invalidation by tag is one step, or
  fails having removed any subset of the entries.

## 6. Plan

1. *Done*: UpdatePipeline, ClusterRegistry, ApiServer, SqsPoller, SyncManager,
   Client, Routes with Queries, Startup with Configuration, SyncProcess with
   ResourceHandlers; proofs of every safety property.
2. Client composed with the queue of UpdatePipeline, so that the registry is
   shown to follow the Cluster objects.
3. The selection of ClusterSyncs, and cache keys.
