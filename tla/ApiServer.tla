------------------------------ MODULE ApiServer -----------------------------
(***************************************************************************)
(* The apiserver as a whole: the message handlers of UpdatePipeline, the   *)
(* list routes of the REST API (ListClusters of v1 and v2), and the Redis  *)
(* cache between them, which HTTPCache (pkg/apiserver/web/cache.go) fills  *)
(* and the message handlers invalidate.                                    *)
(*                                                                         *)
(* A list is read from the table's global index, which follows the table   *)
(* on its own.  The filters of a request select what a list shows, nothing *)
(* here depends on it: a query is its cache key, and a list is what the    *)
(* index held for every cluster.  The pages of one query are read in one   *)
(* step: no property relates two clusters of one list.                     *)
(***************************************************************************)
EXTENDS UpdatePipeline

CONSTANTS
  Reader,     \* requests to a list route that can be served at once
  Query,      \* cache keys: request URLs with their parameters sorted
  CacheTTL    \* API_CACHE_TTL; 0 for Redis means that an entry never expires

ASSUME CacheAssumption == CacheTTL \in Nat

VARIABLES
  index,      \* what the table's index holds for each cluster
  cache,      \* cache[q]: the entry Redis holds under key q
  rpc,        \* rpc[r]: the call request r makes next
  query,      \* query[r]: the key of request r
  answer,     \* answer[r]: the response of request r, to be stored
  announced   \* history: updates whose cache invalidation succeeded

apiVars == <<index, cache, rpc, query, answer, announced>>
allVars == <<vars, apiVars>>

List == [Cluster -> Item \cup {Nil}]

\* A response: the list in its body and, as history, whether it stands for a
\* query that failed.
Answer == [list: List, failed: BOOLEAN]

Entry == [answer: Answer, ttl: Nat]

ApiTypeOK ==
  /\ TypeOK
  /\ index \in List
  /\ cache \in [Query -> Entry \cup {Nil}]
  /\ rpc \in [Reader -> {"idle", "list", "set"}]
  /\ query \in [Reader -> Query \cup {Nil}]
  /\ answer \in [Reader -> Answer \cup {Nil}]
  /\ announced \subseteq sent

ApiInit ==
  /\ Init
  /\ index = [c \in Cluster |-> Nil]
  /\ cache = [q \in Query |-> Nil]
  /\ rpc = [r \in Reader |-> "idle"]
  /\ query = [r \in Reader |-> Nil]
  /\ answer = [r \in Reader |-> Nil]
  /\ announced = {}

-----------------------------------------------------------------------------
(* The cache invalidation of the message handler.                          *)

\* The message carries SkipCacheInvalidation = "true".
SkipInvalidation(h) ==
  /\ pc[h] = "invalidate"
  /\ msg[h].kind = "quiet"
  /\ Invalidate(h)
  /\ UNCHANGED apiVars

\* Mutant: the entries were not stored with the tag that is invalidated.
InvalidateOtherTag(h) ==
  /\ pc[h] = "invalidate"
  /\ msg[h].kind # "quiet"
  /\ announced' = announced \cup {msg[h]}
  /\ Invalidate(h)
  /\ UNCHANGED <<index, cache, rpc, query, answer>>

\* Invalidate with the tag "clusters" removed the entries of every list.
InvalidateCache(h) ==
  /\ pc[h] = "invalidate"
  /\ msg[h].kind # "quiet"
  /\ cache' = [q \in Query |-> Nil]
  /\ announced' = announced \cup {msg[h]}
  /\ Invalidate(h)
  /\ UNCHANGED <<index, rpc, query, answer>>

\* Invalidate failed after it had removed the entries of some lists; the error
\* is logged, and the message is gone.
InvalidateError(h) ==
  /\ pc[h] = "invalidate"
  /\ msg[h].kind # "quiet"
  /\ \E kept \in SUBSET Query :
       cache' = [q \in Query |-> IF q \in kept THEN cache[q] ELSE Nil]
  /\ Invalidate(h)
  /\ UNCHANGED <<index, rpc, query, answer, announced>>

-----------------------------------------------------------------------------
(* A list request.                                                         *)

\* The request has its response, or is gone with its process.
Finish(r) ==
  /\ rpc' = [rpc EXCEPT ![r] = "idle"]
  /\ query' = [query EXCEPT ![r] = Nil]
  /\ answer' = [answer EXCEPT ![r] = Nil]

\* No entry under the key, or Redis did not answer: go on to ListClusters.  A
\* request that finds an entry is answered with it and changes nothing.
CacheMiss(r, q) ==
  /\ rpc[r] = "idle"
  /\ rpc' = [rpc EXCEPT ![r] = "list"]
  /\ query' = [query EXCEPT ![r] = q]
  /\ UNCHANGED <<vars, index, cache, answer, announced>>

\* ListClusters answers with what the index holds.
ListClusters(r) ==
  /\ rpc[r] = "list"
  /\ rpc' = [rpc EXCEPT ![r] = "set"]
  /\ answer' = [answer EXCEPT ![r] = [list |-> index, failed |-> FALSE]]
  /\ UNCHANGED <<vars, index, cache, query, announced>>

\* The query failed: the error is dropped, and the response is an empty list
\* with status 200, which goes into the cache as any other.
ListClustersError(r) ==
  /\ rpc[r] = "list"
  /\ rpc' = [rpc EXCEPT ![r] = "set"]
  /\ answer' = [answer EXCEPT ![r] =
                  [list |-> [c \in Cluster |-> Nil], failed |-> TRUE]]
  /\ UNCHANGED <<vars, index, cache, query, announced>>

\* Mutant: Set before the handler of the route has answered.
CacheSetEarly(r) ==
  /\ rpc[r] # "idle"
  /\ cache' = [cache EXCEPT ![query[r]] = [answer |-> answer[r], ttl |-> CacheTTL]]
  /\ Finish(r)
  /\ UNCHANGED <<vars, index, announced>>

\* Mutant: Set without WithExpiration.
CacheSetForever(r) ==
  /\ rpc[r] = "set"
  /\ cache' = [cache EXCEPT ![query[r]] = [answer |-> answer[r], ttl |-> 0]]
  /\ Finish(r)
  /\ UNCHANGED <<vars, index, announced>>

\* The response, sent to the client while it was written, is stored.
CacheSet(r) ==
  /\ rpc[r] = "set"
  /\ cache' = [cache EXCEPT ![query[r]] = [answer |-> answer[r], ttl |-> CacheTTL]]
  /\ Finish(r)
  /\ UNCHANGED <<vars, index, announced>>

\* Set failed, or the process died.
Abandon(r) ==
  /\ rpc[r] # "idle"
  /\ Finish(r)
  /\ UNCHANGED <<vars, index, cache, announced>>

-----------------------------------------------------------------------------
(* Redis and DynamoDB.                                                     *)

Expire(q) ==
  /\ cache[q] # Nil
  /\ cache[q].ttl > 0
  /\ cache' = [cache EXCEPT ![q] = Nil]
  /\ UNCHANGED <<vars, index, rpc, query, answer, announced>>

\* The index catches up with the table.
IndexCluster(c) ==
  /\ index[c] # db[c]
  /\ index' = [index EXCEPT ![c] = db[c]]
  /\ UNCHANGED <<vars, cache, rpc, query, answer, announced>>

PipelineStep ==
  /\ Surroundings \/ \E h \in Handler : MessageStep(h)
  /\ UNCHANGED apiVars

InvalidateStep(h) ==
  SkipInvalidation(h) \/ InvalidateCache(h) \/ InvalidateError(h)

ReaderStep(r) ==
  \/ \E q \in Query : CacheMiss(r, q)
  \/ ListClusters(r)
  \/ ListClustersError(r)
  \/ CacheSet(r)
  \/ Abandon(r)

ApiNext ==
  \/ PipelineStep
  \/ \E h \in Handler : InvalidateStep(h)
  \/ \E r \in Reader : ReaderStep(r)
  \/ \E q \in Query : Expire(q)
  \/ \E c \in Cluster : IndexCluster(c)

ApiSpec == ApiInit /\ [][ApiNext]_allVars

-----------------------------------------------------------------------------
(* Convergence.                                                            *)

\* DynamoDB keeps its index up to date, Redis expires what has a time to
\* live, and requests end.
ApiFairness ==
  /\ \A c \in Cluster : WF_allVars(IndexCluster(c))
  /\ \A q \in Query : WF_allVars(Expire(q))
  /\ \A r \in Reader :
       WF_allVars(ListClusters(r) \/ ListClustersError(r) \/ CacheSet(r) \/ Abandon(r))

FairApiSpec == ApiSpec /\ ApiFairness

WritesStop == <>[][FALSE]_db

ErrorsStop == <>[][\A r \in Reader : ~ListClustersError(r)]_allVars

\* The cached lists show what the table holds.
Converged == \A q \in Query : cache[q] # Nil => cache[q].answer.list = db

\* Whatever updates are not followed by an invalidation (Delete or Invalidate
\* failed, the process died, the message said to skip it), and however
\* requests that read old lists or failed ones race with the handlers, once
\* writes and failing queries stop the lists served from the cache become,
\* and stay, those of the table.
CacheConverges == WritesStop /\ ErrorsStop => <>[]Converged

-----------------------------------------------------------------------------
(* The calm apiserver: the calm update path; lists are read from an index  *)
(* that is up to date; and no request holds a list it has yet to store     *)
(* when a handler invalidates the cache.                                   *)

CalmApiNext ==
  /\ ApiNext
  /\ [CalmNext]_vars
  /\ \A r \in Reader : ListClusters(r) => index = db
  /\ announced' # announced => \A r \in Reader : rpc[r] # "set"

CalmApiSpec == ApiInit /\ [][CalmApiNext]_allVars

ShowsUpdate(list, m) ==
  list[m.cluster] # Nil /\ list[m.cluster].lastUpdated >= m.sentAt

\* In the calm apiserver no cached list is older than an update whose handler
\* has invalidated the cache: Handle writes the table before the closure
\* invalidates, so what is stored afterwards was read after the write.
AnnouncedIsListed ==
  \A q \in Query, m \in announced :
    cache[q] # Nil /\ ~cache[q].answer.failed => ShowsUpdate(cache[q].answer.list, m)

=============================================================================
