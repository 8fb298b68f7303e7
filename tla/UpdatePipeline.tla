--------------------------- MODULE UpdatePipeline ---------------------------
(***************************************************************************)
(* The path of a Cluster update: the message the client enqueued in SQS,   *)
(* the poller that receives it, the message handler of the apiserver       *)
(* (cmd/apiserver/apiserver.go) with its calls to ClusterUpdateHandler     *)
(* (pkg/apiserver/event/handler.go) and to PutCluster                      *)
(* (pkg/database/database.go), and the DynamoDB table it writes.           *)
(*                                                                         *)
(* Every remote call of the handler is a step of its own, so the steps of  *)
(* handlers that run at the same time interleave between any two calls.    *)
(* Redis is not part of this module's state: ApiServer adds the cache and  *)
(* its readers to these actions.                                           *)
(***************************************************************************)
EXTENDS Integers

CONSTANTS
  Cluster,    \* names of clusters, the partition key of the table
  Handler,    \* handler goroutines that can be alive at once
  Process,    \* apiserver processes, each the set of its handlers
  Traffic,    \* the kinds of message that are sent, a subset of Kind
  Nil,        \* Go's nil: no item, no message
  MaxSent,    \* bound: messages sent in a behaviour
  MaxTime     \* bound: value of the millisecond clock

(***************************************************************************)
(* What the handler can tell apart in a message.  "update" is a cluster    *)
(* update, "quiet" one whose SkipCacheInvalidation attribute is "true".    *)
(* "other" is a message that carries another event type, or none, or a     *)
(* body that does not parse: the handler returns from all of them without  *)
(* a Delete.  The identifier stands for the content of the body.           *)
(***************************************************************************)
Kind == {"update", "quiet", "other"}

Message == [id: Nat, cluster: Cluster, sentAt: Nat, kind: Kind]

IsClusterUpdate(m) == m.kind \in {"update", "quiet"}

(***************************************************************************)
(* An item of the table: the message whose body it stores, the             *)
(* Spec.LastUpdated that Handle derived from SentTimestamp, and the        *)
(* identifier of the message whose Spec.RegisteredAt it carries.  Both     *)
(* SentTimestamp and LastUpdated count milliseconds: RFC3339Nano, in which *)
(* LastUpdated is stored and read back, loses nothing of them.             *)
(***************************************************************************)
Item == [body: Message, lastUpdated: Nat, registeredAt: Nat]

ASSUME PipelineAssumption ==
  /\ Process \subseteq SUBSET Handler
  /\ Traffic \subseteq Kind
  /\ Nil \notin Message
  /\ Nil \notin Item
  /\ MaxSent \in Nat
  /\ MaxTime \in Nat

VARIABLES
  clock,      \* SentTimestamp of the last message, in milliseconds
  nextId,     \* identifier of the next message
  sent,       \* every message ever sent
  queue,      \* messages SQS stores
  visible,    \* messages SQS may deliver now
  polling,    \* polling[p]: the Poll loop of process p has not ended
  pc,         \* pc[h]: the call handler h makes next
  msg,        \* msg[h]: the message h was started with
  seen,       \* seen[h]: what Handle's GetCluster returned, until PutItem
  existing,   \* existing[h]: what PutCluster's own GetCluster returned
              \*   (locals no longer used are Nil)
  db,         \* the table
  replica,    \* the copy an eventually consistent read may be served from
  written     \* history: messages whose PutItem took effect

queueVars == <<clock, nextId, sent, queue, visible>>
handlerVars == <<pc, msg, seen, existing>>
dbVars == <<db, replica, written>>
vars == <<queueVars, polling, handlerVars, dbVars>>

PC == {"idle", "handle", "put", "putItem", "delete", "invalidate"}

TypeOK ==
  /\ clock \in Nat
  /\ nextId \in Nat
  /\ sent \subseteq Message
  /\ queue \subseteq sent
  /\ visible \subseteq queue
  /\ polling \in [Process -> BOOLEAN]
  /\ pc \in [Handler -> PC]
  /\ msg \in [Handler -> Message \cup {Nil}]
  /\ seen \in [Handler -> Item \cup {Nil}]
  /\ existing \in [Handler -> Item \cup {Nil}]
  /\ db \in [Cluster -> Item \cup {Nil}]
  /\ replica \in [Cluster -> Item \cup {Nil}]
  /\ written \subseteq sent

Init ==
  /\ clock = 0
  /\ nextId = 1
  /\ sent = {}
  /\ queue = {}
  /\ visible = {}
  /\ polling = [p \in Process |-> TRUE]
  /\ pc = [h \in Handler |-> "idle"]
  /\ msg = [h \in Handler |-> Nil]
  /\ seen = [h \in Handler |-> Nil]
  /\ existing = [h \in Handler |-> Nil]
  /\ db = [c \in Cluster |-> Nil]
  /\ replica = [c \in Cluster |-> Nil]
  /\ written = {}

-----------------------------------------------------------------------------
(* SQS: a standard queue, at-least-once and unordered.                     *)

\* SendMessageBatch took effect at time t: the message is stored, invisible
\* until its DelaySeconds have passed.  Two messages may be sent in the same
\* millisecond.
Send(c, kind, t) ==
  /\ nextId <= MaxSent
  /\ t \in clock .. MaxTime
  /\ LET m == [id |-> nextId, cluster |-> c, sentAt |-> t, kind |-> kind]
     IN  /\ sent' = sent \cup {m}
         /\ queue' = queue \cup {m}
  /\ nextId' = nextId + 1
  /\ clock' = t
  /\ UNCHANGED <<visible, polling, handlerVars, dbVars>>

\* DelaySeconds or the visibility timeout of a message passes, the latter
\* whether or not the handler that received it is still at work.
Appear(m) ==
  /\ m \in queue \ visible
  /\ visible' = visible \cup {m}
  /\ UNCHANGED <<clock, nextId, sent, queue, polling, handlerVars, dbVars>>

-----------------------------------------------------------------------------
(* The Poll loop.                                                          *)

\* ReceiveMessage returned m, and Poll starts a handler for it.
Receive(p, h, m) ==
  /\ polling[p]
  /\ h \in p
  /\ pc[h] = "idle"
  /\ m \in visible
  /\ visible' = visible \ {m}
  /\ pc' = [pc EXCEPT ![h] = "handle"]
  /\ msg' = [msg EXCEPT ![h] = m]
  /\ UNCHANGED <<clock, nextId, sent, queue, polling, seen, existing, dbVars>>

\* ReceiveMessage failed: Poll leaves its loop and is never started again.
ReceiveError(p) ==
  /\ polling[p]
  /\ polling' = [polling EXCEPT ![p] = FALSE]
  /\ UNCHANGED <<queueVars, handlerVars, dbVars>>

-----------------------------------------------------------------------------
(* The message handler.                                                    *)

\* The handler function returns; its goroutine ends.
Return(h) ==
  /\ pc' = [pc EXCEPT ![h] = "idle"]
  /\ msg' = [msg EXCEPT ![h] = Nil]
  /\ seen' = [seen EXCEPT ![h] = Nil]
  /\ existing' = [existing EXCEPT ![h] = Nil]

\* Not an event this handler handles: return, the message stays in the queue.
Reject(h) ==
  /\ pc[h] = "handle"
  /\ ~IsClusterUpdate(msg[h])
  /\ Return(h)
  /\ UNCHANGED <<queueVars, polling, dbVars>>

\* What DynamoDB may answer to a GetItem without ConsistentRead.
GetItem(c) == {db[c], replica[c]}

\* Mutant: the comparison the wrong way round.
TooOldReversed(m, item) == item # Nil /\ m.sentAt > item.lastUpdated

\* lastUpdated.Before(clusterTime): the update is skipped.  An update with
\* the very timestamp of the stored one is applied.
TooOld(m, item) == item # Nil /\ m.sentAt < item.lastUpdated

\* Handle's GetCluster, and the decision it takes on the answer.
GetCluster(h) ==
  /\ pc[h] = "handle"
  /\ IsClusterUpdate(msg[h])
  /\ \E item \in GetItem(msg[h].cluster) :
       \/ /\ TooOld(msg[h], item)
          /\ pc' = [pc EXCEPT ![h] = "delete"]
          /\ UNCHANGED seen
       \/ /\ ~TooOld(msg[h], item)
          /\ pc' = [pc EXCEPT ![h] = "put"]
          /\ seen' = [seen EXCEPT ![h] = item]
  /\ UNCHANGED <<queueVars, polling, msg, existing, dbVars>>

\* Handle's GetCluster failed: Handle returns the error, no Delete.
GetClusterError(h) ==
  /\ pc[h] = "handle"
  /\ IsClusterUpdate(msg[h])
  /\ Return(h)
  /\ UNCHANGED <<queueVars, polling, dbVars>>

\* PutCluster reads the item again; when that read fails the error is dropped
\* and the cluster is taken for a new one.
PutClusterGet(h) ==
  /\ pc[h] = "put"
  /\ \E item \in GetItem(msg[h].cluster) \cup {Nil} :
       existing' = [existing EXCEPT ![h] = item]
  /\ pc' = [pc EXCEPT ![h] = "putItem"]
  /\ UNCHANGED <<queueVars, polling, msg, seen, dbVars>>

\* Mutants: RegisteredAt not taken from the existing item; LastUpdated not set
\* by Handle; LastUpdated taken from the time of the write.
NewItemOwnRegisteredAt(h) ==
  [body |-> msg[h], lastUpdated |-> msg[h].sentAt, registeredAt |-> msg[h].id]

NewItemWithoutLastUpdated(h) ==
  [body |-> msg[h], lastUpdated |-> Nil, registeredAt |-> msg[h].id]

NewItemUpdatedNow(h) ==
  [body |-> msg[h], lastUpdated |-> clock, registeredAt |-> msg[h].id]

\* The item PutCluster writes: the body it was called with, LastUpdated from
\* the message, RegisteredAt of the existing item if it found one.
NewItem(h) ==
  [body |-> msg[h],
   lastUpdated |-> msg[h].sentAt,
   registeredAt |-> IF existing[h] = Nil THEN msg[h].id
                                         ELSE existing[h].registeredAt]

\* PutItem replaces the item unconditionally.
StoreItem(h) ==
  /\ db' = [db EXCEPT ![msg[h].cluster] = NewItem(h)]
  /\ written' = written \cup {msg[h]}
  /\ UNCHANGED replica

StoreNothing(h) == UNCHANGED dbVars

\* Mutant: the error of PutItem is dropped.
PutItemDroppingError(h) ==
  /\ pc[h] = "putItem"
  /\ StoreItem(h) \/ StoreNothing(h)
  /\ pc' = [pc EXCEPT ![h] = "delete"]
  /\ seen' = [seen EXCEPT ![h] = Nil]
  /\ existing' = [existing EXCEPT ![h] = Nil]
  /\ UNCHANGED <<queueVars, polling, msg>>

\* PutItem succeeded, and Handle returns nil.
PutItem(h) ==
  /\ pc[h] = "putItem"
  /\ StoreItem(h)
  /\ pc' = [pc EXCEPT ![h] = "delete"]
  /\ seen' = [seen EXCEPT ![h] = Nil]
  /\ existing' = [existing EXCEPT ![h] = Nil]
  /\ UNCHANGED <<queueVars, polling, msg>>

\* PutItem returned an error, whether or not the write took effect: Handle
\* returns it, no Delete.
PutItemError(h) ==
  /\ pc[h] = "putItem"
  /\ StoreItem(h) \/ StoreNothing(h)
  /\ Return(h)
  /\ UNCHANGED <<queueVars, polling>>

\* SQS removes the message, or it does not: the receipt handle may be an old
\* one, or the reply was lost.
RemoveMessage(m) ==
  /\ queue' = queue \ {m}
  /\ visible' = visible \ {m}
  /\ UNCHANGED <<clock, nextId, sent>>

\* Mutant: the message is not deleted.
DeleteForgotten(h) ==
  /\ pc[h] = "delete"
  /\ pc' = [pc EXCEPT ![h] = "invalidate"]
  /\ UNCHANGED <<queueVars, polling, msg, seen, existing, dbVars>>

\* Handle returned nil and DeleteMessage succeeded.
Delete(h) ==
  /\ pc[h] = "delete"
  /\ RemoveMessage(msg[h]) \/ UNCHANGED queueVars
  /\ pc' = [pc EXCEPT ![h] = "invalidate"]
  /\ UNCHANGED <<polling, msg, seen, existing, dbVars>>

\* DeleteMessage returned an error: return, before the cache invalidation.
DeleteError(h) ==
  /\ pc[h] = "delete"
  /\ RemoveMessage(msg[h]) \/ UNCHANGED queueVars
  /\ Return(h)
  /\ UNCHANGED <<polling, dbVars>>

\* The cache invalidation, made, skipped or failed: the handler returns.
Invalidate(h) ==
  /\ pc[h] = "invalidate"
  /\ Return(h)
  /\ UNCHANGED <<queueVars, polling, dbVars>>

-----------------------------------------------------------------------------
(* DynamoDB and the processes.                                             *)

\* The copy catches up with the table.
Replicate(c) ==
  /\ replica[c] # db[c]
  /\ replica' = [replica EXCEPT ![c] = db[c]]
  /\ UNCHANGED <<queueVars, polling, handlerVars, db, written>>

\* A process dies with all its handlers and is started again.
Restart(p) ==
  /\ pc' = [h \in Handler |-> IF h \in p THEN "idle" ELSE pc[h]]
  /\ msg' = [h \in Handler |-> IF h \in p THEN Nil ELSE msg[h]]
  /\ seen' = [h \in Handler |-> IF h \in p THEN Nil ELSE seen[h]]
  /\ existing' = [h \in Handler |-> IF h \in p THEN Nil ELSE existing[h]]
  /\ polling' = [polling EXCEPT ![p] = TRUE]
  /\ UNCHANGED <<queueVars, dbVars>>

\* The steps of the message handler up to the cache invalidation.
MessageStep(h) ==
  \/ Reject(h)
  \/ GetCluster(h)
  \/ GetClusterError(h)
  \/ PutClusterGet(h)
  \/ PutItem(h)
  \/ PutItemError(h)
  \/ Delete(h)
  \/ DeleteError(h)

HandlerStep(h) == MessageStep(h) \/ Invalidate(h)

QueueStep ==
  \/ \E c \in Cluster, kind \in Traffic, t \in 0 .. MaxTime : Send(c, kind, t)
  \/ \E m \in queue : Appear(m)

\* The steps around the handlers.
Surroundings ==
  \/ QueueStep
  \/ \E p \in Process, h \in Handler, m \in visible : Receive(p, h, m)
  \/ \E p \in Process : ReceiveError(p) \/ Restart(p)
  \/ \E c \in Cluster : Replicate(c)

Next == Surroundings \/ \E h \in Handler : HandlerStep(h)

Spec == Init /\ [][Next]_vars

-----------------------------------------------------------------------------
(* What holds of every behaviour.                                          *)

\* An update that is not older than m was written for m's cluster.
Covered(m) ==
  \E w \in written : w.cluster = m.cluster /\ w.sentAt >= m.sentAt

\* A message leaves the queue only if it is a cluster update that was written,
\* or that Handle skipped because an update at least as recent had been
\* written before: whatever fails, is delivered twice or is interrupted, the
\* handler deletes no update the table never saw.
NoLostUpdate ==
  \A m \in sent \ queue : IsClusterUpdate(m) /\ Covered(m)

\* An item is an update of cluster c, with the timestamp of that very message
\* and the RegisteredAt of one that was written for c.
ItemOf(c, item) ==
  /\ item.body \in written
  /\ IsClusterUpdate(item.body)
  /\ item.body.cluster = c
  /\ item.lastUpdated = item.body.sentAt
  /\ \E w \in written : w.cluster = c /\ w.id = item.registeredAt

\* Items mix nothing: concurrent PutClusters of several clusters and messages
\* never store one message's body with another's LastUpdated, nor with the
\* RegisteredAt of another cluster.
ItemsFromMessages ==
  \A c \in Cluster : db[c] # Nil => ItemOf(c, db[c])

RegressIsStaleRead ==
  \A c \in Cluster :
    db[c] # Nil /\ db'[c].lastUpdated < db[c].lastUpdated =>
      \E h \in Handler :
        pc[h] = "putItem" /\ msg[h].cluster = c /\ seen[h] # db[c]

\* LastUpdated of a stored cluster goes backwards only in the PutItem of a
\* handler whose GetCluster did not return the item it replaces: the
\* lastUpdated.Before check is defeated by nothing but a stale read.
RegressOnlyOnStaleRead == [][RegressIsStaleRead]_vars

\* README.md: "the information is accurately reflected in the Cluster
\* Registry".  Once every update sent has left the queue and no handler is at
\* work, the table holds a latest update of each cluster.
AccuratelyReflected ==
  (/\ \A m \in queue : ~IsClusterUpdate(m)
   /\ \A h \in Handler : pc[h] = "idle")
    => \A m \in sent : IsClusterUpdate(m) => db[m.cluster].lastUpdated >= m.sentAt

-----------------------------------------------------------------------------
(* The calm system: the reads of a handler return the current item, and no *)
(* two handlers are between the read and the write of the same cluster.    *)

Window(h) == pc[h] \in {"put", "putItem"}

NoOverlap ==
  \A h1, h2 \in Handler :
    Window(h1) /\ Window(h2) /\ msg[h1].cluster = msg[h2].cluster => h1 = h2

ReadsCurrent ==
  \A h \in Handler :
    /\ pc[h] = "handle" /\ pc'[h] = "put" =>
         seen'[h] = db[msg[h].cluster]
    /\ pc[h] = "put" /\ pc'[h] = "putItem" =>
         existing'[h] = db[msg[h].cluster]

CalmNext == Next /\ ReadsCurrent /\ NoOverlap'

CalmSpec == Init /\ [][CalmNext]_vars

Registry == INSTANCE ClusterRegistry WITH registry <- db

\* In the calm system the table is the abstract registry: the last update
\* wins and RegisteredAt is the one the cluster was first stored with.
ImplementsRegistry == Registry!Spec

\* In the calm system no update is lost or overwritten by an older one: the
\* table is at least as recent as every message deleted from the queue.
Fresh ==
  \A m \in sent \ queue :
    db[m.cluster] # Nil /\ db[m.cluster].lastUpdated >= m.sentAt

-----------------------------------------------------------------------------
(* Progress.                                                               *)

Handling(h, i) == msg[h] # Nil /\ msg[h].id = i

\* SQS makes messages visible and delivers each of them to some handler again
\* and again while it is stored; goroutines run; and a call on behalf of a
\* message that is attempted for ever does not fail for ever.
Fairness ==
  /\ \A h \in Handler : WF_vars(HandlerStep(h))
  /\ \A i \in 1 .. MaxSent :
       /\ WF_vars(\E m \in queue : m.id = i /\ Appear(m))
       /\ SF_vars(\E p \in Process, h \in Handler, m \in visible :
                    m.id = i /\ Receive(p, h, m))
       /\ SF_vars(\E h \in Handler : Handling(h, i) /\ GetCluster(h))
       /\ SF_vars(\E h \in Handler : Handling(h, i) /\ PutClusterGet(h))
       /\ SF_vars(\E h \in Handler : Handling(h, i) /\ PutItem(h))
       /\ SF_vars(\E h \in Handler :
                    Handling(h, i) /\ Delete(h) /\ queue' # queue)

FairSpec == Spec /\ Fairness

Pending(i) == \E m \in queue : m.id = i /\ IsClusterUpdate(m)

\* Unless every Poll loop has ended for good, each cluster update that was
\* sent is handled and leaves the queue, past failing calls, restarts,
\* duplicate deliveries and the messages of other types that stay queued.
EveryUpdateHandled ==
  []<>(\E p \in Process : polling[p]) =>
    \A i \in 1 .. MaxSent : Pending(i) ~> ~Pending(i)

=============================================================================
