--------------------------- MODULE ApiServerProofs --------------------------
(***************************************************************************)
(* Theorems about ApiServer, for any clusters, handlers, processes,        *)
(* requests, cache keys and bounds.                                        *)
(***************************************************************************)
EXTENDS ApiServer, TLAPS

\* A handler at work has a message, and SQS delivers only what was sent.
MessageInv == \A h \in Handler : pc[h] # "idle" => msg[h] \in sent

\* The items that the table and its copy hold were put there by handlers.
DbInv ==
  \A c \in Cluster :
    /\ db[c] # Nil => ItemOf(c, db[c])
    /\ replica[c] # Nil => ItemOf(c, replica[c])

\* What a handler knows after Handle's GetCluster.
DecisionInv ==
  \A h \in Handler :
    /\ pc[h] \notin {"idle", "handle"} => IsClusterUpdate(msg[h])
    /\ Window(h) => ~TooOld(msg[h], seen[h])

\* What PutCluster's own GetCluster returned is an item of the cluster.
ExistingInv ==
  \A h \in Handler :
    pc[h] = "putItem" /\ existing[h] # Nil => ItemOf(msg[h].cluster, existing[h])

\* A handler deletes a message only once it is covered.
DeleteInv ==
  \A h \in Handler : pc[h] \in {"delete", "invalidate"} => Covered(msg[h])

TypeInv == TypeOK /\ MessageInv

IInv ==
  TypeInv /\ DbInv /\ DecisionInv /\ ExistingInv /\ DeleteInv /\ NoLostUpdate

-----------------------------------------------------------------------------
(* Type correctness.                                                       *)

\* What PutCluster builds from a handler's locals is an item.
LEMMA NewItemType ==
  ASSUME TypeOK, NEW h \in Handler, msg[h] \in Message
  PROVE  NewItem(h) \in Item
<1>1. msg[h].id \in Nat /\ msg[h].sentAt \in Nat
  BY DEF Message
<1>2. existing[h] # Nil => existing[h].registeredAt \in Nat
  BY DEF TypeOK, Item
<1>. QED
  BY <1>1, <1>2 DEF NewItem, Item

\* Every handler step that ends in Return keeps the types of the locals.
LEMMA ReturnType ==
  ASSUME TypeInv, NEW h \in Handler, Return(h), sent' = sent
  PROVE  /\ pc' \in [Handler -> PC]
         /\ msg' \in [Handler -> Message \cup {Nil}]
         /\ seen' \in [Handler -> Item \cup {Nil}]
         /\ existing' \in [Handler -> Item \cup {Nil}]
         /\ MessageInv'
BY DEF TypeInv, TypeOK, MessageInv, Return, PC

\* PutItem, whatever it answers, keeps the type of the table.
LEMMA StoreType ==
  ASSUME TypeInv, NEW h \in Handler, pc[h] = "putItem", sent' = sent,
         StoreItem(h) \/ StoreNothing(h)
  PROVE  /\ db' \in [Cluster -> Item \cup {Nil}]
         /\ replica' \in [Cluster -> Item \cup {Nil}]
         /\ written' \subseteq sent'
<1>1. msg[h] \in sent /\ msg[h] \in Message
  BY DEF TypeInv, TypeOK, MessageInv
<1>2. NewItem(h) \in Item
  BY <1>1, NewItemType DEF TypeInv
<1>. QED
  BY <1>1, <1>2 DEF TypeInv, TypeOK, StoreItem, StoreNothing, dbVars

\* Every step of a message handler keeps the types.
LEMMA HandlerStepType ==
  ASSUME TypeInv, NEW h \in Handler, HandlerStep(h)
  PROVE  TypeInv'
<1>1. CASE Reject(h)
  BY <1>1, ReturnType DEF TypeInv, TypeOK, Reject, queueVars, dbVars
<1>2. CASE GetCluster(h)
  <2>1. msg[h] \in Message
    BY <1>2 DEF TypeInv, TypeOK, MessageInv, GetCluster
  <2>2. \A item \in GetItem(msg[h].cluster) : item \in Item \cup {Nil}
    BY <2>1 DEF TypeInv, TypeOK, GetItem, Message
  <2>. QED
    BY <1>2, <2>2
    DEF TypeInv, TypeOK, MessageInv, GetCluster, queueVars, dbVars, PC
<1>3. CASE GetClusterError(h)
  BY <1>3, ReturnType DEF TypeInv, TypeOK, GetClusterError, queueVars, dbVars
<1>4. CASE PutClusterGet(h)
  <2>1. msg[h] \in Message
    BY <1>4 DEF TypeInv, TypeOK, MessageInv, PutClusterGet
  <2>2. \A item \in GetItem(msg[h].cluster) : item \in Item \cup {Nil}
    BY <2>1 DEF TypeInv, TypeOK, GetItem, Message
  <2>. QED
    BY <1>4, <2>2
    DEF TypeInv, TypeOK, MessageInv, PutClusterGet, queueVars, dbVars, PC
<1>5. CASE PutItem(h)
  BY <1>5, StoreType DEF TypeInv, TypeOK, MessageInv, PutItem, queueVars, PC
<1>6. CASE PutItemError(h)
  BY <1>6, StoreType, ReturnType DEF TypeInv, TypeOK, PutItemError, queueVars
<1>7. CASE Delete(h)
  BY <1>7 DEF TypeInv, TypeOK, MessageInv, Delete, RemoveMessage, queueVars, dbVars, PC
<1>8. CASE DeleteError(h)
  BY <1>8, ReturnType DEF TypeInv, TypeOK, DeleteError, RemoveMessage, queueVars, dbVars
<1>9. CASE Invalidate(h)
  BY <1>9, ReturnType DEF TypeInv, TypeOK, Invalidate, queueVars, dbVars
<1>. QED
  BY <1>1, <1>2, <1>3, <1>4, <1>5, <1>6, <1>7, <1>8, <1>9 DEF HandlerStep, MessageStep

\* The client's SendMessageBatch keeps the types.
LEMMA SendType ==
  ASSUME TypeInv, NEW c \in Cluster, NEW kind \in Traffic, NEW t \in 0 .. MaxTime,
         Send(c, kind, t)
  PROVE  TypeInv'
<1> DEFINE m == [id |-> nextId, cluster |-> c, sentAt |-> t, kind |-> kind]
<1>1. m \in Message
  BY PipelineAssumption DEF TypeInv, TypeOK, Message
<1>2. t \in Nat
  BY PipelineAssumption
<1>. QED
  BY <1>1, <1>2 DEF TypeInv, TypeOK, MessageInv, Send, handlerVars, dbVars

\* Every step of the update path keeps the types.
LEMMA NextType == TypeInv /\ [Next]_vars => TypeInv'
<1> SUFFICES ASSUME TypeInv, [Next]_vars PROVE TypeInv'
  OBVIOUS
<1>1. ASSUME NEW c \in Cluster, NEW kind \in Traffic, NEW t \in 0 .. MaxTime,
             Send(c, kind, t)
      PROVE  TypeInv'
  BY <1>1, SendType
<1>2. ASSUME NEW m \in queue, Appear(m) PROVE TypeInv'
  BY <1>2 DEF TypeInv, TypeOK, MessageInv, Appear, handlerVars, dbVars
<1>3. ASSUME NEW p \in Process, NEW h \in Handler, NEW m \in visible, Receive(p, h, m)
      PROVE  TypeInv'
  BY <1>3 DEF TypeInv, TypeOK, MessageInv, Receive, dbVars, PC
<1>4. ASSUME NEW p \in Process, ReceiveError(p) PROVE TypeInv'
  BY <1>4 DEF TypeInv, TypeOK, MessageInv, ReceiveError, queueVars, handlerVars, dbVars
<1>5. ASSUME NEW p \in Process, Restart(p) PROVE TypeInv'
  BY <1>5 DEF TypeInv, TypeOK, MessageInv, Restart, queueVars, dbVars, PC
<1>6. ASSUME NEW h \in Handler, HandlerStep(h) PROVE TypeInv'
  BY <1>6, HandlerStepType
<1>7. ASSUME NEW c \in Cluster, Replicate(c) PROVE TypeInv'
  BY <1>7 DEF TypeInv, TypeOK, MessageInv, Replicate, queueVars, handlerVars
<1>8. CASE UNCHANGED vars
  BY <1>8 DEF TypeInv, TypeOK, MessageInv, vars, queueVars, handlerVars, dbVars
<1>. QED
  BY <1>1, <1>2, <1>3, <1>4, <1>5, <1>6, <1>7, <1>8 DEF Next, Surroundings, QueueStep

\* The type invariant holds in every state of the update path: SQS stores and
\* delivers only what was sent, handlers only what was delivered, and every
\* item PutCluster stores has the timestamp that the next Handle compares.
THEOREM TypeCorrect == Spec => []TypeOK
<1>1. Init => TypeInv
  BY DEF Init, TypeInv, TypeOK, MessageInv, PC
<1>. QED
  BY <1>1, NextType, PTL DEF Spec, TypeInv

-----------------------------------------------------------------------------
(* No update is lost.                                                      *)

\* A step that touches neither the table nor a running handler's locals
\* preserves all that is known of both.
LEMMA HandlersUnchanged ==
  ASSUME IInv, UNCHANGED <<pc, msg, seen, existing, db, replica, written>>
  PROVE  DbInv' /\ DecisionInv' /\ ExistingInv' /\ DeleteInv'
BY DEF IInv, DbInv, DecisionInv, ExistingInv, DeleteInv, Covered, ItemOf,
       Window, TooOld, IsClusterUpdate

\* A handler that returns from the message closure forgets what it knew.
LEMMA ReturnInv ==
  ASSUME IInv, NEW h \in Handler, Return(h), UNCHANGED dbVars
  PROVE  DbInv' /\ DecisionInv' /\ ExistingInv' /\ DeleteInv'
BY DEF IInv, TypeInv, TypeOK, DbInv, DecisionInv, ExistingInv, DeleteInv,
       Covered, ItemOf, Window, TooOld, IsClusterUpdate, Return, dbVars

\* A skipped update is covered by the item it was compared with.
LEMMA SkippedIsCovered ==
  ASSUME IInv, NEW h \in Handler, pc[h] = "handle",
         NEW item \in GetItem(msg[h].cluster), TooOld(msg[h], item)
  PROVE  Covered(msg[h])
<1>1. msg[h] \in Message
  BY DEF IInv, TypeInv, TypeOK, MessageInv
<1>2. ItemOf(msg[h].cluster, item)
  BY <1>1 DEF IInv, DbInv, GetItem, TooOld, Message
<1>3. item.body \in Message
  BY <1>2 DEF ItemOf, IInv, TypeInv, TypeOK
<1>. QED
  BY <1>1, <1>2, <1>3 DEF TooOld, ItemOf, Covered, Message

\* What PutItem stores is an item of the message's cluster, and covers it.
LEMMA StoreInv ==
  ASSUME IInv, NEW h \in Handler, pc[h] = "putItem",
         StoreItem(h) \/ StoreNothing(h)
  PROVE  /\ DbInv'
         /\ written \subseteq written'
         /\ StoreItem(h) => \E w \in written' : w.cluster = msg[h].cluster /\ w.sentAt >= msg[h].sentAt
<1>1. msg[h] \in Message /\ IsClusterUpdate(msg[h])
  BY DEF IInv, TypeInv, TypeOK, MessageInv, DecisionInv
<1>2. CASE StoreNothing(h)
  BY <1>1, <1>2 DEF IInv, DbInv, ItemOf, StoreNothing, StoreItem, dbVars, Message
<1>3. CASE StoreItem(h)
  <2>1. written' = written \cup {msg[h]}
    BY <1>3 DEF StoreItem
  <2>2. db' = [db EXCEPT ![msg[h].cluster] = NewItem(h)] /\ replica' = replica
    BY <1>3 DEF StoreItem
  <2>3. ASSUME NEW c \in Cluster, db'[c] # Nil
        PROVE  ItemOf(c, db[c])'
    <3>1. CASE c # msg[h].cluster
      BY <2>1, <2>2, <2>3, <3>1 DEF IInv, TypeInv, TypeOK, DbInv, ItemOf
    <3>2. CASE c = msg[h].cluster
      <4>1. db'[c] = NewItem(h)
        BY <2>2, <3>2 DEF IInv, TypeInv, TypeOK
      <4>2. \E w \in written' : w.cluster = c /\ w.id = NewItem(h).registeredAt
        BY <2>1, <3>2 DEF IInv, ExistingInv, ItemOf, NewItem
      <4>. QED
        BY <1>1, <2>1, <3>2, <4>1, <4>2 DEF ItemOf, NewItem
    <3>. QED
      BY <3>1, <3>2
  <2>4. ASSUME NEW c \in Cluster, replica'[c] # Nil
        PROVE  ItemOf(c, replica[c])'
    BY <2>1, <2>2, <2>4 DEF IInv, DbInv, ItemOf
  <2>. QED
    BY <1>1, <2>1, <2>3, <2>4 DEF DbInv, Message
<1>. QED
  BY <1>2, <1>3

\* Every step of a message handler preserves the inductive invariant.
LEMMA HandlerStepInv ==
  ASSUME IInv, NEW h \in Handler, HandlerStep(h)
  PROVE  DbInv' /\ DecisionInv' /\ ExistingInv' /\ DeleteInv'
<1>1. CASE Reject(h)
  BY <1>1, ReturnInv DEF Reject
<1>2. CASE GetCluster(h)
  <2>1. DbInv' /\ ExistingInv'
    BY <1>2 DEF IInv, TypeInv, TypeOK, DbInv, ExistingInv, ItemOf, GetCluster, dbVars
  <2>2. DecisionInv'
    BY <1>2 DEF IInv, TypeInv, TypeOK, DecisionInv, Window, TooOld, IsClusterUpdate,
                GetCluster, dbVars
  <2>3. DeleteInv'
    BY <1>2, SkippedIsCovered
    DEF IInv, TypeInv, TypeOK, DeleteInv, Covered, GetCluster, dbVars
  <2>. QED
    BY <2>1, <2>2, <2>3
<1>3. CASE GetClusterError(h)
  BY <1>3, ReturnInv DEF GetClusterError
<1>4. CASE PutClusterGet(h)
  <2>1. DbInv' /\ DeleteInv'
    BY <1>4 DEF IInv, TypeInv, TypeOK, DbInv, DeleteInv, Covered, ItemOf, PutClusterGet, dbVars
  <2>2. DecisionInv'
    BY <1>4 DEF IInv, TypeInv, TypeOK, DecisionInv, Window, TooOld, IsClusterUpdate,
                PutClusterGet
  <2>3. ExistingInv'
    <3>1. msg[h] \in Message
      BY <1>4 DEF IInv, TypeInv, TypeOK, MessageInv, PutClusterGet
    <3>2. \A item \in GetItem(msg[h].cluster) :
            item # Nil => ItemOf(msg[h].cluster, item)
      BY <3>1 DEF IInv, DbInv, GetItem, Message
    <3>. QED
      BY <1>4, <3>2 DEF IInv, TypeInv, TypeOK, ExistingInv, ItemOf, PutClusterGet, dbVars
  <2>. QED
    BY <2>1, <2>2, <2>3
<1>5. CASE PutItem(h)
  <2>1. DbInv' /\ written \subseteq written'
    BY <1>5, StoreInv DEF PutItem
  <2>2. DecisionInv'
    BY <1>5 DEF IInv, TypeInv, TypeOK, DecisionInv, Window, TooOld, IsClusterUpdate, PutItem
  <2>3. ExistingInv'
    BY <1>5, <2>1 DEF IInv, TypeInv, TypeOK, ExistingInv, ItemOf, PutItem
  <2>4. DeleteInv'
    BY <1>5, <2>1, StoreInv DEF IInv, TypeInv, TypeOK, DeleteInv, Covered, PutItem
  <2>. QED
    BY <2>1, <2>2, <2>3, <2>4
<1>6. CASE PutItemError(h)
  <2>1. DbInv' /\ written \subseteq written'
    BY <1>6, StoreInv DEF PutItemError
  <2>. QED
    BY <1>6, <2>1
    DEF IInv, TypeInv, TypeOK, DecisionInv, ExistingInv, DeleteInv, Covered, ItemOf,
        Window, TooOld, IsClusterUpdate, Return, PutItemError
<1>7. CASE Delete(h)
  BY <1>7
  DEF IInv, TypeInv, TypeOK, DbInv, DecisionInv, ExistingInv, DeleteInv, Covered, ItemOf,
      Window, TooOld, IsClusterUpdate, Delete, dbVars
<1>8. CASE DeleteError(h)
  BY <1>8, ReturnInv DEF DeleteError
<1>9. CASE Invalidate(h)
  BY <1>9, ReturnInv DEF Invalidate
<1>. QED
  BY <1>1, <1>2, <1>3, <1>4, <1>5, <1>6, <1>7, <1>8, <1>9 DEF HandlerStep, MessageStep

\* Only Delete and DeleteError take a message out of the queue, and only the
\* message of their handler.
LEMMA RemovalInv ==
  ASSUME IInv, NEW h \in Handler, HandlerStep(h)
  PROVE  NoLostUpdate'
<1>1. sent' = sent /\ (written \subseteq written')
  BY DEF HandlerStep, MessageStep, Reject, GetCluster, GetClusterError, PutClusterGet, PutItem,
         PutItemError, Delete, DeleteError, Invalidate, RemoveMessage, StoreItem,
         StoreNothing, queueVars, dbVars
<1>2. \/ queue' = queue
      \/ queue' = queue \ {msg[h]} /\ pc[h] = "delete"
  BY DEF HandlerStep, MessageStep, Reject, GetCluster, GetClusterError, PutClusterGet, PutItem,
         PutItemError, Delete, DeleteError, Invalidate, RemoveMessage, queueVars
<1>3. pc[h] = "delete" => IsClusterUpdate(msg[h]) /\ Covered(msg[h])
  BY DEF IInv, DecisionInv, DeleteInv
<1>. QED
  BY <1>1, <1>2, <1>3 DEF IInv, NoLostUpdate, Covered

\* Every step of the update path preserves the inductive invariant.
LEMMA NextInv == IInv /\ [Next]_vars => IInv'
<1> SUFFICES ASSUME IInv, [Next]_vars PROVE IInv'
  OBVIOUS
<1>1. TypeInv'
  BY NextType DEF IInv
<1>2. ASSUME NEW c \in Cluster, NEW kind \in Traffic, NEW t \in 0 .. MaxTime,
             Send(c, kind, t)
      PROVE  IInv'
  BY <1>1, <1>2, HandlersUnchanged
  DEF IInv, NoLostUpdate, Covered, Send, handlerVars, dbVars
<1>3. ASSUME NEW m \in queue, Appear(m) PROVE IInv'
  BY <1>1, <1>3, HandlersUnchanged
  DEF IInv, NoLostUpdate, Covered, Appear, handlerVars, dbVars
<1>4. ASSUME NEW p \in Process, NEW h \in Handler, NEW m \in visible, Receive(p, h, m)
      PROVE  IInv'
  <2>1. DbInv' /\ NoLostUpdate'
    BY <1>4 DEF IInv, DbInv, NoLostUpdate, Covered, ItemOf, Receive, dbVars
  <2>2. DecisionInv' /\ ExistingInv' /\ DeleteInv'
    BY <1>4
    DEF IInv, TypeInv, TypeOK, DecisionInv, ExistingInv, DeleteInv, Covered, ItemOf,
        Window, TooOld, IsClusterUpdate, Receive, dbVars
  <2>. QED
    BY <1>1, <2>1, <2>2 DEF IInv
<1>5. ASSUME NEW p \in Process, ReceiveError(p) PROVE IInv'
  BY <1>1, <1>5, HandlersUnchanged
  DEF IInv, NoLostUpdate, Covered, ReceiveError, queueVars, handlerVars, dbVars
<1>6. ASSUME NEW p \in Process, Restart(p) PROVE IInv'
  <2>1. DbInv' /\ NoLostUpdate'
    BY <1>6 DEF IInv, DbInv, NoLostUpdate, Covered, ItemOf, Restart, queueVars, dbVars
  <2>2. DecisionInv' /\ ExistingInv' /\ DeleteInv'
    BY <1>6
    DEF IInv, TypeInv, TypeOK, DecisionInv, ExistingInv, DeleteInv, Covered, ItemOf,
        Window, TooOld, IsClusterUpdate, Restart, dbVars
  <2>. QED
    BY <1>1, <2>1, <2>2 DEF IInv
<1>7. ASSUME NEW h \in Handler, HandlerStep(h) PROVE IInv'
  BY <1>1, <1>7, HandlerStepInv, RemovalInv DEF IInv
<1>8. ASSUME NEW c \in Cluster, Replicate(c) PROVE IInv'
  <2>1. DbInv'
    BY <1>8 DEF IInv, TypeInv, TypeOK, DbInv, ItemOf, Replicate
  <2>2. DecisionInv' /\ ExistingInv' /\ DeleteInv' /\ NoLostUpdate'
    BY <1>8
    DEF IInv, DecisionInv, ExistingInv, DeleteInv, NoLostUpdate, Covered, ItemOf,
        Window, TooOld, IsClusterUpdate, Replicate, queueVars, handlerVars
  <2>. QED
    BY <1>1, <2>1, <2>2 DEF IInv
<1>9. CASE UNCHANGED vars
  BY <1>1, <1>9, HandlersUnchanged
  DEF IInv, NoLostUpdate, Covered, vars, queueVars, handlerVars, dbVars
<1>. QED
  BY <1>2, <1>3, <1>4, <1>5, <1>6, <1>7, <1>8, <1>9 DEF Next, Surroundings, QueueStep

\* The inductive invariant: a handler past its GetCluster handles a cluster
\* update it may write, one past PutItem handles a covered one, and whatever
\* an item read or stored says was written for its cluster.
THEOREM Invariance == Spec => []IInv
<1>1. Init => IInv
  BY DEF Init, IInv, TypeInv, TypeOK, MessageInv, DbInv, DecisionInv, ExistingInv,
         DeleteInv, NoLostUpdate, Window, PC
<1>. QED
  BY <1>1, NextInv, PTL DEF Spec

\* The handler takes no cluster update out of the queue that the table never
\* saw: SQS may redeliver, calls may fail before or after they take effect,
\* and processes may die between any two calls.
THEOREM NoUpdateIsLost == Spec => []NoLostUpdate
BY Invariance, PTL DEF IInv

\* What the table holds for a cluster is one message's body and timestamp, with
\* the RegisteredAt of an update of the same cluster.
THEOREM ItemsAreWhole == Spec => []ItemsFromMessages
<1>1. IInv => ItemsFromMessages
  BY SMTT(20) DEF IInv, DbInv, ItemsFromMessages
<1>. QED
  BY <1>1, Invariance, PTL

-----------------------------------------------------------------------------
(* What the lastUpdated.Before check is good for.                          *)

\* Only PutItem and PutItemError write the table.
LEMMA OnlyPutItemWrites ==
  ASSUME [Next]_vars
  PROVE  db' # db => \E h \in Handler :
                        pc[h] = "putItem" /\ db' = [db EXCEPT ![msg[h].cluster] = NewItem(h)]
BY DEF Next, Surroundings, QueueStep, HandlerStep, MessageStep, Send, Appear, Receive,
   ReceiveError, Restart,
       Replicate, Reject, GetCluster, GetClusterError, PutClusterGet, PutItem,
       PutItemError, Delete, DeleteError, Invalidate, StoreItem, StoreNothing, vars, dbVars

\* LastUpdated goes backwards only when a PutItem follows a stale read.
THEOREM RegressNeedsStaleRead == Spec => RegressOnlyOnStaleRead
<1>1. ASSUME IInv, [Next]_vars, NEW c \in Cluster,
             db[c] # Nil, db'[c].lastUpdated < db[c].lastUpdated
      PROVE  \E h \in Handler :
               pc[h] = "putItem" /\ msg[h].cluster = c /\ seen[h] # db[c]
  <2>1. db[c].lastUpdated \in Nat
    BY <1>1 DEF IInv, TypeInv, TypeOK, Item
  <2>2. PICK h \in Handler :
          pc[h] = "putItem" /\ db' = [db EXCEPT ![msg[h].cluster] = NewItem(h)]
    BY <1>1, <2>1, OnlyPutItemWrites
  <2>3. msg[h].cluster = c
    BY <1>1, <2>1, <2>2 DEF IInv, TypeInv, TypeOK
  <2>4. db'[c].lastUpdated = msg[h].sentAt
    BY <1>1, <2>2, <2>3 DEF IInv, TypeInv, TypeOK, NewItem
  <2>5. ~TooOld(msg[h], seen[h])
    BY <1>1, <2>2 DEF IInv, DecisionInv, Window
  <2>6. seen[h] # db[c]
    BY <1>1, <2>4, <2>5 DEF TooOld
  <2>. QED
    BY <2>2, <2>3, <2>6
<1>2. IInv /\ [Next]_vars => [RegressIsStaleRead]_vars
  BY <1>1 DEF RegressIsStaleRead
<1>. QED
  BY <1>2, Invariance, PTL DEF Spec, RegressOnlyOnStaleRead

-----------------------------------------------------------------------------
(* The calm system implements the abstract registry.                       *)

\* What a handler in its window read is still what the table holds.
SnapshotInv ==
  \A h \in Handler :
    /\ Window(h) => seen[h] = db[msg[h].cluster]
    /\ pc[h] = "putItem" => existing[h] = db[msg[h].cluster]

\* The table is at least as recent as everything ever written to it.
LatestInv ==
  \A w \in written : db[w.cluster] # Nil /\ db[w.cluster].lastUpdated >= w.sentAt

CalmInv == IInv /\ NoOverlap /\ SnapshotInv /\ LatestInv

\* How a handler comes to be in its window: it was, and its locals are what
\* they were, or it made the read that leads to its state.
WindowEntry(h) ==
  /\ Window(h)' =>
       /\ msg'[h] = msg[h]
       /\ \/ Window(h) /\ seen'[h] = seen[h]
          \/ pc[h] = "handle" /\ pc'[h] = "put"
  /\ pc'[h] = "putItem" =>
       \/ pc[h] = "putItem" /\ existing'[h] = existing[h]
       \/ pc[h] = "put"

\* No step but the handler's own GetCluster brings it between its read and
\* its PutItem, nor changes what it read there.
LEMMA EnterWindow ==
  ASSUME TypeOK, [Next]_vars, NEW h \in Handler
  PROVE  WindowEntry(h)
<1> USE DEF TypeOK, WindowEntry, Window
<1>1. ASSUME NEW g \in Handler, HandlerStep(g) PROVE WindowEntry(h)
  <2>1. CASE Reject(g) \/ GetClusterError(g) \/ DeleteError(g) \/ Invalidate(g)
             \/ PutItemError(g)
    BY <2>1 DEF Reject, GetClusterError, DeleteError, Invalidate, PutItemError, Return
  <2>2. CASE GetCluster(g)
    BY <2>2 DEF GetCluster
  <2>3. CASE PutClusterGet(g)
    BY <2>3 DEF PutClusterGet
  <2>4. CASE PutItem(g) \/ Delete(g)
    BY <2>4 DEF PutItem, Delete
  <2>. QED
    BY <1>1, <2>1, <2>2, <2>3, <2>4 DEF HandlerStep, MessageStep
<1>2. ASSUME NEW p \in Process, NEW g \in Handler, NEW m \in visible, Receive(p, g, m)
      PROVE  WindowEntry(h)
  BY <1>2 DEF Receive
<1>3. ASSUME NEW p \in Process, Restart(p) PROVE WindowEntry(h)
  BY <1>3 DEF Restart
<1>4. CASE UNCHANGED handlerVars
  BY <1>4 DEF handlerVars
<1>. QED
  BY <1>1, <1>2, <1>3, <1>4
  DEF Next, Surroundings, QueueStep, Send, Appear, ReceiveError, Replicate, vars

\* A step leaves the table alone, or it is a PutItem that took effect and
\* ends the window of its handler.
LEMMA TableWrite ==
  ASSUME TypeOK, [Next]_vars
  PROVE  \/ UNCHANGED <<db, written>>
         \/ \E h \in Handler :
              /\ pc[h] = "putItem" /\ StoreItem(h) /\ ~Window(h)'
              /\ \A g \in Handler \ {h} : pc'[g] = pc[g]
<1>1. ASSUME NEW h \in Handler, HandlerStep(h), ~UNCHANGED <<db, written>>
      PROVE  /\ pc[h] = "putItem" /\ StoreItem(h) /\ ~Window(h)'
             /\ \A g \in Handler \ {h} : pc'[g] = pc[g]
  BY <1>1 DEF TypeOK, Window, HandlerStep, MessageStep, Reject, GetCluster, GetClusterError,
              PutClusterGet, PutItem, PutItemError, Delete, DeleteError, Invalidate,
              StoreNothing, Return, dbVars
<1>2. (\E h \in Handler : HandlerStep(h)) \/ UNCHANGED <<db, written>>
  BY DEF Next, Surroundings, QueueStep, Send, Appear, Receive, ReceiveError, Restart, Replicate,
         vars, dbVars
<1>. QED
  BY <1>1, <1>2

\* A calm step that leaves the table alone keeps what handlers read current.
LEMMA CalmRead ==
  ASSUME CalmInv, [CalmNext]_vars, UNCHANGED <<db, written>>
  PROVE  SnapshotInv' /\ LatestInv'
<1>1. TypeOK /\ [Next]_vars
  BY DEF CalmInv, IInv, TypeInv, CalmNext
<1>2. ASSUME NEW h \in Handler, Window(h)'
      PROVE  seen'[h] = db[msg[h].cluster] /\ msg'[h] = msg[h]
  BY <1>1, <1>2, EnterWindow
  DEF WindowEntry, CalmInv, SnapshotInv, CalmNext, ReadsCurrent, vars, handlerVars
<1>3. ASSUME NEW h \in Handler, pc'[h] = "putItem"
      PROVE  existing'[h] = db[msg[h].cluster] /\ msg'[h] = msg[h]
  BY <1>1, <1>3, EnterWindow
  DEF WindowEntry, Window, CalmInv, SnapshotInv, CalmNext, ReadsCurrent, vars, handlerVars
<1>4. SnapshotInv'
  BY <1>2, <1>3 DEF SnapshotInv
<1>. QED
  BY <1>4 DEF CalmInv, LatestInv

\* The PutItem of a calm step is an update of the abstract registry, and no
\* other handler was between read and write of the same cluster.
LEMMA CalmWrite ==
  ASSUME CalmInv, [CalmNext]_vars, IInv',
         NEW h \in Handler, pc[h] = "putItem", StoreItem(h), ~Window(h)',
         \A g \in Handler \ {h} : pc'[g] = pc[g]
  PROVE  SnapshotInv' /\ LatestInv' /\ Registry!Next
<1> DEFINE c == msg[h].cluster
<1>1. TypeOK /\ [Next]_vars /\ msg[h] \in Message
  BY DEF CalmInv, IInv, TypeInv, TypeOK, MessageInv, CalmNext
<1>2. c \in Cluster /\ msg[h].sentAt \in Nat
  BY <1>1 DEF Message
<1>3. /\ db' = [db EXCEPT ![c] = NewItem(h)]
      /\ written' = written \cup {msg[h]}
      /\ db'[c] = NewItem(h)
  BY <1>1, <1>2 DEF StoreItem, TypeOK
<1>4. seen[h] = db[c] /\ existing[h] = db[c] /\ ~TooOld(msg[h], seen[h])
  BY DEF CalmInv, SnapshotInv, IInv, DecisionInv, Window
<1>5. db[c] # Nil =>
        NewItem(h).lastUpdated >= db[c].lastUpdated /\ NewItem(h).registeredAt = db[c].registeredAt
  <2>1. db[c] # Nil => db[c].lastUpdated \in Nat
    BY <1>1, <1>2 DEF TypeOK, Item
  <2>. QED
    BY <1>2, <1>4, <2>1 DEF TooOld, NewItem
<1>6. Registry!Next
  <2>1. NewItem(h) \in Item
    BY <1>1, NewItemType
  <2>2. NewItem(h).body.cluster = c
    BY DEF NewItem
  <2>3. Registry!Update(c)
    BY <1>3, <1>5, <2>1, <2>2, Zenon DEF Registry!Update, Registry!Supersedes
  <2>. QED
    BY <1>2, <2>3 DEF Registry!Next
<1>7. LatestInv'
  <2>1. NewItem(h) # Nil /\ NewItem(h).lastUpdated = msg[h].sentAt
    BY <1>1, NewItemType, PipelineAssumption DEF NewItem
  <2>2. ASSUME NEW w \in written'
        PROVE  db'[w.cluster] # Nil /\ db'[w.cluster].lastUpdated >= w.sentAt
    <3>1. w \in Message
      BY <1>1, <1>3, <2>2 DEF TypeOK
    <3>2. w.cluster \in Cluster /\ w.sentAt \in Nat
      BY <3>1 DEF Message
    <3>3. CASE w = msg[h]
      BY <1>2, <1>3, <2>1, <3>3
    <3>4. CASE w \in written /\ w.cluster = c
      <4>1. db[c] # Nil /\ db[c].lastUpdated >= w.sentAt /\ db[c].lastUpdated \in Nat
        BY <1>1, <1>2, <3>4 DEF CalmInv, LatestInv, TypeOK, Item
      <4>. QED
        BY <1>2, <1>3, <1>5, <2>1, <3>2, <3>4, <4>1
    <3>5. CASE w \in written /\ w.cluster # c
      BY <1>1, <1>3, <3>2, <3>5 DEF CalmInv, LatestInv, TypeOK
    <3>. QED
      BY <1>3, <2>2, <3>3, <3>4, <3>5
  <2>. QED
    BY <2>2 DEF LatestInv
<1>8. SnapshotInv'
  <2> SUFFICES ASSUME NEW g \in Handler, Window(g)'
               PROVE  /\ seen'[g] = db'[msg'[g].cluster]
                      /\ pc'[g] = "putItem" => existing'[g] = db'[msg'[g].cluster]
    BY DEF SnapshotInv, Window
  <2>1. g # h /\ pc'[g] = pc[g]
    OBVIOUS
  <2>2. Window(g) /\ msg'[g] = msg[g] /\ seen'[g] = seen[g]
    BY <1>1, <2>1, EnterWindow DEF WindowEntry, Window
  <2>3. pc'[g] = "putItem" => existing'[g] = existing[g]
    BY <1>1, <2>1, EnterWindow DEF WindowEntry
  <2>4. msg[g].cluster # c /\ msg[g].cluster \in Cluster
    BY <1>1, <2>1, <2>2 DEF CalmInv, NoOverlap, Window, IInv, TypeInv, TypeOK, MessageInv, Message
  <2>5. db'[msg[g].cluster] = db[msg[g].cluster]
    BY <1>1, <1>3, <2>4 DEF TypeOK
  <2>. QED
    BY <2>1, <2>2, <2>3, <2>5 DEF CalmInv, SnapshotInv
<1>. QED
  BY <1>6, <1>7, <1>8

\* A calm step of the message handlers preserves CalmInv and is a step of the
\* abstract registry or leaves the table alone.
LEMMA CalmStep == CalmInv /\ [CalmNext]_vars => CalmInv' /\ [Registry!Next]_db
<1> SUFFICES ASSUME CalmInv, [CalmNext]_vars
             PROVE  CalmInv' /\ [Registry!Next]_db
  OBVIOUS
<1>1. [Next]_vars /\ NoOverlap'
  BY DEF CalmNext, CalmInv, NoOverlap, Window, vars, handlerVars
<1>2. IInv'
  BY <1>1, NextInv DEF CalmInv
<1>3. TypeOK
  BY DEF CalmInv, IInv, TypeInv
<1>4. CASE UNCHANGED <<db, written>>
  BY <1>1, <1>2, <1>4, CalmRead DEF CalmInv
<1>5. ASSUME NEW h \in Handler, pc[h] = "putItem", StoreItem(h), ~Window(h)',
             \A g \in Handler \ {h} : pc'[g] = pc[g]
      PROVE  CalmInv' /\ [Registry!Next]_db
  BY <1>1, <1>2, <1>5, CalmWrite DEF CalmInv
<1>. QED
  BY <1>1, <1>3, <1>4, <1>5, TableWrite

\* An empty table with idle handlers satisfies CalmInv.
LEMMA CalmInit == Init => CalmInv
BY DEF Init, CalmInv, IInv, TypeInv, TypeOK, MessageInv, DbInv, DecisionInv, ExistingInv,
       DeleteInv, NoLostUpdate, NoOverlap, SnapshotInv, LatestInv, Window, PC

\* While handlers of one cluster do not overlap and their reads are current,
\* Handle and PutCluster implement a last-writer-wins registry in which
\* RegisteredAt never changes.
THEOREM CalmImplementsRegistry == CalmSpec => ImplementsRegistry
<1>1. Init => Registry!Init
  BY DEF Init, Registry!Init
<1>. QED
  BY <1>1, CalmInit, CalmStep, PTL DEF CalmSpec, ImplementsRegistry, Registry!Spec

\* While handlers of one cluster do not overlap and their reads are current,
\* the table is at least as recent as every update deleted from the queue.
THEOREM CalmIsFresh == CalmSpec => []Fresh
<1>1. CalmInv => Fresh
  <2> SUFFICES ASSUME CalmInv, NEW m \in sent \ queue
               PROVE  db[m.cluster] # Nil /\ db[m.cluster].lastUpdated >= m.sentAt
    BY DEF Fresh
  <2>1. PICK w \in written : w.cluster = m.cluster /\ w.sentAt >= m.sentAt
    BY DEF CalmInv, IInv, NoLostUpdate, Covered
  <2>2. db[m.cluster] # Nil /\ db[m.cluster].lastUpdated >= w.sentAt
    BY <2>1 DEF CalmInv, LatestInv
  <2>3. m \in Message /\ w \in Message
    BY DEF CalmInv, IInv, TypeInv, TypeOK
  <2>4. m.sentAt \in Nat /\ w.sentAt \in Nat /\ m.cluster \in Cluster
    BY <2>3 DEF Message
  <2>5. db[m.cluster].lastUpdated \in Nat
    BY <2>2, <2>4 DEF CalmInv, IInv, TypeInv, TypeOK, Item
  <2>. QED
    BY <2>1, <2>2, <2>4, <2>5
<1>. QED
  BY <1>1, CalmInit, CalmStep, PTL DEF CalmSpec


-----------------------------------------------------------------------------
(* The apiserver contains the update path.                                 *)

\* A step of the apiserver is a step of the update path, or leaves it alone.
LEMMA ApiStepIsPipelineStep == [ApiNext]_allVars => [Next]_vars
<1>1. PipelineStep => Next
  BY DEF PipelineStep, Next, HandlerStep
<1>2. ASSUME NEW h \in Handler, InvalidateStep(h) PROVE Next
  BY <1>2
  DEF InvalidateStep, SkipInvalidation, InvalidateCache, InvalidateError, Next, HandlerStep
<1>3. ASSUME NEW r \in Reader, ReaderStep(r) PROVE UNCHANGED vars
  BY <1>3 DEF ReaderStep, CacheMiss, ListClusters, ListClustersError, CacheSet, Abandon
<1>4. ASSUME NEW q \in Query, Expire(q) PROVE UNCHANGED vars
  BY <1>4 DEF Expire
<1>5. ASSUME NEW c \in Cluster, IndexCluster(c) PROVE UNCHANGED vars
  BY <1>5 DEF IndexCluster
<1>. QED
  BY <1>1, <1>2, <1>3, <1>4, <1>5 DEF ApiNext, allVars

\* The apiserver with its cache and its readers implements the update path.
THEOREM ApiImplementsPipeline == ApiSpec => Spec
BY ApiStepIsPipelineStep, PTL DEF ApiSpec, ApiInit, Spec

\* Nothing the cache or the list requests do makes the handlers lose an update.
THEOREM ApiLosesNoUpdate == ApiSpec => []NoLostUpdate
BY ApiImplementsPipeline, NoUpdateIsLost, PTL

-----------------------------------------------------------------------------
(* Lists and announced updates.                                            *)

\* An update whose handler invalidated the cache was sent, and is covered.
AnnouncedInv == \A m \in announced : m \in sent /\ Covered(m)

\* A list that a request has yet to store shows every announced update.
HeldInv ==
  \A r \in Reader, m \in announced :
    rpc[r] = "set" /\ ~answer[r].failed => ShowsUpdate(answer[r].list, m)

\* The types of what ApiServer adds, and what a request knows of its locals.
ReaderTypeInv ==
  /\ index \in List
  /\ cache \in [Query -> Entry \cup {Nil}]
  /\ rpc \in [Reader -> {"idle", "list", "set"}]
  /\ query \in [Reader -> Query \cup {Nil}]
  /\ answer \in [Reader -> Answer \cup {Nil}]
  /\ \A r \in Reader :
       /\ rpc[r] # "idle" => query[r] \in Query
       /\ rpc[r] = "set" => answer[r] \in Answer

\* Every step of the apiserver keeps the types of the cache and its readers.
LEMMA ReaderType ==
  ASSUME TypeOK, ReaderTypeInv, [ApiNext]_allVars
  PROVE  ReaderTypeInv'
<1> USE DEF ReaderTypeInv
<1>1. CASE UNCHANGED apiVars
  BY <1>1 DEF apiVars
<1>2. ASSUME NEW h \in Handler, InvalidateStep(h) PROVE ReaderTypeInv'
  BY <1>1, <1>2 DEF InvalidateStep, SkipInvalidation, InvalidateCache, InvalidateError
<1>3. ASSUME NEW r \in Reader, NEW q \in Query, CacheMiss(r, q) PROVE ReaderTypeInv'
  BY <1>3 DEF CacheMiss
<1>4. ASSUME NEW r \in Reader, ListClusters(r) PROVE ReaderTypeInv'
  <2>1. [list |-> index, failed |-> FALSE] \in Answer
    BY DEF Answer
  <2>. QED
    BY <1>4, <2>1, Zenon DEF ListClusters
<1>5. ASSUME NEW r \in Reader, ListClustersError(r) PROVE ReaderTypeInv'
  <2>1. [list |-> [c \in Cluster |-> Nil], failed |-> TRUE] \in Answer
    BY DEF Answer, List
  <2>. QED
    BY <1>5, <2>1, Zenon DEF ListClustersError
<1>6. ASSUME NEW r \in Reader, CacheSet(r) PROVE ReaderTypeInv'
  <2>1. [answer |-> answer[r], ttl |-> CacheTTL] \in Entry
    BY <1>6, CacheAssumption DEF CacheSet, Entry
  <2>. QED
    BY <1>6, <2>1 DEF CacheSet, Finish
<1>7. ASSUME NEW r \in Reader, Abandon(r) PROVE ReaderTypeInv'
  BY <1>7 DEF Abandon, Finish
<1>8. ASSUME NEW q \in Query, Expire(q) PROVE ReaderTypeInv'
  BY <1>8 DEF Expire
<1>9. ASSUME NEW c \in Cluster, IndexCluster(c) PROVE ReaderTypeInv'
  BY <1>9 DEF IndexCluster, List, TypeOK
<1>. QED
  BY <1>1, <1>2, <1>3, <1>4, <1>5, <1>6, <1>7, <1>8, <1>9
  DEF ApiNext, PipelineStep, ReaderStep, allVars

\* PutItem is the only step that changes the history of writes, and it adds
\* to it.
LEMMA WrittenGrows ==
  ASSUME TypeOK, [Next]_vars
  PROVE  written \subseteq written'
BY TableWrite DEF StoreItem

\* No step of the update path takes a message out of the history.
LEMMA SentGrows ==
  ASSUME [Next]_vars
  PROVE  sent \subseteq sent'
BY Zenon DEF Next, Surroundings, QueueStep, HandlerStep, MessageStep, Send, Appear, Receive,
       ReceiveError, Restart, Replicate, Reject, GetCluster, GetClusterError,
       PutClusterGet, PutItem, PutItemError, Delete, DeleteError, Invalidate,
       RemoveMessage, vars, queueVars

\* Only an InvalidateCache announces an update, the one its handler wrote or
\* skipped.
LEMMA Announcing ==
  ASSUME [ApiNext]_allVars
  PROVE  \/ announced' = announced
         \/ \E h \in Handler :
              /\ pc[h] = "invalidate"
              /\ announced' = announced \cup {msg[h]}
              /\ cache' = [q \in Query |-> Nil]
              /\ UNCHANGED <<rpc, answer>>
BY Zenon DEF ApiNext, PipelineStep, InvalidateStep, SkipInvalidation, InvalidateCache,
       InvalidateError, ReaderStep, CacheMiss, ListClusters, ListClustersError,
       CacheSet, Abandon, Expire, IndexCluster, apiVars, allVars

\* An announced update stays covered, whatever the apiserver does.
LEMMA AnnouncedStep ==
  ASSUME IInv, AnnouncedInv, [ApiNext]_allVars
  PROVE  AnnouncedInv'
<1>1. [Next]_vars /\ TypeOK
  BY ApiStepIsPipelineStep DEF IInv, TypeInv
<1>2. written \subseteq written' /\ sent \subseteq sent'
  BY <1>1, WrittenGrows, SentGrows
<1>3. \A h \in Handler : pc[h] = "invalidate" => msg[h] \in sent /\ Covered(msg[h])
  BY DEF IInv, TypeInv, MessageInv, DeleteInv
<1>4. \A m \in announced' : m \in sent /\ Covered(m)
  BY <1>3, Announcing DEF AnnouncedInv
<1>. QED
  BY <1>2, <1>4 DEF AnnouncedInv, Covered

\* What the general apiserver keeps.
ApiInv == IInv /\ ReaderTypeInv /\ AnnouncedInv

\* The cache holds responses and the list requests their own: the types of
\* the whole apiserver.
THEOREM ApiTypeCorrect == ApiSpec => []ApiTypeOK
<1>1. ApiInit => ApiInv
  <2>1. Init => IInv
    BY CalmInit DEF CalmInv
  <2>. QED
    BY <2>1 DEF ApiInit, ApiInv, ReaderTypeInv, AnnouncedInv, List
<1>2. ApiInv /\ [ApiNext]_allVars => ApiInv'
  BY ApiStepIsPipelineStep, NextInv, ReaderType, AnnouncedStep DEF ApiInv, IInv, TypeInv
<1>3. ApiInv => ApiTypeOK
  BY DEF ApiInv, IInv, TypeInv, ReaderTypeInv, AnnouncedInv, ApiTypeOK
<1>. QED
  BY <1>1, <1>2, <1>3, PTL DEF ApiSpec

CalmApiInv ==
  CalmInv /\ ReaderTypeInv /\ AnnouncedInv /\ HeldInv /\ AnnouncedIsListed

\* In the calm update path the table shows every announced update.
LEMMA TableShowsAnnounced ==
  ASSUME CalmInv, AnnouncedInv, NEW m \in announced
  PROVE  ShowsUpdate(db, m)
<1>1. PICK w \in written : w.cluster = m.cluster /\ w.sentAt >= m.sentAt
  BY DEF AnnouncedInv, Covered
<1>2. db[m.cluster] # Nil /\ db[m.cluster].lastUpdated >= w.sentAt
  BY <1>1 DEF CalmInv, LatestInv
<1>3. m \in Message /\ w \in Message
  BY DEF AnnouncedInv, CalmInv, IInv, TypeInv, TypeOK
<1>4. m.sentAt \in Nat /\ w.sentAt \in Nat /\ m.cluster \in Cluster
  BY <1>3 DEF Message
<1>5. db[m.cluster].lastUpdated \in Nat
  BY <1>2, <1>4 DEF CalmInv, IInv, TypeInv, TypeOK, Item
<1>. QED
  BY <1>1, <1>2, <1>4, <1>5 DEF ShowsUpdate

\* How a request comes to hold a list: it held it before, or ListClusters read
\* it in this step.
LEMMA Holding ==
  ASSUME ReaderTypeInv, [ApiNext]_allVars, NEW r \in Reader, rpc'[r] = "set"
  PROVE  \/ rpc[r] = "set" /\ answer'[r] = answer[r]
         \/ ListClusters(r) /\ answer'[r].list = index
         \/ answer'[r].failed
<1> USE DEF ReaderTypeInv
<1>1. ASSUME NEW s \in Reader, ReaderStep(s)
      PROVE  \/ rpc[r] = "set" /\ answer'[r] = answer[r]
             \/ ListClusters(r) /\ answer'[r].list = index
             \/ answer'[r].failed
  <2>1. CASE s = r
    BY <1>1, <2>1 DEF ReaderStep, CacheMiss, ListClusters, ListClustersError, CacheSet,
                      Abandon, Finish
  <2>2. CASE s # r
    BY <1>1, <2>2, SMTT(20) DEF ReaderStep, CacheMiss, ListClusters, ListClustersError, CacheSet,
                      Abandon, Finish
  <2>. QED
    BY <2>1, <2>2
<1>. QED
  BY <1>1 DEF ApiNext, PipelineStep, InvalidateStep, SkipInvalidation, InvalidateCache,
              InvalidateError, Expire, IndexCluster, apiVars, allVars

\* How an entry comes to be in the cache: it was there before, or a request
\* stored the list it held.
LEMMA Filling ==
  ASSUME ReaderTypeInv, [ApiNext]_allVars, NEW q \in Query, cache'[q] # Nil
  PROVE  \/ cache'[q] = cache[q]
         \/ \E r \in Reader : rpc[r] = "set" /\ cache'[q].answer = answer[r]
<1> DEFINE Filled == \/ cache'[q] = cache[q]
                     \/ \E r \in Reader : rpc[r] = "set" /\ cache'[q].answer = answer[r]
<1>1. ASSUME NEW r \in Reader, CacheSet(r) PROVE Filled
  <2>1. cache' = [cache EXCEPT ![query[r]] = [answer |-> answer[r], ttl |-> CacheTTL]]
    BY <1>1 DEF CacheSet
  <2>2. cache'[q] = cache[q] \/ cache'[q] = [answer |-> answer[r], ttl |-> CacheTTL]
    BY <2>1 DEF ReaderTypeInv
  <2>. QED
    BY <1>1, <2>2, SMTT(20) DEF CacheSet
<1>2. ASSUME NEW h \in Handler, InvalidateStep(h) PROVE Filled
  BY <1>2
  DEF InvalidateStep, SkipInvalidation, InvalidateCache, InvalidateError, apiVars
<1>3. ASSUME NEW k \in Query, Expire(k) PROVE Filled
  BY <1>3 DEF Expire, ReaderTypeInv
<1>4. CASE UNCHANGED cache
  BY <1>4
<1>. QED
  BY <1>1, <1>2, <1>3, <1>4
  DEF ApiNext, PipelineStep, ReaderStep, CacheMiss, ListClusters, ListClustersError,
      Abandon, IndexCluster, apiVars, allVars

\* A calm step of the apiserver keeps every list as recent as what is announced.
LEMMA CalmApiStep == CalmApiInv /\ [CalmApiNext]_allVars => CalmApiInv'
<1> SUFFICES ASSUME CalmApiInv, [CalmApiNext]_allVars PROVE CalmApiInv'
  OBVIOUS
<1>1. [ApiNext]_allVars /\ [CalmNext]_vars
  BY DEF CalmApiNext, allVars
<1>2. CalmInv'
  BY <1>1, CalmStep DEF CalmApiInv
<1>3. ReaderTypeInv' /\ AnnouncedInv'
  BY <1>1, ReaderType, AnnouncedStep DEF CalmApiInv, CalmInv, IInv, TypeInv
<1>4. CASE announced' = announced
  <2>1. HeldInv'
    <3> SUFFICES ASSUME NEW r \in Reader, NEW m \in announced,
                        rpc'[r] = "set", ~answer'[r].failed
                 PROVE  ShowsUpdate(answer'[r].list, m)
      BY <1>4 DEF HeldInv, ShowsUpdate
    <3>1. CASE rpc[r] = "set" /\ answer'[r] = answer[r]
      BY <3>1 DEF CalmApiInv, HeldInv
    <3>2. CASE ListClusters(r) /\ answer'[r].list = index
      <4>1. index = db
        BY <3>2, Zenon DEF CalmApiNext, ListClusters, allVars, apiVars, CalmApiInv, ReaderTypeInv
      <4>. QED
        BY <3>2, <4>1, TableShowsAnnounced DEF CalmApiInv
    <3>. QED
      BY <1>1, <3>1, <3>2, Holding DEF CalmApiInv
  <2>2. AnnouncedIsListed'
    <3> SUFFICES ASSUME NEW q \in Query, NEW m \in announced,
                        cache'[q] # Nil, ~cache'[q].answer.failed
                 PROVE  ShowsUpdate(cache'[q].answer.list, m)
      BY <1>4 DEF AnnouncedIsListed, ShowsUpdate
    <3>. QED
      BY <1>1, Filling DEF CalmApiInv, HeldInv, AnnouncedIsListed
  <2>. QED
    BY <1>2, <1>3, <2>1, <2>2 DEF CalmApiInv
<1>5. CASE announced' # announced
  <2>1. cache' = [q \in Query |-> Nil] /\ rpc' = rpc
    BY <1>1, <1>5, Announcing
  <2>2. \A r \in Reader : rpc'[r] # "set"
    BY <1>5, <2>1 DEF CalmApiNext, allVars, apiVars
  <2>3. HeldInv' /\ AnnouncedIsListed'
    BY <2>1, <2>2 DEF HeldInv, AnnouncedIsListed
  <2>. QED
    BY <1>2, <1>3, <2>3 DEF CalmApiInv
<1>. QED
  BY <1>4, <1>5

\* In the calm apiserver no cached list is older than an update whose handler
\* has invalidated the cache.
THEOREM CalmListsAreFresh == CalmApiSpec => []AnnouncedIsListed
<1>1. ApiInit => CalmApiInv
  BY CalmInit
  DEF ApiInit, CalmApiInv, ReaderTypeInv, AnnouncedInv, HeldInv, AnnouncedIsListed, List
<1>2. CalmApiInv => AnnouncedIsListed
  BY DEF CalmApiInv
<1>. QED
  BY <1>1, <1>2, CalmApiStep, PTL DEF CalmApiSpec

=============================================================================
