-------------------------- MODULE SyncManagerProofs -------------------------
(***************************************************************************)
(* Theorems about SyncManager, for any ClusterSyncs, number of watched     *)
(* resources, contents and bounds.                                         *)
(***************************************************************************)
EXTENDS SyncManager, TLAPS

\* A reconcile has an instance, and its loops stay within the fields.
LocalInv ==
  \A s \in Sync :
    /\ IF pc[s] = "idle" THEN step[s] = 0 ELSE instance[s] \in Instance
    /\ pc[s] = "set" => step[s] \in Field
    /\ pc[s] = "parse" => step[s] \in 1 .. N + 1
    /\ pc[s] = "merge" => step[s] \in 1 .. N

TypeInv == SyncTypeOK /\ LocalInv

-----------------------------------------------------------------------------
(* Type correctness.                                                       *)

\* The manager starts well typed.
LEMMA InitType == Init => TypeInv
BY SyncAssumption
DEF Init, TypeInv, SyncTypeOK, LocalInv, Field, Entry, Data, Instance, NoData, PC

\* A reconcile that returns leaves its locals well typed.
LEMMA ReturnType ==
  ASSUME TypeInv, NEW s \in Sync, Return(s)
  PROVE  /\ pc' \in [Sync -> PC]
         /\ step' \in [Sync -> 0 .. N + 1]
         /\ instance' \in [Sync -> Instance \cup {Nil}]
         /\ now' \in [Sync -> BOOLEAN]
         /\ patch' \in [Sync -> Entry \cup {Nil}]
         /\ errs' \in [Sync -> BOOLEAN]
         /\ data' \in [Sync -> Data]
         /\ LocalInv'
<1>1. NoData \in Data
  BY DEF NoData, Data
<1>2. 0 \in 0 .. N + 1
  BY SyncAssumption
<1>3. /\ pc' \in [Sync -> PC]
      /\ step' \in [Sync -> 0 .. N + 1]
      /\ instance' \in [Sync -> Instance \cup {Nil}]
      /\ now' \in [Sync -> BOOLEAN]
      /\ patch' \in [Sync -> Entry \cup {Nil}]
      /\ errs' \in [Sync -> BOOLEAN]
      /\ data' \in [Sync -> Data]
  BY <1>1, <1>2 DEF TypeInv, SyncTypeOK, Return, PC
<1>4. LocalInv'
  BY DEF TypeInv, SyncTypeOK, LocalInv, Return
<1>. QED
  BY <1>3, <1>4

\* The steps of Kubernetes keep the types.
LEMMA KubernetesType ==
  ASSUME TypeInv, NEW s \in Sync, Kubernetes(s)
  PROVE  TypeInv'
<1>1. ASSUME NEW k \in 1 .. N, NEW v \in Version, Change(s, k, v)
      PROVE  TypeInv'
  BY <1>1 DEF TypeInv, SyncTypeOK, LocalInv, Change, localVars
<1>2. ASSUME NEW v \in Version, Edit(s, v)
      PROVE  TypeInv'
  <2>1. server' \in [Sync -> Instance]
    BY <1>2, Zenon DEF TypeInv, SyncTypeOK, Edit, Instance
  <2>2. now' \in [Sync -> BOOLEAN] /\ cacheNow' \in [Sync -> BOOLEAN]
    BY <1>2 DEF TypeInv, SyncTypeOK, Edit
  <2>. QED
    BY <1>2, <2>1, <2>2 DEF TypeInv, SyncTypeOK, LocalInv, Edit
<1>3. CASE Notify(s)
  BY <1>3 DEF TypeInv, SyncTypeOK, LocalInv, Notify, apiVars, localVars
<1>4. CASE Observe(s)
  BY <1>4 DEF TypeInv, SyncTypeOK, LocalInv, Observe, localVars
<1>. QED
  BY <1>1, <1>2, <1>3, <1>4 DEF Kubernetes

\* The start of a reconcile keeps the types.
LEMMA StartType ==
  ASSUME TypeInv, NEW s \in Sync, Start(s)
  PROVE  TypeInv'
<1>1. SyncTypeOK'
  BY DEF TypeInv, SyncTypeOK, Start, apiVars, PC
<1>2. step[s] \in Field
  BY SyncAssumption DEF TypeInv, LocalInv, Start, Field
<1>3. cached[s] \in Instance
  BY DEF TypeInv, SyncTypeOK
<1>4. LocalInv'
  BY <1>2, <1>3 DEF TypeInv, SyncTypeOK, LocalInv, Start
<1>. QED
  BY <1>1, <1>4 DEF TypeInv

\* The steps that fill the buffer keep the types.
LEMMA ParserType ==
  ASSUME TypeInv, NEW s \in Sync,
         SetBuffer(s) \/ Parse(s) \/ ParseError(s) \/ Merge(s)
  PROVE  TypeInv'
<1>1. instance[s].initial \in Version \/ pc[s] = "idle"
  BY DEF TypeInv, LocalInv, Instance
<1>2. CASE SetBuffer(s)
  <2>1. step[s] \in 0 .. N /\ instance[s].initial \in Version
    BY <1>1, <1>2 DEF TypeInv, LocalInv, SetBuffer, Field
  <2>2. [sync |-> s, version |-> instance[s].initial] \in Entry
    BY <2>1 DEF Entry
  <2>3. buffer' \in Data
    BY <1>2, <2>1, <2>2 DEF SetBuffer, TypeInv, SyncTypeOK, Data, Field
  <2>4. CASE step[s] < N
    <3>1. step[s] + 1 \in 0 .. N
      BY <2>1, <2>4, SyncAssumption
    <3>2. step' = [step EXCEPT ![s] = step[s] + 1] /\ pc' = pc
      BY <1>2, <2>4 DEF SetBuffer
    <3>3. step' \in [Sync -> 0 .. N + 1]
      BY <3>1, <3>2, SyncAssumption DEF TypeInv, SyncTypeOK
    <3>4. LocalInv'
      BY <1>2, <3>1, <3>2 DEF SetBuffer, TypeInv, SyncTypeOK, LocalInv, Field
    <3>. QED
      BY <1>2, <2>3, <3>2, <3>3, <3>4 DEF SetBuffer, TypeInv, SyncTypeOK, apiVars
  <2>5. CASE ~(step[s] < N)
    <3>1. 1 \in 0 .. N + 1 /\ 1 \in 1 .. N + 1
      BY SyncAssumption
    <3>2. step' = [step EXCEPT ![s] = 1] /\ pc' = [pc EXCEPT ![s] = "parse"]
      BY <1>2, <2>5 DEF SetBuffer
    <3>3. step' \in [Sync -> 0 .. N + 1] /\ pc' \in [Sync -> PC]
      BY <3>1, <3>2 DEF TypeInv, SyncTypeOK, PC
    <3>4. LocalInv'
      BY <1>2, <3>1, <3>2 DEF SetBuffer, TypeInv, SyncTypeOK, LocalInv
    <3>. QED
      BY <1>2, <2>3, <3>3, <3>4 DEF SetBuffer, TypeInv, SyncTypeOK, apiVars
  <2>. QED
    BY <2>4, <2>5
<1>3. CASE Parse(s)
  <2>1. step[s] \in 1 .. N
    BY <1>3, SyncAssumption DEF Parse, TypeInv, LocalInv
  <2>2. [sync |-> s, version |-> objects[s][step[s]]] \in Entry
    <3>1. objects[s] \in [1 .. N -> Version]
      BY DEF TypeInv, SyncTypeOK
    <3>. QED
      BY <2>1, <3>1, Zenon DEF Entry
  <2>3. patch' \in [Sync -> Entry \cup {Nil}] /\ pc' \in [Sync -> PC]
    BY <1>3, <2>2 DEF Parse, TypeInv, SyncTypeOK, PC
  <2>4. LocalInv'
    BY <1>3, <2>1 DEF Parse, TypeInv, SyncTypeOK, LocalInv
  <2>. QED
    BY <1>3, <2>3, <2>4 DEF Parse, TypeInv, SyncTypeOK, apiVars
<1>4. CASE ParseError(s)
  <2>1. step[s] + 1 \in 1 .. N + 1
    BY <1>4, SyncAssumption DEF ParseError, TypeInv, LocalInv
  <2>2. step' \in [Sync -> 0 .. N + 1]
    BY <1>4, <2>1, SyncAssumption DEF ParseError, TypeInv, SyncTypeOK
  <2>3. errs' \in [Sync -> BOOLEAN]
    BY <1>4 DEF ParseError, TypeInv, SyncTypeOK
  <2>4. LocalInv'
    BY <1>4, <2>1 DEF ParseError, TypeInv, SyncTypeOK, LocalInv
  <2>. QED
    BY <1>4, <2>2, <2>3, <2>4 DEF ParseError, TypeInv, SyncTypeOK, apiVars
<1>5. CASE Merge(s)
  <2>1. step[s] \in 1 .. N /\ step[s] + 1 \in 1 .. N + 1
    BY <1>5, SyncAssumption DEF Merge, TypeInv, LocalInv
  <2>2. step' \in [Sync -> 0 .. N + 1] /\ pc' \in [Sync -> PC]
    BY <1>5, <2>1, SyncAssumption DEF Merge, TypeInv, SyncTypeOK, PC
  <2>3. buffer' \in Data /\ patch' \in [Sync -> Entry \cup {Nil}]
    BY <1>5, Zenon DEF Merge, TypeInv, SyncTypeOK, Data
  <2>4. LocalInv'
    BY <1>5, <2>1 DEF Merge, TypeInv, SyncTypeOK, LocalInv
  <2>. QED
    BY <1>5, <2>2, <2>3, <2>4 DEF Merge, TypeInv, SyncTypeOK, apiVars
<1>. QED
  BY <1>2, <1>3, <1>4, <1>5

\* The steps that read the buffer and send the data keep the types.
LEMMA SenderType ==
  ASSUME TypeInv, NEW s \in Sync,
         EndParse(s) \/ Diff(s) \/ Enqueue(s) \/ EnqueueError(s)
  PROVE  TypeInv'
<1>1. CASE EndParse(s)
  <2>1. instance[s] \in Instance
    BY <1>1 DEF EndParse, TypeInv, LocalInv
  <2>2. instance' \in [Sync -> Instance \cup {Nil}] /\ instance'[s] \in Instance
    <3>1. \A b \in BOOLEAN : [instance[s] EXCEPT !.failed = b] \in Instance
      BY <2>1 DEF Instance
    <3>2. \E b \in BOOLEAN : instance' = [instance EXCEPT ![s] = [instance[s] EXCEPT !.failed = b]]
      BY <1>1, Zenon DEF EndParse
    <3>. QED
      BY <3>1, <3>2 DEF TypeInv, SyncTypeOK
  <2>3. step' \in [Sync -> 0 .. N + 1] /\ pc' \in [Sync -> PC]
    <3>1. 0 \in 0 .. N + 1
      BY SyncAssumption
    <3>2. \E p \in PC : pc' = [pc EXCEPT ![s] = p]
      BY <1>1 DEF EndParse, PC
    <3>. QED
      BY <1>1, <3>1, <3>2 DEF EndParse, TypeInv, SyncTypeOK
  <2>4. LocalInv'
    BY <1>1, <2>2 DEF EndParse, TypeInv, SyncTypeOK, LocalInv
  <2>. QED
    BY <1>1, <2>2, <2>3, <2>4 DEF EndParse, TypeInv, SyncTypeOK, apiVars
<1>2. CASE Diff(s) /\ step[s] <= N
  <2>1. step[s] \in Field
    BY <1>2, SyncAssumption DEF TypeInv, SyncTypeOK, Field
  <2>2. data' \in [Sync -> Data]
    <3>1. data[s] \in Data /\ buffer[step[s]] \in Entry \cup {Nil}
      BY <2>1 DEF TypeInv, SyncTypeOK, Data
    <3>2. [data[s] EXCEPT ![step[s]] = buffer[step[s]]] \in Data
      BY <3>1, Zenon DEF Data
    <3>3. data' = [data EXCEPT ![s] = [data[s] EXCEPT ![step[s]] = buffer[step[s]]]]
      BY <1>2 DEF Diff
    <3>. QED
      BY <3>2, <3>3 DEF TypeInv, SyncTypeOK
  <2>3. step' \in [Sync -> 0 .. N + 1]
    <3>1. step[s] + 1 \in 0 .. N + 1
      BY <2>1, SyncAssumption DEF Field
    <3>2. step' = [step EXCEPT ![s] = step[s] + 1]
      BY <1>2 DEF Diff
    <3>. QED
      BY <3>1, <3>2 DEF TypeInv, SyncTypeOK
  <2>4. LocalInv'
    BY <1>2, Zenon DEF Diff, TypeInv, SyncTypeOK, LocalInv
  <2>. QED
    BY <1>2, <2>2, <2>3, <2>4 DEF Diff, TypeInv, SyncTypeOK, apiVars
<1>3. CASE Diff(s) /\ ~(step[s] <= N) /\ Return(s)
  BY <1>3, ReturnType DEF Diff, TypeInv, SyncTypeOK, apiVars
<1>4. CASE Diff(s) /\ ~(step[s] <= N) /\ ~Return(s)
  BY <1>4, Zenon DEF Diff, TypeInv, SyncTypeOK, LocalInv, apiVars, PC
<1>5. CASE Enqueue(s) \/ EnqueueError(s)
  <2>1. instance[s] \in Instance
    BY <1>5 DEF Enqueue, EnqueueError, TypeInv, LocalInv
  <2>2. instance' \in [Sync -> Instance \cup {Nil}] /\ instance'[s] \in Instance
    <3>1. [instance[s] EXCEPT !.hash = data[s]] \in Instance
      BY <2>1, Zenon DEF Instance, TypeInv, SyncTypeOK
    <3>2. instance' = [instance EXCEPT ![s] = [instance[s] EXCEPT !.hash = data[s]]]
      BY <1>5 DEF Enqueue, EnqueueError, StoreHash
    <3>. QED
      BY <3>1, <3>2 DEF TypeInv, SyncTypeOK
  <2>3. LocalInv'
    BY <1>5, <2>2 DEF Enqueue, EnqueueError, StoreHash, TypeInv, SyncTypeOK, LocalInv
  <2>4. pc' \in [Sync -> PC] /\ last' \in [Sync -> Data \cup {Nil}]
    BY <1>5, ZenonT(30) DEF Enqueue, EnqueueError, StoreHash, TypeInv, SyncTypeOK, PC
  <2>. QED
    BY <1>5, <2>2, <2>3, <2>4
    DEF Enqueue, EnqueueError, StoreHash, TypeInv, SyncTypeOK, apiVars
<1>. QED
  BY <1>1, <1>2, <1>3, <1>4, <1>5

\* The update of the status keeps the types.
LEMMA StatusType ==
  ASSUME TypeInv, NEW s \in Sync, UpdateStatus(s) \/ UpdateStatusError(s)
  PROVE  TypeInv'
<1>1. Return(s) /\ instance[s] \in Instance
  BY DEF UpdateStatus, UpdateStatusError, TypeInv, LocalInv
<1>2. server' \in [Sync -> Instance] /\ cacheNow' \in [Sync -> BOOLEAN]
  BY <1>1, Zenon DEF UpdateStatus, UpdateStatusError, StoreStatus, TypeInv, SyncTypeOK
<1>. QED
  BY <1>1, <1>2, ReturnType DEF UpdateStatus, UpdateStatusError, TypeInv, SyncTypeOK

\* Every step keeps the types.
LEMMA NextType == TypeInv /\ [Next]_vars => TypeInv'
<1> SUFFICES ASSUME TypeInv, [Next]_vars PROVE TypeInv'
  OBVIOUS
<1>1. CASE Restart
  <2>1. NoData \in Data
    BY DEF NoData, Data
  <2>2. SyncTypeOK'
    BY <1>1, <2>1, SyncAssumption DEF Restart, TypeInv, SyncTypeOK, PC
  <2>3. LocalInv'
    BY <1>1 DEF Restart, LocalInv
  <2>. QED
    BY <2>2, <2>3 DEF TypeInv
<1>2. ASSUME NEW s \in Sync, Reconcile(s) PROVE TypeInv'
  BY <1>2, ParserType, SenderType, StatusType DEF Reconcile
<1>3. CASE UNCHANGED vars
  BY <1>3 DEF TypeInv, SyncTypeOK, LocalInv, vars, apiVars, localVars
<1>. QED
  BY <1>1, <1>2, <1>3, KubernetesType, StartType DEF Next

\* The state of the manager, of its reconciles and of the objects has the
\* declared types, with any number of overlapping reconciles.
THEOREM TypeCorrect == Spec => []SyncTypeOK
<1>1. Spec => []TypeInv
  BY InitType, NextType, PTL DEF Spec
<1>. QED
  BY <1>1, PTL DEF TypeInv

-----------------------------------------------------------------------------
(* Isolation in the calm manager.                                          *)

\* A handler is given the objects of the ClusterSync that is parsed.
PatchInv == \A s \in Sync : patch[s] # Nil => patch[s].sync = s

\* What the reconcile that uses the buffer has made of it.
BufferInv ==
  \A s \in Sync :
    /\ pc[s] = "set" =>
         /\ step[s] > 0 => buffer[0] # Nil
         /\ \A f \in Field : f < step[s] /\ buffer[f] # Nil => buffer[f].sync = s
    /\ pc[s] \in {"parse", "merge", "diff"} => OwnData(s, buffer)

\* What Diff has read so far is what the buffer has.
DataInv ==
  \A s \in Sync :
    /\ pc[s] = "diff" => \A f \in Field : f < step[s] => data[s][f] = buffer[f]
    /\ pc[s] = "enqueue" => OwnData(s, data[s])

CalmInv == TypeInv /\ NoOverlap /\ PatchInv /\ BufferInv /\ DataInv /\ Isolated

\* Steps that leave the buffer, the locals and what was sent alone.
LEMMA ParserUnchanged ==
  ASSUME CalmInv, UNCHANGED <<pc, step, patch, data, buffer, last>>
  PROVE  PatchInv' /\ BufferInv' /\ DataInv' /\ Isolated'
BY DEF CalmInv, PatchInv, BufferInv, DataInv, Isolated, OwnData

\* A reconcile that returns or begins makes no claim on the buffer.
LEMMA LeavesBuffer ==
  ASSUME CalmInv, NEW s \in Sync, UNCHANGED <<buffer, last>>,
         Start(s) \/ Return(s)
  PROVE  PatchInv' /\ BufferInv' /\ DataInv' /\ Isolated'
<1>1. CASE Start(s)
  <2>1. step[s] = 0 /\ pc'[s] = "set" /\ UNCHANGED <<step, patch, data>>
    BY <1>1 DEF Start, CalmInv, TypeInv, SyncTypeOK, LocalInv
  <2>2. \A t \in Sync \ {s} : pc'[t] = pc[t]
    BY <1>1 DEF Start, CalmInv, TypeInv, SyncTypeOK
  <2>3. \A f \in Field : ~(f < 0)
    BY SyncAssumption DEF Field
  <2>. QED
    BY <2>1, <2>2, <2>3 DEF CalmInv, PatchInv, BufferInv, DataInv, Isolated, OwnData
<1>2. CASE Return(s)
  <2>1. pc'[s] = "idle" /\ patch'[s] = Nil
    BY <1>2 DEF Return, CalmInv, TypeInv, SyncTypeOK
  <2>2. \A t \in Sync \ {s} : /\ pc'[t] = pc[t]
                              /\ step'[t] = step[t]
                              /\ patch'[t] = patch[t]
                              /\ data'[t] = data[t]
    BY <1>2 DEF Return, CalmInv, TypeInv, SyncTypeOK
  <2>. QED
    BY <2>1, <2>2 DEF CalmInv, PatchInv, BufferInv, DataInv, Isolated, OwnData
<1>. QED
  BY <1>1, <1>2

\* SetBuffer claims one more field for its ClusterSync.
LEMMA SetBufferInv ==
  ASSUME CalmInv, NEW s \in Sync, SetBuffer(s)
  PROVE  PatchInv' /\ BufferInv' /\ DataInv' /\ Isolated'
<1>1. step[s] \in 0 .. N /\ pc[s] = "set" /\ Window(s)
  BY DEF SetBuffer, CalmInv, TypeInv, LocalInv, Field, Window
<1>2. \A t \in Sync \ {s} : ~Window(t)
  BY <1>1 DEF CalmInv, NoOverlap
<1>3. \A t \in Sync \ {s} : pc'[t] = pc[t] /\ UNCHANGED <<patch, data, last>>
  BY DEF SetBuffer, CalmInv, TypeInv, SyncTypeOK
<1>4. /\ \A f \in Field \ {step[s]} : buffer'[f] = buffer[f]
      /\ buffer'[step[s]] # Nil => buffer'[step[s]].sync = s
      /\ step[s] = 0 => buffer'[0] # Nil
  <2>1. buffer \in [Field -> Entry \cup {Nil}] /\ step[s] \in Field
    BY <1>1 DEF CalmInv, TypeInv, SyncTypeOK, Data, Field
  <2>2. instance[s].initial \in Version
    BY <1>1 DEF CalmInv, TypeInv, LocalInv, Instance
  <2>3. [sync |-> s, version |-> instance[s].initial] # Nil
    BY <2>2, SyncAssumption DEF Entry
  <2>. QED
    BY <2>1, <2>3 DEF SetBuffer
<1>5. buffer'[0] # Nil
  BY <1>1, <1>4, SyncAssumption DEF CalmInv, BufferInv, Field
<1>6. \A f \in Field : f <= step[s] /\ buffer'[f] # Nil => buffer'[f].sync = s
  BY <1>1, <1>4 DEF CalmInv, BufferInv, Field
<1>7. PatchInv' /\ Isolated'
  BY <1>3 DEF SetBuffer, CalmInv, PatchInv, Isolated, OwnData
<1>8. CASE step[s] < N
  <2>1. step'[s] = step[s] + 1 /\ pc' = pc
    BY <1>8 DEF SetBuffer, CalmInv, TypeInv, SyncTypeOK
  <2>2. \A f \in Field : f < step'[s] => f <= step[s]
    BY <1>1, <2>1 DEF Field
  <2>. QED
    BY <1>1, <1>2, <1>3, <1>5, <1>6, <1>7, <2>1, <2>2
    DEF CalmInv, BufferInv, DataInv, Window, OwnData
<1>9. CASE ~(step[s] < N)
  <2>1. pc'[s] = "parse"
    BY <1>9 DEF SetBuffer, CalmInv, TypeInv, SyncTypeOK
  <2>2. \A f \in Field : f <= step[s]
    BY <1>1, <1>9, SyncAssumption DEF Field
  <2>3. OwnData(s, buffer')
    BY <1>5, <1>6, <2>2 DEF OwnData
  <2>. QED
    BY <1>1, <1>2, <1>3, <1>7, <2>1, <2>3 DEF CalmInv, BufferInv, DataInv, Window, OwnData
<1>. QED
  BY <1>8, <1>9

\* Parse keeps the buffer to its ClusterSync.
LEMMA ParseInv ==
  ASSUME CalmInv, NEW s \in Sync, Parse(s) \/ ParseError(s) \/ Merge(s)
  PROVE  PatchInv' /\ BufferInv' /\ DataInv' /\ Isolated'
<1>1. Window(s) /\ OwnData(s, buffer) /\ pc[s] \in {"parse", "merge"}
  BY DEF Parse, ParseError, Merge, CalmInv, BufferInv, Window
<1>2. \A t \in Sync \ {s} : ~Window(t)
  BY <1>1 DEF CalmInv, NoOverlap
<1>3. UNCHANGED <<data, last>>
  BY DEF Parse, ParseError, Merge
<1>4. \A t \in Sync \ {s} : pc'[t] = pc[t]
  BY DEF Parse, ParseError, Merge, CalmInv, TypeInv, SyncTypeOK
<1>5. pc'[s] \in {"parse", "merge"}
  BY <1>1 DEF Parse, ParseError, Merge, CalmInv, TypeInv, SyncTypeOK
<1>6. PatchInv'
  <2>1. CASE Parse(s)
    BY <2>1 DEF Parse, CalmInv, TypeInv, SyncTypeOK, PatchInv
  <2>2. CASE ParseError(s)
    BY <2>2 DEF ParseError, CalmInv, PatchInv
  <2>3. CASE Merge(s)
    BY <2>3 DEF Merge, CalmInv, TypeInv, SyncTypeOK, PatchInv
  <2>. QED
    BY <2>1, <2>2, <2>3
<1>7. OwnData(s, buffer')
  <2>1. CASE Parse(s) \/ ParseError(s)
    BY <1>1, <2>1 DEF Parse, ParseError
  <2>2. CASE Merge(s)
    <3>1. step[s] \in 1 .. N /\ step[s] \in Field /\ step[s] # 0
      BY <2>2, SyncAssumption DEF Merge, CalmInv, TypeInv, LocalInv, Field
    <3>2. buffer \in [Field -> Entry \cup {Nil}] /\ 0 \in Field
      BY SyncAssumption DEF CalmInv, TypeInv, SyncTypeOK, Data, Field
    <3>3. patch[s] # Nil => patch[s].sync = s
      BY DEF CalmInv, PatchInv
    <3>. QED
      BY <1>1, <2>2, <3>1, <3>2, <3>3 DEF Merge, OwnData
  <2>. QED
    BY <2>1, <2>2
<1>8. Isolated'
  BY <1>3 DEF CalmInv, Isolated, OwnData
<1>9. BufferInv' /\ DataInv'
  BY <1>2, <1>3, <1>4, <1>5, <1>7 DEF CalmInv, BufferInv, DataInv, Window, OwnData
<1>. QED
  BY <1>6, <1>8, <1>9

\* Diff reads what the buffer has, and what it has is of its ClusterSync.
LEMMA DiffInv ==
  ASSUME CalmInv, NEW s \in Sync, EndParse(s) \/ Diff(s)
  PROVE  PatchInv' /\ BufferInv' /\ DataInv' /\ Isolated'
<1>1. CASE EndParse(s)
  <2>1. /\ OwnData(s, buffer)
        /\ pc'[s] \in {"diff", "status"}
        /\ step'[s] = 0
        /\ \A t \in Sync \ {s} : pc'[t] = pc[t] /\ step'[t] = step[t]
        /\ UNCHANGED <<patch, data, buffer, last>>
    BY <1>1 DEF EndParse, CalmInv, BufferInv, TypeInv, SyncTypeOK
  <2>2. \A f \in Field : ~(f < 0)
    BY SyncAssumption DEF Field
  <2>. QED
    BY <2>1, <2>2 DEF CalmInv, PatchInv, BufferInv, DataInv, Isolated, OwnData
<1>2. CASE Diff(s) /\ step[s] <= N
  <2>1. OwnData(s, buffer) /\ pc[s] = "diff" /\ UNCHANGED <<pc, patch, buffer, last>>
    BY <1>2 DEF Diff, CalmInv, BufferInv
  <2>2. step[s] \in Field
    BY <1>2, SyncAssumption DEF CalmInv, TypeInv, SyncTypeOK, Field
  <2>3. data[s] \in [Field -> Entry \cup {Nil}]
    BY DEF CalmInv, TypeInv, SyncTypeOK, Data
  <2>4. /\ data'[s] = [data[s] EXCEPT ![step[s]] = buffer[step[s]]]
        /\ step'[s] = step[s] + 1
        /\ \A t \in Sync \ {s} : data'[t] = data[t] /\ step'[t] = step[t]
    BY <1>2 DEF Diff, CalmInv, TypeInv, SyncTypeOK
  <2>5. \A f \in Field : f < step'[s] => f < step[s] \/ f = step[s]
    BY <2>2, <2>4 DEF Field
  <2>6. \A f \in Field : f < step'[s] => data'[s][f] = buffer[f]
    BY <2>1, <2>2, <2>3, <2>4, <2>5 DEF CalmInv, DataInv
  <2>7. PatchInv' /\ Isolated'
    BY <2>1 DEF CalmInv, PatchInv, Isolated, OwnData
  <2>8. BufferInv'
    BY <2>1, <2>4 DEF CalmInv, BufferInv, OwnData
  <2>9. DataInv'
    <3>1. pc' = pc /\ buffer' = buffer
      BY <2>1
    <3>2. ASSUME NEW t \in Sync \ {s}
          PROVE  /\ pc[t] = "diff" => \A f \in Field : f < step'[t] => data'[t][f] = buffer[f]
                 /\ pc[t] = "enqueue" => OwnData(t, data'[t])
      BY <2>4, <3>2 DEF CalmInv, DataInv
    <3>3. pc[s] # "enqueue"
      BY <2>1
    <3>. QED
      BY <2>6, <3>1, <3>2, <3>3 DEF DataInv, OwnData
  <2>. QED
    BY <2>7, <2>8, <2>9
<1>3. CASE Diff(s) /\ ~(step[s] <= N) /\ Return(s)
  BY <1>3, LeavesBuffer DEF Diff
<1>4. CASE Diff(s) /\ ~(step[s] <= N) /\ ~Return(s)
  <2>1. /\ OwnData(s, buffer)
        /\ pc'[s] = "enqueue"
        /\ \A t \in Sync \ {s} : pc'[t] = pc[t]
        /\ UNCHANGED <<step, patch, data, buffer, last>>
    BY <1>4 DEF Diff, CalmInv, BufferInv, TypeInv, SyncTypeOK
  <2>2. \A f \in Field : f < step[s]
    BY <1>4, SyncAssumption DEF CalmInv, TypeInv, SyncTypeOK, Field
  <2>3. \A f \in Field : data[s][f] = buffer[f]
    BY <1>4, <2>2 DEF Diff, CalmInv, DataInv
  <2>4. OwnData(s, data[s])
    <3>1. 0 \in Field
      BY SyncAssumption DEF Field
    <3>. QED
      BY <2>1, <2>3, <3>1 DEF OwnData
  <2>. QED
    BY <2>1, <2>4 DEF CalmInv, PatchInv, BufferInv, DataInv, Isolated, OwnData
<1>. QED
  BY <1>1, <1>2, <1>3, <1>4

\* What is sent was read by Diff.
LEMMA EnqueueInv ==
  ASSUME CalmInv, NEW s \in Sync, Enqueue(s) \/ EnqueueError(s)
  PROVE  PatchInv' /\ BufferInv' /\ DataInv' /\ Isolated'
<1>1. /\ OwnData(s, data[s])
      /\ pc'[s] = "status"
      /\ \A t \in Sync \ {s} : pc'[t] = pc[t] /\ last'[t] = last[t]
      /\ last'[s] = data[s] \/ last'[s] = last[s]
      /\ UNCHANGED <<step, patch, data, buffer>>
  BY DEF Enqueue, EnqueueError, StoreHash, CalmInv, DataInv, TypeInv, SyncTypeOK
<1>. QED
  BY <1>1 DEF CalmInv, PatchInv, BufferInv, DataInv, Isolated, OwnData

\* Every step of the calm manager preserves the invariant.
LEMMA CalmNextInv == CalmInv /\ [Next /\ NoOverlap']_vars => CalmInv'
<1> SUFFICES ASSUME CalmInv, [Next /\ NoOverlap']_vars PROVE CalmInv'
  OBVIOUS
<1>1. TypeInv'
  BY NextType DEF CalmInv
<1>2. NoOverlap'
  BY DEF CalmInv, NoOverlap, Window, vars, localVars
<1>3. PatchInv' /\ BufferInv' /\ DataInv' /\ Isolated'
  <2>1. CASE Restart
    BY <2>1 DEF Restart, CalmInv, PatchInv, BufferInv, DataInv, Isolated, OwnData
  <2>2. ASSUME NEW s \in Sync, Kubernetes(s)
        PROVE  UNCHANGED <<pc, step, patch, data, buffer, last>>
    BY <2>2 DEF Kubernetes, Change, Edit, Notify, Observe, localVars
  <2>3. ASSUME NEW s \in Sync, UpdateStatus(s) \/ UpdateStatusError(s)
        PROVE  Return(s) /\ UNCHANGED <<buffer, last>>
    BY <2>3 DEF UpdateStatus, UpdateStatusError
  <2>4. ASSUME NEW s \in Sync, Start(s)
        PROVE  UNCHANGED <<buffer, last>>
    BY <2>4 DEF Start
  <2>5. ASSUME NEW s \in Sync, Reconcile(s)
        PROVE  PatchInv' /\ BufferInv' /\ DataInv' /\ Isolated'
    BY <2>3, <2>5, SetBufferInv, ParseInv, DiffInv, EnqueueInv, LeavesBuffer
    DEF Reconcile
  <2>6. CASE UNCHANGED vars
    BY <2>6, ParserUnchanged DEF vars, localVars
  <2>. QED
    BY <2>1, <2>2, <2>4, <2>5, <2>6, ParserUnchanged, LeavesBuffer DEF Next
<1>. QED
  BY <1>1, <1>2, <1>3 DEF CalmInv

\* As long as no two reconciles use the parser's buffer at once, every message
\* that the sync manager sends for a ClusterSync has the data of that one.
THEOREM CalmIsIsolated == CalmSpec => []Isolated
<1>1. Init => CalmInv
  <2> SUFFICES ASSUME Init PROVE CalmInv
    OBVIOUS
  <2>1. TypeInv
    BY InitType
  <2>. QED
    BY <2>1 DEF Init, CalmInv, NoOverlap, Window, PatchInv, BufferInv, DataInv, Isolated
<1>2. CalmInv => Isolated
  BY DEF CalmInv
<1>. QED
  BY <1>1, <1>2, CalmNextInv, PTL DEF CalmSpec

-----------------------------------------------------------------------------
(* What is sent never goes back.                                           *)

\* The manager of ReliableSpec, without its fairness and with a queue that may
\* refuse messages: no object goes back to an earlier content, and no list fails.
SteadySpec == Init /\ [][SteadyNext]_vars

\* The newest content that a reconcile of s can have seen.
Newest(s, f) == IF f = 0 THEN cached[s].initial ELSE objects[s][f]

\* A content that is neither older than what was sent nor newer than what is
\* there.
Between(s, f, e) ==
  /\ e \in Entry
  /\ last[s] # Nil => last[s][f].version <= e.version
  /\ e.version <= Newest(s, f)

\* Copies of a ClusterSync are as old as they are stale.
CacheAt(s) ==
  /\ cached[s].initial <= server[s].initial
  /\ cacheNow[s] => cached[s].initial = server[s].initial
  /\ pc[s] # "idle" =>
       /\ instance[s].initial <= cached[s].initial
       /\ now[s] => instance[s].initial = server[s].initial

\* What was sent is no newer than what a reconcile that has not sent starts from.
LastAt(s) ==
  last[s] # Nil =>
    /\ \A f \in Field : last[s][f] \in Entry /\ last[s][f].version <= Newest(s, f)
    /\ pc[s] \notin {"idle", "status"} => last[s][0].version <= instance[s].initial

\* What a reconcile without errors has read so far is between the two.
ReadAt(s) ==
  /\ pc[s] = "set" /\ step[s] > 0 => Between(s, 0, buffer[0])
  /\ pc[s] \in {"parse", "merge"} /\ ~errs[s] =>
       \A f \in Field : f < step[s] => Between(s, f, buffer[f])
  /\ pc[s] = "merge" => Between(s, step[s], patch[s])
  /\ pc[s] = "diff" => \A f \in Field : Between(s, f, buffer[f])
  /\ pc[s] = "diff" => \A f \in Field : f < step[s] => Between(s, f, data[s][f])
  /\ pc[s] = "enqueue" => \A f \in Field : Between(s, f, data[s][f])

SteadyAt(s) == CacheAt(s) /\ LastAt(s) /\ ReadAt(s)

SteadyInv == CalmInv /\ \A s \in Sync : SteadyAt(s)

\* Versions are numbers.
Numbers ==
  \A s \in Sync :
    /\ cached[s].initial \in Nat /\ server[s].initial \in Nat
    /\ pc[s] # "idle" => instance[s].initial \in Nat
    /\ \A f \in Field : Newest(s, f) \in Nat
    /\ \A e \in Entry : e.version \in Nat

\* Every content is a version.
LEMMA Versions == TypeInv => Numbers
<1> SUFFICES ASSUME TypeInv, NEW s \in Sync
             PROVE  /\ cached[s].initial \in Nat /\ server[s].initial \in Nat
                    /\ pc[s] # "idle" => instance[s].initial \in Nat
                    /\ \A f \in Field : Newest(s, f) \in Nat
                    /\ \A e \in Entry : e.version \in Nat
  BY Zenon DEF Numbers
<1>1. cached[s] \in Instance /\ server[s] \in Instance
  BY Zenon DEF TypeInv, SyncTypeOK
<1>2. pc[s] # "idle" => instance[s] \in Instance
  BY Zenon DEF TypeInv, LocalInv
<1>3. \A i \in Instance : i.initial \in Nat
  BY SyncAssumption, Zenon DEF Instance
<1>4. \A k \in 1 .. N : objects[s][k] \in Nat
  <2>1. objects[s] \in [1 .. N -> Version]
    BY Zenon DEF TypeInv, SyncTypeOK
  <2>. QED
    BY <2>1, SyncAssumption, Zenon
<1>5. \A f \in Field : f = 0 \/ f \in 1 .. N
  BY SyncAssumption DEF Field
<1>6. \A e \in Entry : e.version \in Nat
  BY SyncAssumption, Zenon DEF Entry
<1>. QED
  BY <1>1, <1>2, <1>3, <1>4, <1>5, <1>6, Zenon DEF Newest

\* What is between stays so while the objects move on.
LEMMA StillBetween ==
  ASSUME TypeInv, TypeInv', NEW s \in Sync, NEW f \in Field, NEW e, Between(s, f, e),
         last'[s] = last[s], Newest(s, f) <= Newest(s, f)'
  PROVE  /\ e \in Entry
         /\ last'[s] # Nil => last'[s][f].version <= e.version
         /\ e.version <= Newest(s, f)'
<1>0. Numbers /\ Numbers'
  BY Versions, PTL
<1>1. Newest(s, f)' \in Nat
  BY <1>0, Zenon DEF Numbers
<1>2. Newest(s, f) \in Nat /\ e.version \in Nat
  BY <1>0, Zenon DEF Numbers, Between
<1>3. e.version <= Newest(s, f)'
  BY <1>1, <1>2 DEF Between
<1>. QED
  BY <1>3, Zenon DEF Between

\* A step that leaves the reconcile of s alone, and what it read, only makes
\* objects newer.
LEMMA SteadyAlone ==
  ASSUME TypeInv, TypeInv', NEW s \in Sync, SteadyAt(s), CacheAt(s)',
         \A f \in Field : Newest(s, f) <= Newest(s, f)',
         pc'[s] = pc[s], step'[s] = step[s], instance'[s] = instance[s],
         patch'[s] = patch[s], errs'[s] = errs[s], data'[s] = data[s], last'[s] = last[s],
         Window(s) => buffer' = buffer
  PROVE  SteadyAt(s)'
<1>1. \A f \in Field : \A e : Between(s, f, e) =>
        /\ e \in Entry
        /\ last'[s] # Nil => last'[s][f].version <= e.version
        /\ e.version <= Newest(s, f)'
  BY StillBetween, Zenon
<1>2. LastAt(s)'
  <2>1. ASSUME last[s] # Nil, NEW f \in Field
        PROVE  last[s][f] \in Entry /\ last[s][f].version <= Newest(s, f)'
    <3>0. Numbers /\ Numbers'
      BY Versions, PTL
    <3>1. Newest(s, f)' \in Nat
      BY <3>0, Zenon DEF Numbers
    <3>2. last[s][f] \in Entry /\ last[s][f].version <= Newest(s, f)
      BY <2>1, Zenon DEF SteadyAt, LastAt
    <3>3. Newest(s, f) \in Nat /\ last[s][f].version \in Nat
      BY <3>0, <3>2, Zenon DEF Numbers
    <3>. QED
      BY <3>1, <3>2, <3>3
  <2>. QED
    BY <2>1, Zenon DEF SteadyAt, LastAt
<1>3. ReadAt(s)'
  <2>1. step[s] \in Field \/ pc[s] # "merge"
    BY SyncAssumption DEF TypeInv, LocalInv, Field
  <2>2. 0 \in Field
    BY SyncAssumption DEF Field
  <2>. QED
    BY <1>1, <2>1, <2>2, Zenon DEF SteadyAt, ReadAt, Between, Window
<1>. QED
  BY <1>2, <1>3, Zenon DEF SteadyAt

\* A step of Kubernetes that takes no object back.
LEMMA SteadyKubernetes ==
  ASSUME SteadyInv, CalmInv', NeverBack, NEW s \in Sync, Kubernetes(s), NEW t \in Sync
  PROVE  SteadyAt(t)'
<1>a. TypeInv /\ TypeInv' /\ SteadyAt(t)
  BY Zenon DEF SteadyInv, CalmInv
<1>0. TypeInv /\ TypeInv' /\ SteadyAt(t) /\ Numbers /\ Numbers'
  BY <1>a, Versions, PTL
<1>b. cached[t].initial <= cached[t].initial
  <2>1. cached[t].initial \in Nat
    BY <1>0, Zenon DEF Numbers
  <2>. QED
    BY <2>1
<1>1. UNCHANGED <<pc, step, instance, patch, errs, data, buffer, last>>
  BY Zenon DEF Kubernetes, Change, Edit, Notify, Observe, localVars
<1>2. cached[t].initial <= server[t].initial
  BY <1>0, Zenon DEF SteadyAt, CacheAt
<1>3. CacheAt(t)' /\ cached[t].initial <= cached'[t].initial
  <2>1. ASSUME NEW k \in 1 .. N, NEW v \in Version, Change(s, k, v)
        PROVE  UNCHANGED <<server, cached, cacheNow, now>>
    BY <2>1, Zenon DEF Change, localVars
  <2>2. Notify(s) => UNCHANGED <<server, cached, cacheNow, now>>
    BY Zenon DEF Notify, apiVars, localVars
  <2>3. CASE UNCHANGED <<server, cached, cacheNow, now>>
    BY <1>0, <1>b, <1>1, <2>3, Zenon DEF SteadyAt, CacheAt
  <2>4. ASSUME NEW v \in Version, Edit(s, v)
        PROVE  CacheAt(t)' /\ cached[t].initial <= cached'[t].initial
    <3>1. server[t].initial <= server'[t].initial /\ cached' = cached
      BY <1>0, <2>4, Zenon DEF NeverBack, Edit, Numbers
    <3>2. IF t = s THEN ~cacheNow'[t] /\ ~now'[t]
                   ELSE cacheNow'[t] = cacheNow[t] /\ now'[t] = now[t] /\ server'[t] = server[t]
      BY <1>0, <2>4, Zenon DEF Edit, TypeInv, SyncTypeOK
    <3>3. cached'[t].initial <= server'[t].initial /\ cached[t].initial <= cached'[t].initial
      BY <1>0, <1>2, <3>1 DEF Numbers
    <3>. QED
      BY <1>0, <1>1, <3>1, <3>2, <3>3, Zenon DEF SteadyAt, CacheAt
  <2>5. CASE Observe(s)
    <3>1. server' = server /\ now' = now
      BY <2>5, Zenon DEF Observe, localVars
    <3>2. cached'[t] = server[t] \/ (cached'[t] = cached[t] /\ cacheNow'[t] = cacheNow[t])
      <4>1. /\ cached' = [cached EXCEPT ![s] = server[s]]
            /\ cacheNow' = [cacheNow EXCEPT ![s] = TRUE]
        BY <2>5, Zenon DEF Observe
      <4>2. cached \in [Sync -> Instance] /\ cacheNow \in [Sync -> BOOLEAN]
        BY <1>0, Zenon DEF TypeInv, SyncTypeOK
      <4>3. t = s => cached'[t] = server[t]
        BY <4>1, <4>2, Zenon
      <4>4. t # s => cached'[t] = cached[t]
        BY <4>1, <4>2, Zenon
      <4>5. t # s => cacheNow'[t] = cacheNow[t]
        BY <4>1, <4>2, Zenon
      <4>. QED
        BY <4>3, <4>4, <4>5, Zenon
    <3>3. CASE cached'[t] = server[t]
      <4>1. pc[t] # "idle" => instance[t].initial <= server[t].initial
        BY <1>0, <1>2 DEF SteadyAt, CacheAt, Numbers
      <4>2. server[t].initial <= server[t].initial
        <5>1. server[t].initial \in Nat
          BY <1>0, Zenon DEF Numbers
        <5>. QED
          BY <5>1
      <4>. QED
        BY <1>0, <1>1, <1>2, <3>1, <3>3, <4>1, <4>2, Zenon DEF SteadyAt, CacheAt
    <3>4. CASE cached'[t] = cached[t] /\ cacheNow'[t] = cacheNow[t]
      BY <1>0, <1>b, <1>1, <3>1, <3>4, Zenon DEF SteadyAt, CacheAt
    <3>. QED
      BY <3>2, <3>3, <3>4, Zenon
  <2>. QED
    BY <2>1, <2>2, <2>3, <2>4, <2>5, Zenon DEF Kubernetes
<1>4. ASSUME NEW f \in Field
      PROVE  Newest(t, f) <= Newest(t, f)'
  <2>1. CASE f = 0
    BY <1>3, <2>1, Zenon DEF Newest
  <2>2. CASE f # 0
    <3>1. f \in 1 .. N
      BY <2>2, SyncAssumption DEF Field
    <3>2. objects'[t][f] >= objects[t][f]
      BY <3>1, Zenon DEF NeverBack
    <3>3. Newest(t, f) = objects[t][f] /\ Newest(t, f)' = objects'[t][f]
      BY <2>2, Zenon DEF Newest
    <3>4. Newest(t, f) \in Nat /\ Newest(t, f)' \in Nat
      BY <1>0, Zenon DEF Numbers
    <3>. QED
      BY <3>2, <3>3, <3>4, Zenon
  <2>. QED
    BY <2>1, <2>2, Zenon
<1>. QED
  BY <1>0, <1>1, <1>3, <1>4, SteadyAlone, Zenon

\* The reconciles of others, of which none uses the buffer while this one does.
LEMMA SteadyOthers ==
  ASSUME SteadyInv, CalmInv', NEW s \in Sync, Start(s) \/ Reconcile(s), NEW t \in Sync \ {s}
  PROVE  SteadyAt(t)'
<1>0. TypeInv /\ TypeInv' /\ NoOverlap /\ SteadyAt(t) /\ Numbers
  BY Versions, Zenon DEF SteadyInv, CalmInv
<1>1. UNCHANGED <<objects, cached>>
  BY Zenon DEF Start, Reconcile, SetBuffer, Parse, ParseError, Merge, EndParse, Diff, Enqueue,
         EnqueueError, StoreHash, UpdateStatus, UpdateStatusError, apiVars
<1>2. /\ pc'[t] = pc[t] /\ step'[t] = step[t] /\ instance'[t] = instance[t]
      /\ now'[t] = now[t] /\ patch'[t] = patch[t] /\ errs'[t] = errs[t]
      /\ data'[t] = data[t] /\ last'[t] = last[t]
      /\ server'[t] = server[t] /\ cacheNow'[t] = cacheNow[t]
      /\ Window(t) => buffer' = buffer
  <2>1. CASE Start(s)
    BY <1>0, <2>1, Zenon DEF Start, TypeInv, SyncTypeOK, apiVars
  <2>2. CASE SetBuffer(s) \/ Merge(s)
    <3>1. Window(s)
      BY <2>2, Zenon DEF SetBuffer, Merge, Window
    <3>2. ~Window(t)
      BY <1>0, <3>1, Zenon DEF NoOverlap
    <3>. QED
      BY <1>0, <2>2, <3>2, Zenon DEF SetBuffer, Merge, TypeInv, SyncTypeOK, apiVars
  <2>3. CASE Parse(s) \/ ParseError(s)
    BY <1>0, <2>3, Zenon DEF Parse, ParseError, TypeInv, SyncTypeOK, apiVars
  <2>4. CASE EndParse(s)
    BY <1>0, <2>4 DEF EndParse, TypeInv, SyncTypeOK, apiVars
  <2>5. CASE Diff(s)
    BY <1>0, <2>5 DEF Diff, Return, TypeInv, SyncTypeOK, apiVars
  <2>6. CASE Enqueue(s) \/ EnqueueError(s)
    BY <1>0, <2>6, Zenon DEF Enqueue, EnqueueError, StoreHash, TypeInv, SyncTypeOK, apiVars
  <2>7. CASE UpdateStatus(s) \/ UpdateStatusError(s)
    BY <1>0, <2>7 DEF UpdateStatus, UpdateStatusError, StoreStatus, Return, TypeInv, SyncTypeOK
  <2>. QED
    BY <2>1, <2>2, <2>3, <2>4, <2>5, <2>6, <2>7, Zenon DEF Reconcile
<1>3. CacheAt(t)'
  BY <1>0, <1>1, <1>2, Zenon DEF SteadyAt, CacheAt
<1>4. \A f \in Field : Newest(t, f) <= Newest(t, f)'
  <2>1. \A f \in Field : Newest(t, f) \in Nat
    BY <1>0, Zenon DEF Numbers
  <2>2. \A f \in Field : Newest(t, f)' = Newest(t, f)
    BY <1>1, Zenon DEF Newest
  <2>3. \A n \in Nat : n <= n
    OBVIOUS
  <2>. QED
    BY <2>1, <2>2, <2>3, Zenon
<1>. QED
  BY <1>0, <1>2, <1>3, <1>4, SteadyAlone, Zenon

\* A step of a reconcile that sends nothing and stores nothing.
LEMMA SteadyBase ==
  ASSUME NEW s \in Sync, SteadyAt(s), UNCHANGED <<objects, server, cached, cacheNow, last>>,
         pc'[s] # "idle" => /\ pc[s] # "idle"
                            /\ instance'[s].initial = instance[s].initial
                            /\ now'[s] = now[s],
         pc'[s] \notin {"idle", "status"} => pc[s] \notin {"idle", "status"}
  PROVE  CacheAt(s)' /\ LastAt(s)' /\ \A f \in Field : Newest(s, f)' = Newest(s, f)
<1>1. \A f \in Field : Newest(s, f)' = Newest(s, f)
  BY Zenon DEF Newest
<1>2. CacheAt(s)'
  BY Zenon DEF SteadyAt, CacheAt
<1>3. LastAt(s)'
  BY <1>1, Zenon DEF SteadyAt, LastAt
<1>. QED
  BY <1>1, <1>2, <1>3, Zenon

\* SetBuffer puts the InitialData of the instance first.
LEMMA SteadySetBuffer ==
  ASSUME SteadyInv, NEW s \in Sync, SetBuffer(s)
  PROVE  SteadyAt(s)'
<1>0. TypeInv /\ SteadyAt(s) /\ Numbers
  BY Versions, Zenon DEF SteadyInv, CalmInv
<1>1. /\ pc[s] = "set" /\ pc'[s] \in {"set", "parse"} /\ step[s] \in 0 .. N
      /\ instance[s] \in Instance
      /\ UNCHANGED <<objects, server, cached, cacheNow, last, instance, now>>
  BY <1>0, Zenon DEF SetBuffer, TypeInv, SyncTypeOK, LocalInv, Field, apiVars
<1>2. CacheAt(s)' /\ LastAt(s)' /\ \A f \in Field : Newest(s, f)' = Newest(s, f)
  BY <1>0, <1>1, SteadyBase, Zenon
<1>3. Between(s, 0, buffer'[0])
  <2>1. buffer \in [Field -> Entry \cup {Nil}] /\ 0 \in Field /\ step[s] \in Field
    BY <1>0, <1>1, SyncAssumption DEF TypeInv, SyncTypeOK, Data, Field
  <2>2. CASE step[s] = 0
    <3>1. buffer'[0] = [sync |-> s, version |-> instance[s].initial]
      BY <2>1, <2>2, Zenon DEF SetBuffer
    <3>2. buffer'[0] \in Entry /\ buffer'[0].version = instance[s].initial
      <4>1. instance[s].initial \in Version
        BY <1>1, Zenon DEF Instance
      <4>. QED
        BY <3>1, <4>1 DEF Entry
    <3>3. last[s] # Nil => last[s][0].version <= instance[s].initial
      BY <1>0, <1>1, Zenon DEF SteadyAt, LastAt
    <3>4. instance[s].initial <= Newest(s, 0)
      BY <1>0, <1>1, Zenon DEF SteadyAt, CacheAt, Newest
    <3>. QED
      BY <3>2, <3>3, <3>4, Zenon DEF Between
  <2>3. CASE step[s] # 0
    <3>1. buffer'[0] = buffer[0] /\ step[s] > 0
      BY <1>1, <2>1, <2>3 DEF SetBuffer
    <3>. QED
      BY <1>0, <1>1, <3>1, ZenonT(30) DEF SteadyAt, ReadAt
  <2>. QED
    BY <2>2, <2>3, Zenon
<1>4. Between(s, 0, buffer[0])'
  <2>1. 0 \in Field
    BY SyncAssumption DEF Field
  <2>. QED
    BY <1>1, <1>2, <1>3, <2>1, Zenon DEF Between
<1>5. pc'[s] = "parse" => \A f \in Field : f < step'[s] => f = 0
  <2>1. pc'[s] = "parse" => step'[s] = 1
    BY <1>0, <1>1, Zenon DEF SetBuffer, TypeInv, SyncTypeOK
  <2>. QED
    BY <2>1, SyncAssumption DEF Field
<1>. QED
  BY <1>1, <1>2, <1>4, <1>5, Zenon DEF SteadyAt, ReadAt

\* Parse reads the watched resource as it is.
LEMMA SteadyParse ==
  ASSUME SteadyInv, NEW s \in Sync, Parse(s), ~ListError(s)
  PROVE  SteadyAt(s)'
<1>0. TypeInv /\ SteadyAt(s) /\ Numbers
  BY Versions, Zenon DEF SteadyInv, CalmInv
<1>1. /\ pc[s] = "parse" /\ pc'[s] = "merge" /\ step[s] \in 1 .. N
      /\ UNCHANGED <<objects, server, cached, cacheNow, last, instance, now, step, errs, buffer>>
  BY <1>0, SyncAssumption DEF Parse, TypeInv, SyncTypeOK, LocalInv, apiVars
<1>2. CacheAt(s)' /\ LastAt(s)' /\ \A f \in Field : Newest(s, f)' = Newest(s, f)
  BY <1>0, <1>1, SteadyBase, Zenon
<1>3. patch'[s] = [sync |-> s, version |-> objects[s][step[s]]]
  BY <1>0, <1>1, Zenon DEF Parse, ListError, TypeInv, SyncTypeOK
<1>4. step[s] \in Field /\ step[s] # 0
  BY <1>1, SyncAssumption DEF Field
<1>5. Newest(s, step[s]) = objects[s][step[s]] /\ Newest(s, step[s]) \in Nat
  BY <1>0, <1>4, Zenon DEF Newest, Numbers
<1>6. Between(s, step[s], patch'[s])
  <2>1. objects[s] \in [1 .. N -> Version]
    BY <1>0, Zenon DEF TypeInv, SyncTypeOK
  <2>2. patch'[s] \in Entry /\ patch'[s].version = Newest(s, step[s])
    <3>1. objects[s][step[s]] \in Version
      BY <1>1, <2>1, Zenon
    <3>. QED
      BY <1>3, <1>5, <3>1 DEF Entry
  <2>3. last[s] # Nil => last[s][step[s]].version <= Newest(s, step[s])
    BY <1>0, <1>4, Zenon DEF SteadyAt, LastAt
  <2>4. Newest(s, step[s]) <= Newest(s, step[s])
    BY <1>5
  <2>. QED
    BY <2>2, <2>3, <2>4, Zenon DEF Between
<1>. QED
  BY <1>0, <1>1, <1>2, <1>4, <1>6, Zenon DEF SteadyAt, ReadAt, Between

\* Merge puts it in the buffer.
LEMMA SteadyMerge ==
  ASSUME SteadyInv, NEW s \in Sync, Merge(s) \/ ParseError(s)
  PROVE  SteadyAt(s)'
<1>0. TypeInv /\ SteadyAt(s)
  BY Zenon DEF SteadyInv, CalmInv
<1>1. /\ pc[s] \in {"merge", "parse"} /\ pc'[s] = "parse"
      /\ UNCHANGED <<objects, server, cached, cacheNow, last, instance, now>>
  BY <1>0, Zenon DEF Merge, ParseError, TypeInv, SyncTypeOK, apiVars
<1>2. CacheAt(s)' /\ LastAt(s)' /\ \A f \in Field : Newest(s, f)' = Newest(s, f)
  BY <1>0, <1>1, SteadyBase, Zenon
<1>3. CASE ParseError(s)
  <2>1. errs'[s]
    BY <1>0, <1>3, Zenon DEF ParseError, TypeInv, SyncTypeOK
  <2>. QED
    BY <1>1, <1>2, <2>1, Zenon DEF SteadyAt, ReadAt
<1>4. CASE Merge(s)
  <2>1. /\ pc[s] = "merge" /\ step[s] \in 1 .. N /\ step'[s] = step[s] + 1
        /\ UNCHANGED errs
    BY <1>0, <1>4, Zenon DEF Merge, TypeInv, SyncTypeOK, LocalInv
  <2>2. Between(s, step[s], patch[s])
    BY <1>0, <2>1, Zenon DEF SteadyAt, ReadAt
  <2>3. patch[s] # Nil
    BY <2>2, SyncAssumption, Zenon DEF Between
  <2>4. buffer \in [Field -> Entry \cup {Nil}] /\ step[s] \in Field
    BY <1>0, <2>1, SyncAssumption DEF TypeInv, SyncTypeOK, Data, Field
  <2>5. \A f \in Field : buffer'[f] = IF f = step[s] THEN patch[s] ELSE buffer[f]
    BY <1>4, <2>3, <2>4, Zenon DEF Merge
  <2>6. \A f \in Field : f < step'[s] => f < step[s] \/ f = step[s]
    BY <2>1, <2>4 DEF Field
  <2>7. ~errs[s] => \A f \in Field : f < step[s] => Between(s, f, buffer[f])
    BY <1>0, <2>1, Zenon DEF SteadyAt, ReadAt
  <2>8. ~errs[s] => \A f \in Field : f < step'[s] => Between(s, f, buffer'[f])
    BY <2>2, <2>5, <2>6, <2>7, Zenon
  <2>. QED
    BY <1>1, <1>2, <2>1, <2>8, Zenon DEF SteadyAt, ReadAt, Between
<1>. QED
  BY <1>3, <1>4, Zenon

\* Diff copies the buffer.
LEMMA SteadyDiff ==
  ASSUME SteadyInv, NEW s \in Sync, EndParse(s) \/ Diff(s)
  PROVE  SteadyAt(s)'
<1>0. TypeInv /\ SteadyAt(s)
  BY Zenon DEF SteadyInv, CalmInv
<1>1. CASE EndParse(s)
  <2>1. /\ pc[s] = "parse" /\ step[s] = N + 1 /\ step'[s] = 0
        /\ pc'[s] = IF errs[s] THEN "status" ELSE "diff"
        /\ UNCHANGED <<objects, server, cached, cacheNow, last, now, buffer>>
    BY <1>0, <1>1, Zenon DEF EndParse, TypeInv, SyncTypeOK, apiVars
  <2>2. instance'[s].initial = instance[s].initial
    <3>1. instance[s] \in Instance
      BY <1>0, <2>1, Zenon DEF TypeInv, LocalInv
    <3>2. \E b \in BOOLEAN : instance'[s] = [instance[s] EXCEPT !.failed = b]
      BY <1>0, <1>1, Zenon DEF EndParse, TypeInv, SyncTypeOK
    <3>. QED
      BY <3>1, <3>2, Zenon DEF Instance
  <2>3. CacheAt(s)' /\ LastAt(s)' /\ \A f \in Field : Newest(s, f)' = Newest(s, f)
    BY <1>0, <2>1, <2>2, SteadyBase, Zenon
  <2>4. \A f \in Field : f < N + 1 /\ ~(f < 0)
    BY SyncAssumption DEF Field
  <2>5. pc'[s] = "diff" => \A f \in Field : Between(s, f, buffer[f])
    BY <1>0, <2>1, <2>4, Zenon DEF SteadyAt, ReadAt
  <2>. QED
    BY <2>1, <2>3, <2>4, <2>5, Zenon DEF SteadyAt, ReadAt, Between
<1>2. CASE Diff(s) /\ step[s] <= N
  <2>1. /\ pc[s] = "diff" /\ pc'[s] = "diff" /\ step'[s] = step[s] + 1
        /\ UNCHANGED <<objects, server, cached, cacheNow, last, instance, now, buffer>>
    BY <1>0, <1>2, Zenon DEF Diff, TypeInv, SyncTypeOK, apiVars
  <2>2. CacheAt(s)' /\ LastAt(s)' /\ \A f \in Field : Newest(s, f)' = Newest(s, f)
    BY <1>0, <2>1, SteadyBase, Zenon
  <2>3. step[s] \in Field
    BY <1>0, <1>2, SyncAssumption DEF TypeInv, SyncTypeOK, Field
  <2>4. data'[s] = [data[s] EXCEPT ![step[s]] = buffer[step[s]]]
    BY <1>0, <1>2, Zenon DEF Diff, TypeInv, SyncTypeOK
  <2>5. data[s] \in [Field -> Entry \cup {Nil}]
    BY <1>0, Zenon DEF TypeInv, SyncTypeOK, Data
  <2>6. \A f \in Field : f < step'[s] => f < step[s] \/ f = step[s]
    BY <2>1, <2>3 DEF Field
  <2>7. \A f \in Field : Between(s, f, buffer[f])
    BY <1>0, <2>1, Zenon DEF SteadyAt, ReadAt
  <2>8. \A f \in Field : f < step'[s] => Between(s, f, data'[s][f])
    <3>1. \A f \in Field : f < step[s] => Between(s, f, data[s][f])
      BY <1>0, <2>1, Zenon DEF SteadyAt, ReadAt
    <3>2. \A f \in Field : data'[s][f] = IF f = step[s] THEN buffer[f] ELSE data[s][f]
      BY <2>3, <2>4, <2>5, Zenon
    <3>. QED
      BY <2>6, <2>7, <3>1, <3>2, Zenon
  <2>. QED
    BY <2>1, <2>2, <2>7, <2>8, Zenon DEF SteadyAt, ReadAt, Between
<1>3. CASE Diff(s) /\ ~(step[s] <= N)
  <2>1. /\ pc[s] = "diff" /\ pc'[s] \in {"enqueue", "idle"}
        /\ UNCHANGED <<objects, server, cached, cacheNow, last, buffer>>
        /\ pc'[s] = "enqueue" => UNCHANGED <<step, instance, now, data>>
    BY <1>0, <1>3 DEF Diff, Return, TypeInv, SyncTypeOK, apiVars
  <2>2. CacheAt(s)' /\ LastAt(s)' /\ \A f \in Field : Newest(s, f)' = Newest(s, f)
    BY <1>0, <2>1, SteadyBase, Zenon
  <2>3. \A f \in Field : f < step[s]
    BY <1>0, <1>3, SyncAssumption DEF TypeInv, SyncTypeOK, Field
  <2>4. \A f \in Field : Between(s, f, data[s][f])
    BY <1>0, <2>1, <2>3, Zenon DEF SteadyAt, ReadAt
  <2>. QED
    BY <2>1, <2>2, <2>4, Zenon DEF SteadyAt, ReadAt, Between
<1>. QED
  BY <1>1, <1>2, <1>3, Zenon

\* Enqueue sends what Diff copied.
LEMMA SteadyEnqueue ==
  ASSUME SteadyInv, NEW s \in Sync, Enqueue(s) \/ EnqueueError(s)
  PROVE  SteadyAt(s)'
<1>0. TypeInv /\ SteadyAt(s)
  BY Zenon DEF SteadyInv, CalmInv
<1>1. /\ pc[s] = "enqueue" /\ pc'[s] = "status"
      /\ UNCHANGED <<objects, server, cached, cacheNow, now>>
      /\ last'[s] \in {last[s], data[s]}
  BY <1>0, Zenon DEF Enqueue, EnqueueError, StoreHash, TypeInv, SyncTypeOK, apiVars
<1>2. instance'[s].initial = instance[s].initial
  <2>1. instance[s] \in Instance
    BY <1>0, <1>1, Zenon DEF TypeInv, LocalInv
  <2>2. instance'[s] = [instance[s] EXCEPT !.hash = data[s]]
    BY <1>0, Zenon DEF Enqueue, EnqueueError, StoreHash, TypeInv, SyncTypeOK
  <2>. QED
    BY <2>1, <2>2, Zenon DEF Instance
<1>3. CacheAt(s)'
  BY <1>0, <1>1, <1>2, Zenon DEF SteadyAt, CacheAt
<1>4. \A f \in Field : Newest(s, f)' = Newest(s, f)
  BY <1>1, Zenon DEF Newest
<1>5. LastAt(s)'
  <2>1. CASE last'[s] = last[s]
    BY <1>0, <1>1, <1>4, <2>1, Zenon DEF SteadyAt, LastAt
  <2>2. CASE last'[s] = data[s]
    <3>1. \A f \in Field : data[s][f] \in Entry /\ data[s][f].version <= Newest(s, f)
      BY <1>0, <1>1, Zenon DEF SteadyAt, ReadAt, Between
    <3>. QED
      BY <1>1, <1>4, <2>2, <3>1, Zenon DEF LastAt
  <2>. QED
    BY <1>1, <2>1, <2>2, Zenon
<1>. QED
  BY <1>1, <1>3, <1>5, Zenon DEF SteadyAt, ReadAt

\* The status is stored with the InitialData that is there.
LEMMA SteadyStatus ==
  ASSUME SteadyInv, NEW s \in Sync, UpdateStatus(s) \/ UpdateStatusError(s)
  PROVE  SteadyAt(s)'
<1>0. TypeInv /\ SteadyAt(s)
  BY Zenon DEF SteadyInv, CalmInv
<1>1. /\ pc[s] = "status" /\ pc'[s] = "idle"
      /\ UNCHANGED <<objects, cached, last>>
  BY <1>0 DEF UpdateStatus, UpdateStatusError, Return, TypeInv, SyncTypeOK
<1>2. server'[s].initial = server[s].initial
  BY <1>0, <1>1, Zenon
  DEF UpdateStatus, UpdateStatusError, StoreStatus, TypeInv, SyncTypeOK, SteadyAt, CacheAt
<1>3. cacheNow'[s] => cacheNow[s]
  BY <1>0, Zenon DEF UpdateStatus, UpdateStatusError, StoreStatus, TypeInv, SyncTypeOK
<1>4. CacheAt(s)'
  BY <1>0, <1>1, <1>2, <1>3, Zenon DEF SteadyAt, CacheAt
<1>5. \A f \in Field : Newest(s, f)' = Newest(s, f)
  BY <1>1, Zenon DEF Newest
<1>6. LastAt(s)'
  BY <1>0, <1>1, <1>5, Zenon DEF SteadyAt, LastAt
<1>. QED
  BY <1>1, <1>4, <1>6, Zenon DEF SteadyAt, ReadAt

\* A reconcile starts from the copy in the cache.
LEMMA SteadyStart ==
  ASSUME SteadyInv, NEW s \in Sync, Start(s)
  PROVE  SteadyAt(s)'
<1>0. TypeInv /\ SteadyAt(s) /\ Numbers
  BY Versions, Zenon DEF SteadyInv, CalmInv
<1>1. /\ pc'[s] = "set" /\ step'[s] = 0
      /\ instance'[s] = cached[s] /\ now'[s] = cacheNow[s]
      /\ UNCHANGED <<objects, server, cached, cacheNow, last>>
  BY <1>0, Zenon DEF Start, TypeInv, SyncTypeOK, LocalInv, apiVars
<1>2. cached[s].initial <= cached[s].initial
  <2>1. cached[s].initial \in Nat
    BY <1>0, Zenon DEF Numbers
  <2>. QED
    BY <2>1
<1>3. CacheAt(s)'
  BY <1>0, <1>1, <1>2, Zenon DEF SteadyAt, CacheAt
<1>4. LastAt(s)'
  <2>1. 0 \in Field
    BY SyncAssumption DEF Field
  <2>2. last[s] # Nil => \A f \in Field : last[s][f] \in Entry /\ last[s][f].version <= Newest(s, f)
    BY <1>0, Zenon DEF SteadyAt, LastAt
  <2>. QED
    BY <1>1, <2>1, <2>2, Zenon DEF LastAt, Newest
<1>. QED
  BY <1>1, <1>3, <1>4 DEF SteadyAt, ReadAt

\* The manager starts with nothing sent, and no copy of a ClusterSync is stale.
LEMMA SteadyInit == Init => SteadyInv
<1> SUFFICES ASSUME Init PROVE SteadyInv
  OBVIOUS
<1>1. TypeInv
  BY InitType, Zenon
<1>2. CalmInv
  BY <1>1, Zenon DEF Init, CalmInv, NoOverlap, Window, PatchInv, BufferInv, DataInv, Isolated
<1>3. ASSUME NEW s \in Sync PROVE SteadyAt(s)
  <2>1. server[s].initial = 0 /\ cached[s].initial = 0 /\ pc[s] = "idle" /\ last[s] = Nil
    BY Zenon DEF Init
  <2>2. 0 <= 0
    OBVIOUS
  <2>. QED
    BY <2>1, <2>2, Zenon DEF SteadyAt, CacheAt, LastAt, ReadAt
<1>. QED
  BY <1>2, <1>3, Zenon DEF SteadyInv

\* Every step of the manager, as long as no object goes back and no list fails,
\* preserves the invariant.
LEMMA SteadyNextInv == SteadyInv /\ [SteadyNext]_vars => SteadyInv'
<1> SUFFICES ASSUME SteadyInv, [SteadyNext]_vars PROVE SteadyInv'
  OBVIOUS
<1>1. CalmInv'
  BY CalmNextInv, Zenon DEF SteadyInv, SteadyNext
<1>2. ASSUME NEW t \in Sync PROVE SteadyAt(t)'
  <2>0. TypeInv /\ SteadyAt(t) /\ Numbers
    BY Versions, Zenon DEF SteadyInv, CalmInv
  <2>1. CASE Restart
    <3>1. /\ pc'[t] = "idle" /\ cached' = server /\ cacheNow'[t]
          /\ UNCHANGED <<objects, server, last>>
      BY <2>1, Zenon DEF Restart
    <3>2. cached[t].initial <= server[t].initial /\ server[t].initial <= server[t].initial
      <4>1. server[t].initial \in Nat
        BY <2>0, Zenon DEF Numbers
      <4>. QED
        BY <2>0, <4>1 DEF SteadyAt, CacheAt
    <3>3. CacheAt(t)'
      BY <3>1, <3>2, Zenon DEF CacheAt
    <3>4. ASSUME last[t] # Nil, NEW f \in Field
          PROVE  last[t][f] \in Entry /\ last[t][f].version <= Newest(t, f)'
      <4>1. last[t][f] \in Entry /\ last[t][f].version <= Newest(t, f)
        BY <2>0, <3>4, Zenon DEF SteadyAt, LastAt
      <4>2. last[t][f].version \in Nat /\ cached[t].initial \in Nat /\ server[t].initial \in Nat
        BY <2>0, <4>1, Zenon DEF Numbers
      <4>3. CASE f = 0
        BY <3>1, <3>2, <4>1, <4>2, <4>3 DEF Newest
      <4>4. CASE f # 0
        BY <3>1, <4>1, <4>4, Zenon DEF Newest
      <4>. QED
        BY <4>3, <4>4, Zenon
    <3>5. LastAt(t)'
      BY <3>1, <3>4, Zenon DEF LastAt
    <3>. QED
      BY <3>1, <3>3, <3>5, Zenon DEF SteadyAt, ReadAt
  <2>2. ASSUME NEW s \in Sync, Kubernetes(s), NeverBack PROVE SteadyAt(t)'
    BY <1>1, <2>2, SteadyKubernetes, Zenon
  <2>3. ASSUME NEW s \in Sync, Start(s) \/ Reconcile(s), ~ListError(s) PROVE SteadyAt(t)'
    <3>1. CASE t = s
      BY <2>3, <3>1, SteadyStart, SteadySetBuffer, SteadyParse, SteadyMerge, SteadyDiff,
         SteadyEnqueue, SteadyStatus, Zenon DEF Reconcile
    <3>2. CASE t # s
      BY <1>1, <2>3, <3>2, SteadyOthers, Zenon
    <3>. QED
      BY <3>1, <3>2, Zenon
  <2>4. CASE UNCHANGED vars
    BY <2>0, <2>4, Zenon
    DEF SteadyAt, CacheAt, LastAt, ReadAt, Between, Newest, vars, apiVars, localVars
  <2>. QED
    BY <2>1, <2>2, <2>3, <2>4, Zenon DEF SteadyNext, Next
<1>. QED
  BY <1>1, <1>2, Zenon DEF SteadyInv

\* What was sent for s is replaced only by what is at least as new, field by
\* field.
NotOlder(s) ==
  last[s] # Nil =>
    /\ last'[s] # Nil
    /\ \A f \in Field : last[s][f].version <= last'[s][f].version

\* Only the Enqueue of s changes what was sent for s.
LEMMA OnlyEnqueueSends ==
  ASSUME TypeInv, [Next]_vars, NEW s \in Sync
  PROVE  last'[s] = last[s] \/ Enqueue(s)
<1>1. CASE Restart
  BY <1>1, Zenon DEF Restart
<1>2. ASSUME NEW t \in Sync, Kubernetes(t) \/ Start(t) PROVE last' = last
  BY <1>2, Zenon DEF Kubernetes, Change, Edit, Notify, Observe, Start
<1>3. ASSUME NEW t \in Sync, Reconcile(t), ~Enqueue(t) PROVE last' = last
  BY <1>3, Zenon DEF Reconcile, SetBuffer, Parse, ParseError, Merge, EndParse, Diff, EnqueueError,
              UpdateStatus, UpdateStatusError
<1>4. ASSUME NEW t \in Sync, Enqueue(t), t # s PROVE last'[s] = last[s]
  BY <1>4, Zenon DEF Enqueue, TypeInv, SyncTypeOK
<1>5. CASE UNCHANGED vars
  BY <1>5, Zenon DEF vars
<1>. QED
  BY <1>1, <1>2, <1>3, <1>4, <1>5, Zenon DEF Next

\* A step replaces what was sent for s by nothing older.
LEMMA StepNotOlder ==
  ASSUME SteadyInv, [SteadyNext]_vars, NEW s \in Sync
  PROVE  NotOlder(s)
<1>0. TypeInv /\ SteadyAt(s) /\ Numbers /\ [Next]_vars
  BY Versions, Zenon DEF SteadyInv, CalmInv, SteadyNext
<1>1. CASE last'[s] = last[s]
  <2>1. ASSUME last[s] # Nil, NEW f \in Field PROVE last[s][f].version <= last[s][f].version
    <3>1. last[s][f].version \in Nat
      BY <1>0, <2>1, Zenon DEF SteadyAt, LastAt, Numbers
    <3>. QED
      BY <3>1
  <2>. QED
    BY <1>1, <2>1, Zenon DEF NotOlder
<1>2. CASE Enqueue(s)
  <2>1. pc[s] = "enqueue" /\ last'[s] = data[s] /\ data[s] \in Data
    BY <1>0, <1>2, Zenon DEF Enqueue, TypeInv, SyncTypeOK
  <2>2. \A f \in Field : last[s] # Nil => last[s][f].version <= data[s][f].version
    BY <1>0, <2>1, Zenon DEF SteadyAt, ReadAt, Between
  <2>3. data[s] # Nil
    BY <2>1, SyncAssumption, Zenon
  <2>. QED
    BY <2>1, <2>2, <2>3, Zenon DEF NotOlder
<1>. QED
  BY <1>0, <1>1, <1>2, OnlyEnqueueSends, Zenon

\* When reconciles take turns, no List fails and contents do not come back,
\* Reconcile never replaces the data that was sent for a ClusterSync by older
\* data, in any field: not after it started from a stale copy of the ClusterSync,
\* and not after a conflict, an error of the queue or a restart.
THEOREM NeverSendsOlder == SteadySpec => [][\A s \in Sync : NotOlder(s)]_vars
<1>1. SteadyInv /\ [SteadyNext]_vars => [\A s \in Sync : NotOlder(s)]_vars
  BY StepNotOlder, Zenon
<1>. QED
  BY <1>1, SteadyInit, SteadyNextInv, PTL DEF SteadySpec

\* Nothing that is there is newer than the objects are.
LEMMA NewestIsCurrent ==
  ASSUME SteadyInv, NEW s \in Sync, NEW f \in Field
  PROVE  /\ CurrentData(s)[f].sync = s
         /\ CurrentData(s)[f].version \in Nat
         /\ Newest(s, f) <= CurrentData(s)[f].version
<1>0. SteadyAt(s) /\ Numbers
  BY Versions, Zenon DEF SteadyInv, CalmInv
<1>1. /\ CurrentData(s)[f].sync = s
      /\ CurrentData(s)[f].version = IF f = 0 THEN server[s].initial ELSE objects[s][f]
  BY Zenon DEF CurrentData
<1>2. Newest(s, f) \in Nat /\ server[s].initial \in Nat
  BY <1>0, Zenon DEF Numbers
<1>3. CASE f = 0
  BY <1>0, <1>1, <1>2, <1>3, Zenon DEF SteadyAt, CacheAt, Newest
<1>4. CASE f # 0
  BY <1>1, <1>2, <1>4 DEF Newest
<1>. QED
  BY <1>3, <1>4, Zenon

\* The objects of a ClusterSync make data.
LEMMA CurrentIsData ==
  ASSUME TypeInv, NEW s \in Sync
  PROVE  CurrentData(s) \in Data
<1>1. \A f \in Field : f = 0 \/ f \in 1 .. N
  BY SyncAssumption DEF Field
<1>2. server[s].initial \in Version /\ objects[s] \in [1 .. N -> Version]
  BY Zenon DEF TypeInv, SyncTypeOK, Instance
<1>3. ASSUME NEW f \in Field
      PROVE  (IF f = 0 THEN server[s].initial ELSE objects[s][f]) \in Version
  BY <1>1, <1>2, Zenon
<1>4. \A f \in Field : CurrentData(s)[f] \in Entry
  BY <1>3, Zenon DEF CurrentData, Entry
<1>. QED
  BY <1>4, Zenon DEF CurrentData, Data

\* Data of s alone, complete, with the versions of the objects, is the current one.
LEMMA CurrentVersions ==
  ASSUME NEW s \in Sync, NEW d \in Data, OwnData(s, d),
         \A f \in Field : d[f] \in Entry /\ d[f].version = CurrentData(s)[f].version
  PROVE  d = CurrentData(s)
<1>1. ASSUME NEW f \in Field PROVE d[f] = CurrentData(s)[f]
  <2>1. d[f] \in Entry /\ d[f].sync = s
    BY SyncAssumption, Zenon DEF OwnData
  <2>2. d[f] = [sync |-> s, version |-> d[f].version]
    BY <2>1, Zenon DEF Entry
  <2>3. CurrentData(s)[f] = [sync |-> s, version |-> CurrentData(s)[f].version]
    BY Zenon DEF CurrentData
  <2>. QED
    BY <2>2, <2>3, Zenon
<1>2. d \in [Field -> Entry \cup {Nil}]
  BY Zenon DEF Data
<1>. QED
  BY <1>1, <1>2, Zenon DEF CurrentData

\* What was sent for s stays when it is current and the objects stay.
KeepsCurrent(s) ==
  last[s] = CurrentData(s) /\ CurrentData(s)' = CurrentData(s) => last'[s] = last[s]

\* Once the data sent for a ClusterSync is that of its objects, and as long as
\* they stay as they are, nothing else is sent for it: reconciles that started
\* before the objects changed, from stale copies, or that a conflict or a restart
\* repeats, do not undo it.
THEOREM StaysInSync == SteadySpec => [][\A s \in Sync : KeepsCurrent(s)]_vars
<1>1. ASSUME SteadyInv, [SteadyNext]_vars, NEW s \in Sync
      PROVE  KeepsCurrent(s)
  <2>0. TypeInv /\ SteadyAt(s) /\ DataInv /\ [Next]_vars /\ Numbers
    BY <1>1, Versions, Zenon DEF SteadyInv, CalmInv, SteadyNext
  <2>1. ASSUME Enqueue(s), last[s] = CurrentData(s)
        PROVE  last'[s] = last[s]
    <3>1. /\ pc[s] = "enqueue" /\ last'[s] = data[s] /\ data[s] \in Data
          /\ last[s] \in Data \cup {Nil}
      BY <2>0, <2>1, Zenon DEF Enqueue, TypeInv, SyncTypeOK
    <3>2. OwnData(s, data[s])
      BY <2>0, <3>1, Zenon DEF DataInv
    <3>3. last[s] # Nil
      <4>1. CurrentData(s) \in Data
        BY <2>0, CurrentIsData, Zenon
      <4>. QED
        BY <2>1, <4>1, SyncAssumption, Zenon
    <3>4. ASSUME NEW f \in Field
          PROVE  data[s][f] \in Entry /\ data[s][f].version = CurrentData(s)[f].version
      <4>1. Between(s, f, data[s][f])
        BY <2>0, <3>1, Zenon DEF SteadyAt, ReadAt
      <4>2. /\ data[s][f] \in Entry
            /\ CurrentData(s)[f].version <= data[s][f].version
            /\ data[s][f].version <= Newest(s, f)
        BY <2>1, <3>3, <4>1, Zenon DEF Between
      <4>3. Newest(s, f) \in Nat /\ data[s][f].version \in Nat
        BY <2>0, <4>2, Zenon DEF Numbers
      <4>4. CurrentData(s)[f].version \in Nat /\ Newest(s, f) <= CurrentData(s)[f].version
        BY <1>1, NewestIsCurrent, Zenon
      <4>. QED
        BY <4>2, <4>3, <4>4
    <3>5. data[s] = CurrentData(s)
      BY <3>1, <3>2, <3>4, CurrentVersions, Zenon
    <3>. QED
      BY <2>1, <3>1, <3>5, Zenon
  <2>2. last'[s] = last[s] \/ Enqueue(s)
    BY <2>0, OnlyEnqueueSends, Zenon
  <2>. QED
    BY <2>1, <2>2, Zenon DEF KeepsCurrent
<1>2. SteadyInv /\ [SteadyNext]_vars => [\A s \in Sync : KeepsCurrent(s)]_vars
  BY <1>1, Zenon
<1>. QED
  BY <1>2, SteadyInit, SteadyNextInv, PTL DEF SteadySpec

\* A step of ReliableSpec.
ReliableNext == SteadyNext /\ \A s \in Sync : Accepted(s)

\* The data of a hash was sent, or newer data was.
WasSent(s, h) ==
  h # Nil => /\ last[s] # Nil
             /\ \A f \in Field : h[f] \in Entry /\ h[f].version <= last[s][f].version

\* So it is for every hash in a status, in the API server, in the cache and in
\* a reconcile.
HashInv ==
  \A s \in Sync :
    /\ WasSent(s, server[s].hash)
    /\ WasSent(s, cached[s].hash)
    /\ pc[s] # "idle" => WasSent(s, instance[s].hash)

\* What was sent stays sent.
LEMMA StaysSent ==
  ASSUME SteadyInv, SteadyInv', NEW s \in Sync, NotOlder(s), NEW h, WasSent(s, h)
  PROVE  h # Nil => /\ last'[s] # Nil
                    /\ \A f \in Field : h[f] \in Entry /\ h[f].version <= last'[s][f].version
<1>0. SteadyAt(s) /\ SteadyAt(s)' /\ Numbers
  BY Versions, Zenon DEF SteadyInv, CalmInv
<1>1. SUFFICES ASSUME h # Nil, NEW f \in Field
               PROVE  /\ last'[s] # Nil
                      /\ h[f] \in Entry /\ h[f].version <= last'[s][f].version
  BY Zenon DEF NotOlder, WasSent
<1>2. /\ last[s] # Nil /\ last'[s] # Nil
      /\ h[f] \in Entry /\ h[f].version <= last[s][f].version
      /\ last[s][f].version <= last'[s][f].version
  BY <1>1, Zenon DEF WasSent, NotOlder
<1>3. last[s][f] \in Entry /\ last'[s][f] \in Entry
  BY <1>0, <1>2, Zenon DEF SteadyAt, LastAt
<1>4. h[f].version \in Nat /\ last[s][f].version \in Nat /\ last'[s][f].version \in Nat
  BY <1>0, <1>2, <1>3, Zenon DEF Numbers
<1>. QED
  BY <1>2, <1>4

\* Every step of a manager whose queue accepts every message preserves HashInv.
LEMMA HashNextInv == SteadyInv /\ HashInv /\ [ReliableNext]_vars => HashInv'
<1> SUFFICES ASSUME SteadyInv, HashInv, [ReliableNext]_vars, NEW s \in Sync
             PROVE  /\ WasSent(s, server[s].hash)'
                    /\ WasSent(s, cached[s].hash)'
                    /\ pc'[s] # "idle" => WasSent(s, instance[s].hash)'
  BY Zenon DEF HashInv
<1>0. [SteadyNext]_vars /\ [Next]_vars
  BY Zenon DEF ReliableNext, SteadyNext
<1>1. SteadyInv' /\ TypeInv /\ TypeInv'
  BY <1>0, SteadyNextInv, Zenon DEF SteadyInv, CalmInv
<1>2. NotOlder(s)
  BY <1>0, StepNotOlder, Zenon
<1>3. \A h : WasSent(s, h) =>
        (h # Nil => /\ last'[s] # Nil
                    /\ \A f \in Field : h[f] \in Entry /\ h[f].version <= last'[s][f].version)
  BY <1>1, <1>2, StaysSent, Zenon
<1>4. /\ WasSent(s, server[s].hash) /\ WasSent(s, cached[s].hash)
      /\ pc[s] # "idle" => WasSent(s, instance[s].hash)
  BY Zenon DEF HashInv
<1>5. SUFFICES /\ \/ server'[s].hash = server[s].hash
                  \/ pc[s] # "idle" /\ server'[s].hash = instance[s].hash
               /\ cached'[s].hash \in {cached[s].hash, server[s].hash}
               /\ pc'[s] # "idle" =>
                    \/ pc[s] # "idle" /\ instance'[s].hash = instance[s].hash
                    \/ instance'[s].hash = cached[s].hash
                    \/ Enqueue(s)
  <2>1. ASSUME Enqueue(s) PROVE WasSent(s, instance[s].hash)'
    <3>1. pc[s] = "enqueue" /\ last'[s] = data[s] /\ data[s] \in Data
      BY <1>1, <2>1, Zenon DEF Enqueue, TypeInv, SyncTypeOK
    <3>2. instance[s] \in Instance
      BY <1>1, <3>1, Zenon DEF TypeInv, LocalInv
    <3>3. instance'[s] = [instance[s] EXCEPT !.hash = data[s]]
      BY <1>1, <2>1, Zenon DEF Enqueue, StoreHash, TypeInv, SyncTypeOK
    <3>4. instance'[s].hash = last'[s] /\ last'[s] # Nil
      BY <3>1, <3>2, <3>3, SyncAssumption, Zenon DEF Instance
    <3>5. ASSUME NEW f \in Field
          PROVE  last'[s][f] \in Entry /\ last'[s][f].version <= last'[s][f].version
      <4>1. last'[s][f] \in Entry
        BY <1>1, <3>4, Zenon DEF SteadyInv, SteadyAt, LastAt
      <4>2. last'[s][f].version \in Nat
        BY <1>1, <4>1, Versions, Zenon DEF Numbers
      <4>. QED
        BY <4>1, <4>2
    <3>. QED
      BY <3>4, <3>5, Zenon DEF WasSent
  <2>. QED
    BY <1>3, <1>4, <1>5, <2>1, Zenon DEF WasSent
<1>6. CASE Restart
  BY <1>6, Zenon DEF Restart
<1>7. ASSUME NEW t \in Sync, Kubernetes(t)
      PROVE  /\ server'[s].hash = server[s].hash
             /\ cached'[s].hash \in {cached[s].hash, server[s].hash}
             /\ UNCHANGED <<pc, instance>>
  <2>1. ASSUME NEW k \in 1 .. N, NEW v \in Version, Change(t, k, v)
        PROVE  UNCHANGED <<server, cached, pc, instance>>
    BY <2>1, Zenon DEF Change, localVars
  <2>2. ASSUME NEW v \in Version, Edit(t, v)
        PROVE  UNCHANGED <<cached, pc, instance>> /\ server'[s].hash = server[s].hash
    <3>1. server \in [Sync -> Instance] /\ server' = [server EXCEPT ![t].initial = v]
      BY <1>1, <2>2, Zenon DEF Edit, TypeInv, SyncTypeOK
    <3>2. server'[s].hash = server[s].hash
      BY <3>1, Zenon DEF Instance
    <3>. QED
      BY <2>2, <3>2, Zenon DEF Edit
  <2>3. Notify(t) => UNCHANGED <<server, cached, pc, instance>>
    BY Zenon DEF Notify, apiVars, localVars
  <2>4. Observe(t) => UNCHANGED <<server, pc, instance>> /\ cached'[s] \in {cached[s], server[s]}
    BY <1>1 DEF Observe, TypeInv, SyncTypeOK, localVars
  <2>. QED
    BY <1>7, <2>1, <2>2, <2>3, <2>4, Zenon DEF Kubernetes
<1>8. ASSUME NEW t \in Sync, Start(t)
      PROVE  /\ UNCHANGED <<server, cached>>
             /\ IF t = s THEN instance'[s] = cached[s]
                         ELSE pc'[s] = pc[s] /\ instance'[s] = instance[s]
  BY <1>1, <1>8, Zenon DEF Start, TypeInv, SyncTypeOK, apiVars
<1>9. ASSUME NEW t \in Sync, Reconcile(t), Accepted(t)
      PROVE  /\ server'[s] = server[s] \/ (pc[s] # "idle" /\ server'[s] = instance[s])
             /\ cached' = cached
             /\ pc'[s] # "idle" => \/ pc[s] # "idle" /\ instance'[s].hash = instance[s].hash
                                   \/ Enqueue(s)
  <2>1. CASE SetBuffer(t) \/ Parse(t) \/ ParseError(t) \/ Merge(t)
    <3>1. UNCHANGED <<server, cached, instance>> /\ pc[t] # "idle" /\ (t # s => pc'[s] = pc[s])
      BY <1>1, <2>1, Zenon DEF SetBuffer, Parse, ParseError, Merge, TypeInv, SyncTypeOK, apiVars
    <3>. QED
      BY <3>1, Zenon
  <2>2. CASE EndParse(t)
    <3>1. \E b \in BOOLEAN : instance' = [instance EXCEPT ![t] = [instance[t] EXCEPT !.failed = b]]
      BY <2>2, Zenon DEF EndParse
    <3>2. UNCHANGED <<server, cached>> /\ pc[t] # "idle" /\ (t # s => pc'[s] = pc[s])
      BY <1>1, <2>2, Zenon DEF EndParse, TypeInv, SyncTypeOK, apiVars
    <3>3. instance[t] \in Instance
      BY <1>1, <3>2, Zenon DEF TypeInv, LocalInv
    <3>4. instance'[s].hash = instance[s].hash
      BY <1>1, <3>1, <3>3 DEF TypeInv, SyncTypeOK, Instance
    <3>. QED
      BY <3>2, <3>4, Zenon
  <2>3. CASE Diff(t)
    <3>1. /\ UNCHANGED <<server, cached>> /\ pc[t] # "idle"
          /\ t # s => pc'[s] = pc[s] /\ instance'[s] = instance[s]
      BY <1>1, <2>3 DEF Diff, Return, TypeInv, SyncTypeOK, apiVars
    <3>2. pc'[t] = "idle" \/ instance' = instance
      BY <1>1, <2>3 DEF Diff, Return, TypeInv, SyncTypeOK
    <3>. QED
      BY <3>1, <3>2, Zenon
  <2>4. CASE Enqueue(t)
    <3>1. UNCHANGED <<server, cached>> /\ (t # s => pc'[s] = pc[s] /\ instance'[s] = instance[s])
      BY <1>1, <2>4, Zenon DEF Enqueue, StoreHash, TypeInv, SyncTypeOK, apiVars
    <3>. QED
      BY <2>4, <3>1, Zenon
  <2>5. CASE UpdateStatus(t) \/ UpdateStatusError(t)
    <3>1. /\ cached' = cached /\ pc'[t] = "idle" /\ pc[t] # "idle"
          /\ t # s => pc'[s] = pc[s] /\ instance'[s] = instance[s]
      BY <1>1, <2>5 DEF UpdateStatus, UpdateStatusError, Return, TypeInv, SyncTypeOK
    <3>2. server'[s] = server[s] \/ (t = s /\ server'[s] = instance[s])
      BY <1>1, <2>5 DEF UpdateStatus, UpdateStatusError, StoreStatus, TypeInv, SyncTypeOK
    <3>. QED
      BY <3>1, <3>2, Zenon
  <2>. QED
    BY <1>9, <2>1, <2>2, <2>3, <2>4, <2>5, Zenon DEF Reconcile, Accepted
<1>10. CASE UNCHANGED vars
  BY <1>10, Zenon DEF vars, apiVars, localVars
<1>. QED
  BY <1>6, <1>7, <1>8, <1>9, <1>10, Zenon DEF ReliableNext, SteadyNext, Next

\* With a queue that accepts every message, a reconcile that finds the hash of
\* the current data in the status, and sends nothing for it, does so because the
\* last data sent is the current one.
THEOREM HashMeansSent ==
  ReliableSpec => [](\A s \in Sync : server[s].hash = CurrentData(s) => last[s] = CurrentData(s))
<1>1. Init => HashInv
  <2> SUFFICES ASSUME Init, NEW s \in Sync
               PROVE  server[s].hash = Nil /\ cached[s].hash = Nil /\ pc[s] = "idle"
    BY Zenon DEF HashInv, WasSent
  <2>. QED
    BY Zenon DEF Init
<1>2. SteadyInv /\ HashInv =>
        \A s \in Sync : server[s].hash = CurrentData(s) => last[s] = CurrentData(s)
  <2> SUFFICES ASSUME SteadyInv, HashInv, NEW s \in Sync, server[s].hash = CurrentData(s)
               PROVE  last[s] = CurrentData(s)
    OBVIOUS
  <2>0. TypeInv /\ SteadyAt(s) /\ Isolated /\ Numbers
    BY Versions, Zenon DEF SteadyInv, CalmInv
  <2>1. CurrentData(s) \in Data
    BY <2>0, CurrentIsData, Zenon
  <2>2. /\ last[s] # Nil
        /\ \A f \in Field : CurrentData(s)[f].version <= last[s][f].version
    BY <2>1, SyncAssumption, Zenon DEF HashInv, WasSent
  <2>3. last[s] \in Data /\ OwnData(s, last[s])
    BY <2>0, <2>2, Zenon DEF TypeInv, SyncTypeOK, Isolated
  <2>4. ASSUME NEW f \in Field
        PROVE  last[s][f] \in Entry /\ last[s][f].version = CurrentData(s)[f].version
    <3>1. last[s][f] \in Entry /\ last[s][f].version <= Newest(s, f)
      BY <2>0, <2>2, Zenon DEF SteadyAt, LastAt
    <3>2. Newest(s, f) \in Nat /\ last[s][f].version \in Nat
      BY <2>0, <3>1, Zenon DEF Numbers
    <3>3. CurrentData(s)[f].version \in Nat /\ Newest(s, f) <= CurrentData(s)[f].version
      BY NewestIsCurrent, Zenon
    <3>. QED
      BY <2>2, <3>1, <3>2, <3>3
  <2>. QED
    BY <2>3, <2>4, CurrentVersions, Zenon
<1>3. SteadyInv /\ [ReliableNext]_vars => SteadyInv'
  BY SteadyNextInv, Zenon DEF ReliableNext
<1>. QED
  BY <1>1, <1>2, <1>3, SteadyInit, HashNextInv, PTL DEF ReliableSpec, ReliableNext

=============================================================================
