--------------------------- MODULE SqsPollerProofs --------------------------
(***************************************************************************)
(* Theorems about SqsPoller, for any configuration.                        *)
(***************************************************************************)
EXTENDS SqsPoller, TLAPS

\* The WaitGroup counts the goroutines, and handlerCount is as far from it as
\* updates were lost.
CountInv ==
  /\ wg = running + ending + (IF locked THEN 1 ELSE 0)
  /\ handlerCount - wg <= lost
  /\ wg - handlerCount <= lost

\* Between a load and the store that follows it, nobody but Poll makes
\* handlerCount larger.
LoadInv ==
  /\ locked => held <= handlerCount
  /\ ppc = "increment" => handlerCount <= loaded /\ batch > 0
  /\ ppc = "increment" /\ locked => held <= loaded

\* What Poll knows of the handlers it may still start.
RoomInv ==
  /\ ppc = "available" => MaxHandlers > 0 /\ handlerCount < MaxHandlers
  /\ MaxMsgsInRange
  /\ MaxHandlers > 0 =>
       /\ ppc = "receive" => wg + maxMsgs <= MaxHandlers + lost
       /\ ppc \in {"spawn", "increment"} => wg + batch <= MaxHandlers + lost

IInv ==
  PollerTypeOK /\ CountInv /\ LoadInv /\ RoomInv /\ CapacityUpToLostUpdates

\* Every step of the loop and of the goroutines preserves the invariant.
LEMMA NextInv == IInv /\ [Next]_vars => IInv'
<1> SUFFICES ASSUME IInv, [Next]_vars PROVE IInv'
  OBVIOUS
<1> USE PollerAssumption
    DEF IInv, PollerTypeOK, CountInv, LoadInv, RoomInv, CapacityUpToLostUpdates,
        MaxMsgsInRange
<1>1. CASE PassCheck
  BY <1>1 DEF PassCheck, goVars
<1>2. CASE Available
  BY <1>2 DEF Available, goVars
<1>3. ASSUME NEW n \in 0 .. BatchSize, Receive(n) PROVE IInv'
  BY <1>3 DEF Receive, goVars
<1>4. CASE ReceiveError
  BY <1>4 DEF ReceiveError, goVars
<1>5. CASE IncrementLoad
  BY <1>5 DEF IncrementLoad, goVars
<1>6. CASE IncrementStore
  <2>1. lost' = lost + (loaded - handlerCount)
    BY <1>6 DEF IncrementStore, Abs
  <2>2. /\ ppc = "increment" /\ handlerCount' = loaded + 1 /\ wg' = wg + 1
        /\ running' = running + 1 /\ batch' = batch - 1 /\ loaded' = 0 /\ ppc' = "spawn"
        /\ UNCHANGED <<maxMsgs, ending, locked, held>>
    BY <1>6 DEF IncrementStore
  <2>3. PollerTypeOK' /\ LoadInv' /\ RoomInv' /\ CapacityUpToLostUpdates'
    BY <2>1, <2>2
  <2>4. CountInv'
    BY <2>1, <2>2
  <2>. QED
    BY <2>3, <2>4, Zenon
<1>7. CASE EndBatch
  BY <1>7 DEF EndBatch, goVars
<1>8. CASE Wait
  BY <1>8 DEF Wait, goVars
<1>9. CASE EndHandler
  BY <1>9 DEF EndHandler, pollVars
<1>10. CASE DecrementLoad
  BY <1>10 DEF DecrementLoad, pollVars
<1>11. CASE DecrementStore
  <2>1. lost' = lost + (handlerCount - held)
    BY <1>11 DEF DecrementStore, Abs
  <2>2. /\ locked /\ ~locked' /\ locked' \in BOOLEAN
        /\ handlerCount' = held - 1 /\ held' = 0 /\ wg' = wg - 1
        /\ UNCHANGED <<pollVars, running, ending>>
    BY <1>11, Zenon DEF DecrementStore
  <2>3. wg = running + ending + 1
    BY <2>2
  <2>4. CountInv'
    BY <2>1, <2>2, <2>3 DEF pollVars
  <2>5. PollerTypeOK'
    BY <2>1, <2>2, <2>3 DEF pollVars
  <2>6. LoadInv' /\ RoomInv' /\ CapacityUpToLostUpdates'
    BY <2>1, <2>2, <2>3 DEF pollVars
  <2>. QED
    BY <2>4, <2>5, <2>6, Zenon
<1>12. CASE UNCHANGED vars
  BY <1>12 DEF vars, pollVars, goVars
<1>. QED
  BY <1>1, <1>2, <1>3, <1>4, <1>5, <1>6, <1>7, <1>8, <1>9, <1>10, <1>11, <1>12
  DEF Next, PollStep

\* The invariant holds whatever the interleaving of the loop's unsynchronised
\* increments with the goroutines' decrements.
THEOREM Invariance == Spec => []IInv
<1>1. Init => IInv
  <2> SUFFICES ASSUME Init PROVE IInv
    OBVIOUS
  <2>1. ~locked /\ locked \in BOOLEAN
    BY Zenon DEF Init
  <2>2. PollerTypeOK /\ LoadInv
    BY <2>1 DEF Init, PollerTypeOK, LoadInv
  <2>3. CountInv
    BY <2>1 DEF Init, CountInv
  <2>4. RoomInv /\ CapacityUpToLostUpdates
    BY PollerAssumption DEF Init, RoomInv, MaxMsgsInRange, CapacityUpToLostUpdates
  <2>. QED
    BY <2>2, <2>3, <2>4 DEF IInv
<1>. QED
  BY <1>1, NextInv, PTL DEF Spec

\* The types of the loop's and the goroutines' state.
THEOREM TypeCorrect == Spec => []PollerTypeOK
BY Invariance, PTL DEF IInv

\* ReceiveMessage is asked for between one message and a batch of them.
THEOREM AsksInRange == Spec => []MaxMsgsInRange
BY Invariance, PTL DEF IInv, RoomInv

\* MaxHandlers is exceeded by at most the number of lost updates.
THEOREM CapacityKept == Spec => []CapacityUpToLostUpdates
BY Invariance, PTL DEF IInv

=============================================================================
