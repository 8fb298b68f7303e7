------------------------------ MODULE SqsPoller -----------------------------
(***************************************************************************)
(* The Poll loop of pkg/sqs/sqs.go and the handler goroutines it starts,   *)
(* with the counter that limits their number.  The goroutines decrement    *)
(* handlerCount under the mutex; the loop reads and increments it without. *)
(* Load and store of handlerCount are steps of their own.                  *)
(*                                                                         *)
(* Goroutines differ in nothing the loop can see, so they are counted, not *)
(* named.  The handler is registered and the service connected before Poll *)
(* is called (cmd/apiserver/apiserver.go).                                 *)
(***************************************************************************)
EXTENDS Integers

CONSTANTS
  BatchSize,    \* Config.BatchSize
  MaxHandlers,  \* Config.MaxHandlers, 0 for no limit
  RunOnce,      \* Config.RunOnce
  MaxLive,      \* bound: goroutines alive at once
  MaxLost       \* bound: no more messages once so many updates were lost

ASSUME PollerAssumption ==
  /\ BatchSize \in Nat \ {0}
  /\ MaxHandlers \in Nat
  /\ RunOnce \in BOOLEAN
  /\ MaxLive \in Nat
  /\ MaxLost \in Nat

VARIABLES
  ppc,          \* what Poll does next
  maxMsgs,      \* Poll's maxMsgs
  batch,        \* received messages for which no handler was started yet
  loaded,       \* the handlerCount that Poll's handlerCount++ loaded
  handlerCount, \* Config.handlerCount
  running,      \* goroutines in s.handler(m)
  ending,       \* goroutines that wait for the mutex
  locked,       \* a goroutine holds the mutex
  held,         \* the handlerCount that its handlerCount-- loaded
  wg,           \* the counter of the WaitGroup
  lost          \* history: increments and decrements of handlerCount that
                \*   another goroutine's store overwrote

pollVars == <<ppc, maxMsgs, batch, loaded>>
goVars == <<running, ending, locked, held>>
vars == <<pollVars, goVars, handlerCount, wg, lost>>

PollerTypeOK ==
  /\ ppc \in {"check", "available", "receive", "spawn", "increment", "wait", "done"}
  /\ maxMsgs \in Int
  /\ batch \in Nat
  /\ loaded \in Int
  /\ handlerCount \in Int
  /\ running \in Nat
  /\ ending \in Nat
  /\ locked \in BOOLEAN
  /\ held \in Int
  /\ wg \in Nat
  /\ lost \in Nat

Init ==
  /\ ppc = "check"
  /\ maxMsgs = 0
  /\ batch = 0
  /\ loaded = 0
  /\ handlerCount = 0
  /\ running = 0
  /\ ending = 0
  /\ locked = FALSE
  /\ held = 0
  /\ wg = 0
  /\ lost = 0

Abs(n) == IF n < 0 THEN -n ELSE n

-----------------------------------------------------------------------------
(* The loop.                                                               *)

\* Mutant: no waiting for a handler to end.
PassCheckAlways ==
  /\ ppc = "check"
  /\ IF MaxHandlers > 0
     THEN ppc' = "available" /\ maxMsgs' = maxMsgs
     ELSE ppc' = "receive" /\ maxMsgs' = BatchSize
  /\ UNCHANGED <<batch, loaded, goVars, handlerCount, wg, lost>>

\* The loop is not at capacity.  While it is, it waits and looks again.
PassCheck ==
  /\ ppc = "check"
  /\ IF MaxHandlers > 0
     THEN handlerCount < MaxHandlers /\ ppc' = "available" /\ maxMsgs' = maxMsgs
     ELSE ppc' = "receive" /\ maxMsgs' = BatchSize
  /\ UNCHANGED <<batch, loaded, goVars, handlerCount, wg, lost>>

\* Mutant: a full batch whatever the number of handlers.
FullBatch ==
  /\ ppc = "available"
  /\ maxMsgs' = BatchSize
  /\ ppc' = "receive"
  /\ UNCHANGED <<batch, loaded, goVars, handlerCount, wg, lost>>

\* A second read of handlerCount: how many handlers may be started.
Available ==
  /\ ppc = "available"
  /\ maxMsgs' = IF MaxHandlers - handlerCount < BatchSize
                THEN MaxHandlers - handlerCount ELSE BatchSize
  /\ ppc' = "receive"
  /\ UNCHANGED <<batch, loaded, goVars, handlerCount, wg, lost>>

\* ReceiveMessage returned n messages.
Receive(n) ==
  /\ ppc = "receive"
  /\ n <= maxMsgs
  /\ n > 0 => wg + n <= MaxLive /\ lost <= MaxLost
  /\ batch' = n
  /\ maxMsgs' = 0
  /\ ppc' = "spawn"
  /\ UNCHANGED <<loaded, goVars, handlerCount, wg, lost>>

\* ReceiveMessage failed: break.
ReceiveError ==
  /\ ppc = "receive"
  /\ maxMsgs' = 0
  /\ ppc' = "wait"
  /\ UNCHANGED <<batch, loaded, goVars, handlerCount, wg, lost>>

\* handlerCount++, the load.
IncrementLoad ==
  /\ ppc = "spawn"
  /\ batch > 0
  /\ loaded' = handlerCount
  /\ ppc' = "increment"
  /\ UNCHANGED <<maxMsgs, batch, goVars, handlerCount, wg, lost>>

\* handlerCount++, the store; wg.Add(1) and the go statement.
IncrementStore ==
  /\ ppc = "increment"
  /\ lost' = lost + Abs(handlerCount - loaded)
  /\ handlerCount' = loaded + 1
  /\ wg' = wg + 1
  /\ running' = running + 1
  /\ batch' = batch - 1
  /\ loaded' = 0
  /\ ppc' = "spawn"
  /\ UNCHANGED <<maxMsgs, ending, locked, held>>

\* The batch is done: the next one after RunInterval, or the end of the loop.
EndBatch ==
  /\ ppc = "spawn"
  /\ batch = 0
  /\ ppc' = IF RunOnce THEN "wait" ELSE "check"
  /\ UNCHANGED <<maxMsgs, batch, loaded, goVars, handlerCount, wg, lost>>

\* wg.Wait() returns, and Poll with it.
Wait ==
  /\ ppc = "wait"
  /\ wg = 0
  /\ ppc' = "done"
  /\ UNCHANGED <<maxMsgs, batch, loaded, goVars, handlerCount, wg, lost>>

-----------------------------------------------------------------------------
(* The goroutines.                                                         *)

\* s.handler(m) returns.
EndHandler ==
  /\ running > 0
  /\ running' = running - 1
  /\ ending' = ending + 1
  /\ UNCHANGED <<pollVars, locked, held, handlerCount, wg, lost>>

\* Mutant: wg.Done called before the decrement as well.
DoneTwice ==
  /\ ending > 0
  /\ ~locked
  /\ ending' = ending - 1
  /\ locked' = TRUE
  /\ held' = handlerCount
  /\ wg' = wg - 1
  /\ UNCHANGED <<pollVars, running, handlerCount, lost>>

\* Lock, and handlerCount--, the load.
DecrementLoad ==
  /\ ending > 0
  /\ ~locked
  /\ ending' = ending - 1
  /\ locked' = TRUE
  /\ held' = handlerCount
  /\ UNCHANGED <<pollVars, running, handlerCount, wg, lost>>

\* Mutants: a handler that ends is still counted, by handlerCount or by wg.
DecrementForgotten ==
  /\ locked
  /\ locked' = FALSE
  /\ held' = 0
  /\ wg' = wg - 1
  /\ UNCHANGED <<pollVars, running, ending, handlerCount, lost>>

DoneForgotten ==
  /\ locked
  /\ lost' = lost + Abs(handlerCount - held)
  /\ handlerCount' = held - 1
  /\ locked' = FALSE
  /\ held' = 0
  /\ UNCHANGED <<pollVars, running, ending, wg>>

\* handlerCount--, the store; Unlock and wg.Done(), after which the goroutine
\* is gone.
DecrementStore ==
  /\ locked
  /\ lost' = lost + Abs(handlerCount - held)
  /\ handlerCount' = held - 1
  /\ locked' = FALSE
  /\ held' = 0
  /\ wg' = wg - 1
  /\ UNCHANGED <<pollVars, running, ending>>

PollStep ==
  \/ PassCheck
  \/ Available
  \/ \E n \in 0 .. BatchSize : Receive(n)
  \/ ReceiveError
  \/ IncrementLoad
  \/ IncrementStore
  \/ EndBatch
  \/ Wait

Next == PollStep \/ EndHandler \/ DecrementLoad \/ DecrementStore

Spec == Init /\ [][Next]_vars

-----------------------------------------------------------------------------
(* What holds with the unsynchronised increment.                           *)

\* ReceiveMessage is asked for at least one message and for no more than a
\* batch: handlerCount may be wrong, and may change between the check and the
\* second read, but only Poll itself can make it larger.
MaxMsgsInRange == ppc = "receive" => maxMsgs \in 1 .. BatchSize

\* The limit on handlers is exceeded by no more than the number of updates of
\* handlerCount that were lost, and while none is lost it is kept.
CapacityUpToLostUpdates == MaxHandlers > 0 => wg <= MaxHandlers + lost

-----------------------------------------------------------------------------
(* Progress.                                                               *)

\* The loop and the goroutines run, the handler returns, ReceiveMessage
\* answers.
FairSpec ==
  /\ Spec
  /\ WF_vars(PollStep)
  /\ WF_vars(EndHandler)
  /\ WF_vars(DecrementLoad)
  /\ WF_vars(DecrementStore)

\* As long as no update of handlerCount is lost and no receive fails, Poll
\* never waits for ever at its capacity: it goes on receiving.
PollsAgain == [](lost = 0) /\ [](ppc # "wait") => []<>(ppc = "receive")

\* A Poll that leaves its loop returns, after the last of its handlers.
PollReturns == (ppc = "wait") ~> (ppc = "done" /\ running + ending = 0 /\ ~locked)

=============================================================================
