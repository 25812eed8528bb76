-------------------------- MODULE TurnSystemProofs --------------------------
(* What TurnSystem guarantees for every set of requests and callers, every *)
(* queue limit and, unless a theorem says otherwise, every choice of Ops.  *)
EXTENDS TurnSystem, TLAPS

-----------------------------------------------------------------------------
(* Each critical section of the runtime keeps its fields well typed.       *)

\* The steps of the runtime that leave the queue alone or cut it.
RuntimeStep ==
    \/ SendNow
    \/ \E r \in Turns, next \in BOOLEAN : SendQueued(r, next)
    \/ \E i \in 1..Len(queue) : RemoveQueued(i)
    \/ BlockDispatch \/ UnblockDispatch \/ ClearQueue \/ BeginRespond
    \/ CloseSink \/ FinishClose \/ DispatchHead \/ FailSubmission
    \/ \E t \in Turns : SubmitReturned(t)
    \/ \E t \in MaybeTurn : ApplyTurnStarted(t) \/ ApplyTerminal(t)
                            \/ ApplyInteractionRequested(t)
                            \/ ApplyInteractionResolved(t)
    \/ \E k \in EventKinds \cup {"session_closed"}, t \in MaybeTurn :
          AppendRecord(k, t)
    \/ InsertRestored
    \/ UNCHANGED rtVars

\* What Append and << >> \o leave in a sequence.
LEMMA Concatenation ==
    ASSUME NEW S, NEW a \in Seq(S), NEW b \in Seq(S)
    PROVE  a \o b \in Seq(S) /\ Len(a \o b) = Len(a) + Len(b)
  OBVIOUS

\* Cutting one entry out of a queue, as RemoveQueuedTurn does.
LEMMA CutOne ==
    ASSUME NEW S, NEW s \in Seq(S), NEW i \in 1..Len(s)
    PROVE  /\ SubSeq(s, 1, i - 1) \o SubSeq(s, i + 1, Len(s)) \in Seq(S)
           /\ Len(SubSeq(s, 1, i - 1) \o SubSeq(s, i + 1, Len(s))) = Len(s) - 1
  <1> DEFINE before == SubSeq(s, 1, i - 1)
             after == SubSeq(s, i + 1, Len(s))
  <1>1. before \in Seq(S) /\ Len(before) = i - 1
    OBVIOUS
  <1>2. after \in Seq(S) /\ Len(after) = Len(s) - i
    OBVIOUS
  <1>3. Len(s) \in Nat
    OBVIOUS
  <1> HIDE DEF before, after
  <1>4. before \o after \in Seq(S) /\ Len(before \o after) = Len(s) - 1
    <2>1. before \o after \in Seq(S) /\ Len(before \o after) = Len(before) + Len(after)
      BY <1>1, <1>2, Concatenation
    <2> QED
      BY <1>1, <1>2, <1>3, <2>1
  <1> QED
    BY <1>4 DEF before, after

\* Every case of Restore maps a well-typed image to one.
LEMMA RestoredTyped ==
    ASSUME NEW img \in Images, NEW t \in MaybeTurn,
           NEW k \in EventKinds \cup {"session_closed"}
    PROVE  Restored(img, k, t) \in Images
  <1> USE DEF Images, MaybeTurn, Statuses
  <1>1. RestoreTurnStarted(img, t) \in Images
    BY DEF RestoreTurnStarted
  <1>2. RestoreTerminal(img, t) \in Images
    BY DEF RestoreTerminal
  <1>3. RestoreInteraction(img, t) \in Images
    BY DEF RestoreInteraction
  <1>4. RestoreResolved(img, t) \in Images
    BY DEF RestoreResolved
  <1>5. [img EXCEPT !.status = "closed"] \in Images
    OBVIOUS
  <1> HIDE DEF Images
  <1> QED
    BY <1>1, <1>2, <1>3, <1>4, <1>5 DEF Restored, EventKinds

\* Every operation of the runtime keeps its variables in their types.
LEMMA RuntimeTyped == RuntimeTypeOK /\ RuntimeStep => RuntimeTypeOK'
  <1> SUFFICES ASSUME RuntimeTypeOK, RuntimeStep PROVE RuntimeTypeOK'
    OBVIOUS
  <1> USE MaxQueuedAssumption DEF RuntimeTypeOK, MaybeTurn, Statuses
  <1>1. CASE SendNow
    BY <1>1 DEF SendNow
  <1>2. ASSUME NEW r \in Turns, NEW next \in BOOLEAN, SendQueued(r, next)
        PROVE  RuntimeTypeOK'
    BY <1>2 DEF SendQueued
  <1>3. ASSUME NEW i \in 1..Len(queue), RemoveQueued(i) PROVE RuntimeTypeOK'
    <2>1. queue' \in Seq(Turns) /\ Len(queue') <= MaxQueuedTurns
      <3>1. /\ queue' \in Seq(Turns)
            /\ Len(queue') = Len(queue) - 1
        BY <1>3, CutOne DEF RemoveQueued
      <3> QED
        BY <3>1
    <2> QED
      BY <1>3, <2>1 DEF RemoveQueued
  <1>4. CASE BlockDispatch \/ UnblockDispatch
    BY <1>4 DEF BlockDispatch, UnblockDispatch
  <1>5. CASE ClearQueue
    BY <1>5 DEF ClearQueue
  <1>6. CASE BeginRespond
    BY <1>6 DEF BeginRespond
  <1>7. CASE CloseSink
    BY <1>7 DEF CloseSink
  <1>8. CASE FinishClose
    <2>1. CASE Closed
      BY <1>8, <2>1 DEF FinishClose
    <2>2. CASE ~Closed
      <3>1. queue' \in Seq(Turns) /\ Len(queue') <= MaxQueuedTurns
        BY <1>8, <2>2 DEF FinishClose
      <3> QED
        BY <1>8, <2>2, <3>1 DEF FinishClose
    <2> QED
      BY <2>1, <2>2
  <1>9. CASE DispatchHead
    <2>1. queue' \in Seq(Turns) /\ Len(queue') <= MaxQueuedTurns
      BY <1>9 DEF DispatchHead, ReadyToDispatch
    <2> QED
      BY <1>9, <2>1 DEF DispatchHead
  <1>10. CASE FailSubmission
    BY <1>10 DEF FailSubmission
  <1>11. ASSUME NEW t \in Turns, SubmitReturned(t) PROVE RuntimeTypeOK'
    BY <1>11 DEF SubmitReturned
  <1>12. ASSUME NEW t \in MaybeTurn, ApplyTurnStarted(t) PROVE RuntimeTypeOK'
    BY <1>12 DEF ApplyTurnStarted
  <1>13. ASSUME NEW t \in MaybeTurn, ApplyTerminal(t) PROVE RuntimeTypeOK'
    BY <1>13 DEF ApplyTerminal
  <1>14. ASSUME NEW t \in MaybeTurn, ApplyInteractionRequested(t)
         PROVE  RuntimeTypeOK'
    BY <1>14 DEF ApplyInteractionRequested
  <1>15. ASSUME NEW t \in MaybeTurn, ApplyInteractionResolved(t)
         PROVE  RuntimeTypeOK'
    BY <1>15 DEF ApplyInteractionResolved
  <1>16. ASSUME NEW k \in EventKinds \cup {"session_closed"}, NEW t \in MaybeTurn,
                AppendRecord(k, t)
         PROVE  RuntimeTypeOK'
    BY <1>16, RestoredTyped DEF AppendRecord
  <1>17. CASE InsertRestored
    <2>1. /\ image.status \in Statuses /\ image.active \in BOOLEAN
          /\ image.turn \in MaybeTurn /\ image.pending \in MaybeTurn
      BY DEF Images
    <2>2. queue' \in Seq(Turns) /\ Len(queue') <= MaxQueuedTurns
      BY <1>17 DEF InsertRestored
    <2>3. active' \in BOOLEAN /\ dispatching' \in BOOLEAN
      BY <1>17, <2>1 DEF InsertRestored
    <2>4. blocked' \in BOOLEAN /\ sinkClosed' \in BOOLEAN
      BY <1>17 DEF InsertRestored
    <2> QED
      BY <1>17, <2>1, <2>2, <2>3, <2>4 DEF InsertRestored
  <1>18. CASE UNCHANGED rtVars
    BY <1>18 DEF rtVars
  <1> QED
    BY <1>1, <1>2, <1>3, <1>4, <1>5, <1>6, <1>7, <1>8, <1>9, <1>10, <1>11,
       <1>12, <1>13, <1>14, <1>15, <1>16, <1>17, <1>18 DEF RuntimeStep

-----------------------------------------------------------------------------
(* Events on their way.                                                    *)

\* A thread that delivers an event delivers a proper one.
LEMMA InDelivery ==
    ASSUME SystemTypeOK, NEW th \in Threads, ev[th].pc # "none"
    PROVE  /\ ev[th] \in Events
           /\ ev[th].kind \in EventKinds
           /\ ev[th].turn \in MaybeTurn
           /\ ev[th].next \in BOOLEAN
  <1>1. ev[th] \in Events
    BY DEF SystemTypeOK, NoEvent
  <1> QED
    BY <1>1 DEF Events

\* An event an adapter emits is well formed before it is stamped.
LEMMA EmittedTyped ==
    ASSUME NEW k \in EventKinds, NEW t \in MaybeTurn
    PROVE  Emitted(k, t) \in Events
  BY DEF Emitted, Events

\* The threads of a request, of the closer and of the interrupter.
LEMMA ThreadNames ==
    /\ Boot \in Threads
    /\ \A t \in Turns : Send(t) \in Threads /\ Prompt(t) \in Threads
                        /\ Ask(t) \in Threads
    /\ \A c \in Callers : Call(c) \in Threads
  BY DEF Threads

\* deliver stamps an event with a turn, or with none.
LEMMA StampTyped ==
    ASSUME RuntimeTypeOK, NEW t \in MaybeTurn
    PROVE  StampedTurn(t) \in MaybeTurn
  BY DEF StampedTurn, RuntimeTypeOK

-----------------------------------------------------------------------------
(* Every step of the system is one critical section of the runtime, or     *)
(* leaves the runtime alone.                                               *)

\* The composed step, seen from the runtime, is one of its operations.
LEMMA NextIsRuntimeStep ==
    ASSUME TypeOK, Next
    PROVE  RuntimeStep
  <1> USE DEF TypeOK, SystemTypeOK
  <1>1. ASSUME NEW t \in Turns, TurnStep(t) PROVE RuntimeStep
    <2>1. CASE SendIdle(t)
      BY <2>1 DEF SendIdle, RuntimeStep
    <2>2. CASE SendBusy(t)
      BY <2>2 DEF SendBusy, RuntimeStep
    <2>3. CASE SendRefuse(t)
      BY <2>3 DEF SendRefuse, SendRefused, RuntimeStep
    <2>4. CASE FinishSubmit(t)
      BY <2>4 DEF FinishSubmit, RuntimeStep
    <2>5. CASE Fail(t)
      BY <2>5 DEF Fail, RuntimeStep
    <2>6. CASE Submit(t) \/ TryLock(t) \/ SelectionFails(t) \/ BeginTurn(t)
               \/ LaunchPrompt(t) \/ FinishFail(t) \/ PromptReturns(t)
               \/ PromptUnlocks(t) \/ PromptOver(t) \/ AskHost(t)
               \/ AskAnswered(t)
      BY <2>6 DEF Submit, TryLock, SelectionFails, BeginTurn, LaunchPrompt,
                  FinishFail, PromptReturns, PromptUnlocks, PromptOver,
                  AskHost, AskAnswered, RuntimeStep
    <2> QED
      BY <1>1, <2>1, <2>2, <2>3, <2>4, <2>5, <2>6 DEF TurnStep
  <1>2. ASSUME NEW c \in Callers, CallStep(c) PROVE RuntimeStep
    <2>1. CASE Interrupt(c)
      BY <2>1 DEF Interrupt, RuntimeStep
    <2>2. CASE \E t \in Turns : Respond(c, t)
      BY <2>2 DEF Respond, RuntimeStep
    <2>3. CASE Close(c)
      BY <2>3 DEF Close, RuntimeStep
    <2>4. CASE CloseFinish(c)
      BY <2>4 DEF CloseFinish, RuntimeStep
    <2>5. CASE CloseLog(c)
      BY <2>5 DEF CloseLog, RuntimeStep, MaybeTurn
    <2>6. CASE InterruptActive(c) \/ InterruptRead(c) \/ InterruptCancel(c)
               \/ InterruptTake(c) \/ InterruptWait(c) \/ InterruptCheck(c)
               \/ RespondAdapter(c) \/ RespondCheck(c) \/ CloseAdapter(c)
               \/ Return(c)
      BY <2>6 DEF InterruptActive, InterruptRead, InterruptCancel,
                  InterruptTake, InterruptWait, InterruptCheck,
                  RespondAdapter, RespondCheck, CloseAdapter, Return,
                  RuntimeStep
    <2> QED
      BY <1>2, <2>1, <2>2, <2>3, <2>4, <2>5, <2>6 DEF CallStep
  <1>3. ASSUME NEW th \in Threads, DeliveryStep(th) PROVE RuntimeStep
    <2>1. CASE Deliver(th)
      BY <2>1 DEF Deliver, RuntimeStep
    <2>2. CASE Apply(th)
      <3>1. ev[th].turn \in MaybeTurn
        BY <2>2, InDelivery DEF Apply
      <3> QED
        BY <2>2, <3>1 DEF Apply, RuntimeStep
    <2>3. CASE Record(th)
      <3>1. ev[th].turn \in MaybeTurn /\ ev[th].kind \in EventKinds
        BY <2>3, InDelivery DEF Record
      <3> QED
        BY <2>3, <3>1 DEF Record, RuntimeStep
    <2> QED
      BY <1>3, <2>1, <2>2, <2>3 DEF DeliveryStep
  <1>4. CASE \E i \in 1..Len(queue) : RemoveQueuedTurn(i)
    BY <1>4 DEF RemoveQueuedTurn, RuntimeStep
  <1>5. CASE Block \/ Unblock
    BY <1>5 DEF Block, Unblock, RuntimeStep
  <1>6. CASE DispatchQueued
    BY <1>6 DEF DispatchQueued, DispatchNothing, RuntimeStep
  <1>7. CASE Crash
    BY <1>7 DEF Crash, RuntimeStep
  <1>8. CASE ReconcileFail \/ ReconcileDone
    BY <1>8 DEF ReconcileFail, ReconcileDone, RuntimeStep
  <1> QED
    BY <1>1, <1>2, <1>3, <1>4, <1>5, <1>6, <1>7, <1>8 DEF Next

-----------------------------------------------------------------------------
(* The same for the adapter.                                               *)

AcpxStep ==
    \/ \E t \in Turns : \/ LockPrompt(t) \/ SetTurn(t) \/ StartPrompt(t)
                        \/ FinishTurn(t) \/ ReleasePrompt(t) \/ PromptDone(t)
                        \/ AwaitInteraction(t) \/ RemoveInteraction(t)
    \/ \E t \in MaybeTurn : TakeInteraction(t)
    \/ UnlockPrompt \/ CancelTurn \/ TakeTurn \/ StopSession
    \/ \E isOpen \in BOOLEAN : Reopen(isOpen)
    \/ UNCHANGED acpxVars

\* Every operation of the adapter keeps its variables in their types.
LEMMA AcpxTyped == AcpxTypeOK /\ AcpxStep => AcpxTypeOK'
  <1> SUFFICES ASSUME AcpxTypeOK, AcpxStep PROVE AcpxTypeOK'
    OBVIOUS
  <1> USE DEF AcpxTypeOK, MaybeTurn
  <1>1. ASSUME NEW t \in Turns, \/ LockPrompt(t) \/ SetTurn(t)
                                \/ AwaitInteraction(t) \/ RemoveInteraction(t)
        PROVE  AcpxTypeOK'
    BY <1>1 DEF LockPrompt, SetTurn, AwaitInteraction, RemoveInteraction
  <1>2. ASSUME NEW t \in Turns,
               StartPrompt(t) \/ FinishTurn(t) \/ ReleasePrompt(t) \/ PromptDone(t)
        PROVE  AcpxTypeOK'
    BY <1>2 DEF StartPrompt, FinishTurn, ReleasePrompt, PromptDone, PromptStages
  <1>3. ASSUME NEW t \in MaybeTurn, TakeInteraction(t) PROVE AcpxTypeOK'
    BY <1>3 DEF TakeInteraction
  <1>4. CASE UnlockPrompt \/ CancelTurn \/ TakeTurn
    BY <1>4 DEF UnlockPrompt, CancelTurn, TakeTurn
  <1>5. CASE StopSession
    BY <1>5 DEF StopSession
  <1>6. ASSUME NEW isOpen \in BOOLEAN, Reopen(isOpen) PROVE AcpxTypeOK'
    <2>1. registered' \in BOOLEAN
      BY <1>6 DEF Reopen
    <2>2. prompt' \in [Turns -> PromptStages]
      BY <1>6 DEF Reopen, PromptStages
    <2> QED
      BY <1>6, <2>1, <2>2 DEF Reopen
  <1>7. CASE UNCHANGED acpxVars
    BY <1>7 DEF acpxVars
  <1> QED
    BY <1>1, <1>2, <1>3, <1>4, <1>5, <1>6, <1>7 DEF AcpxStep

\* The composed step, seen from the adapter, is one of its operations.
LEMMA NextIsAcpxStep ==
    ASSUME TypeOK, Next
    PROVE  AcpxStep
  <1>1. ASSUME NEW t \in Turns, TurnStep(t) PROVE AcpxStep
    <2>1. CASE TryLock(t)
      BY <2>1 DEF TryLock, PromptBusy, AcpxStep
    <2>2. CASE SelectionFails(t) \/ BeginTurn(t) \/ LaunchPrompt(t)
      BY <2>2 DEF SelectionFails, BeginTurn, LaunchPrompt, AcpxStep
    <2>3. CASE PromptReturns(t) \/ PromptUnlocks(t) \/ PromptOver(t)
      BY <2>3 DEF PromptReturns, PromptUnlocks, PromptOver, AcpxStep
    <2>4. CASE AskHost(t)
      BY <2>4 DEF AskHost, AcpxStep
    <2>5. CASE SendIdle(t) \/ SendBusy(t) \/ SendRefuse(t) \/ Submit(t)
               \/ FinishSubmit(t) \/ Fail(t) \/ FinishFail(t) \/ AskAnswered(t)
      BY <2>5 DEF SendIdle, SendBusy, SendRefuse, Submit, FinishSubmit, Fail,
                  FinishFail, AskAnswered, AcpxStep
    <2> QED
      BY <1>1, <2>1, <2>2, <2>3, <2>4, <2>5 DEF TurnStep
  <1>2. ASSUME NEW c \in Callers, CallStep(c) PROVE AcpxStep
    <2>1. CASE InterruptCancel(c) \/ InterruptTake(c) \/ CloseAdapter(c)
      BY <2>1 DEF InterruptCancel, InterruptTake, CloseAdapter, AcpxStep
    <2>2. CASE RespondAdapter(c)
      <3>1. cturn[c] \in MaybeTurn
        BY DEF TypeOK, SystemTypeOK
      <3> QED
        BY <2>2, <3>1 DEF RespondAdapter, RespondRejected, AcpxStep
    <2>3. CASE Interrupt(c) \/ InterruptActive(c) \/ InterruptRead(c)
               \/ InterruptWait(c) \/ InterruptCheck(c)
               \/ (\E t \in Turns : Respond(c, t)) \/ RespondCheck(c)
               \/ Close(c) \/ CloseFinish(c) \/ CloseLog(c) \/ Return(c)
      BY <2>3 DEF Interrupt, InterruptActive, InterruptRead, InterruptWait,
                  InterruptCheck, Respond, RespondCheck, Close, CloseFinish,
                  CloseLog, Return, AcpxStep
    <2> QED
      BY <1>2, <2>1, <2>2, <2>3 DEF CallStep
  <1>3. ASSUME NEW th \in Threads, DeliveryStep(th) PROVE AcpxStep
    BY <1>3 DEF DeliveryStep, Deliver, Apply, Record, AcpxStep
  <1>4. CASE \E i \in 1..Len(queue) : RemoveQueuedTurn(i)
    BY <1>4 DEF RemoveQueuedTurn, AcpxStep
  <1>5. CASE Block \/ Unblock \/ DispatchQueued
    BY <1>5 DEF Block, Unblock, DispatchQueued, AcpxStep
  <1>6. CASE Crash
    BY <1>6 DEF Crash, AcpxStep
  <1>7. CASE ReconcileFail \/ ReconcileDone
    BY <1>7 DEF ReconcileFail, ReconcileDone, AcpxStep
  <1> QED
    BY <1>1, <1>2, <1>3, <1>4, <1>5, <1>6, <1>7 DEF Next

-----------------------------------------------------------------------------
(* The goroutines' own state.                                              *)

\* Replacing what one thread delivers.
LEMMA EvTyped ==
    ASSUME SystemTypeOK, NEW th \in Threads, NEW e \in Events \cup {NoEvent}
    PROVE  [ev EXCEPT ![th] = e] \in [Threads -> Events \cup {NoEvent}]
  BY DEF SystemTypeOK

\* The variables of the composition keep their types.
LEMMA SystemTyped ==
    ASSUME TypeOK, Next
    PROVE  SystemTypeOK'
  <1> USE ThreadNames DEF TypeOK
  <1>1. ASSUME NEW t \in Turns, TurnStep(t) PROVE SystemTypeOK'
    <2>1. CASE SendIdle(t) \/ SendBusy(t) \/ SendRefuse(t)
      BY <2>1 DEF SendIdle, SendBusy, SendRefuse, SystemTypeOK, SubStages, callVars
    <2>2. CASE Submit(t) \/ TryLock(t) \/ SelectionFails(t) \/ LaunchPrompt(t)
      BY <2>2 DEF Submit, TryLock, SelectionFails, LaunchPrompt, SystemTypeOK,
                  SubStages, callVars
    <2>3. CASE BeginTurn(t)
      <3>1. Emitted("turn_started", t) \in Events
        BY EmittedTyped DEF EventKinds, MaybeTurn
      <3>2. ev' \in [Threads -> Events \cup {NoEvent}]
        BY <2>3, <3>1, EvTyped DEF BeginTurn
      <3> QED
        BY <2>3, <3>2 DEF BeginTurn, SystemTypeOK, SubStages, callVars
    <2>4. CASE FinishSubmit(t)
      BY <2>4 DEF FinishSubmit, SystemTypeOK, SubStages, callVars
    <2>5. CASE Fail(t)
      <3>1. Emitted("terminal", None) \in Events
        BY EmittedTyped DEF EventKinds, MaybeTurn
      <3>2. ev' \in [Threads -> Events \cup {NoEvent}]
        BY <2>5, <3>1, EvTyped DEF Fail
      <3> QED
        BY <2>5, <3>2 DEF Fail, SystemTypeOK, SubStages, callVars
    <2>6. CASE FinishFail(t)
      BY <2>6 DEF FinishFail, SystemTypeOK, SubStages, callVars
    <2>7. CASE PromptReturns(t) \/ PromptOver(t)
      BY <2>7 DEF PromptReturns, PromptOver, sysVars, SystemTypeOK, callVars
    <2>8. CASE PromptUnlocks(t)
      <3>1. Emitted("terminal", t) \in Events
        BY EmittedTyped DEF EventKinds, MaybeTurn
      <3>2. ev' \in [Threads -> Events \cup {NoEvent}]
        BY <2>8, <3>1, EvTyped DEF PromptUnlocks, SystemTypeOK
      <3> QED
        BY <2>8, <3>2 DEF PromptUnlocks, SystemTypeOK, callVars
    <2>9. CASE AskHost(t)
      <3>1. Emitted("interaction_requested", t) \in Events
        BY EmittedTyped DEF EventKinds, MaybeTurn
      <3>2. ev' \in [Threads -> Events \cup {NoEvent}]
        BY <2>9, <3>1, EvTyped DEF AskHost
      <3> QED
        BY <2>9, <3>2 DEF AskHost, SystemTypeOK, AskStages, callVars
    <2>10. CASE AskAnswered(t)
      BY <2>10 DEF AskAnswered, SystemTypeOK, AskStages, callVars
    <2> QED
      BY <1>1, <2>1, <2>2, <2>3, <2>4, <2>5, <2>6, <2>7, <2>8, <2>9, <2>10
         DEF TurnStep
  <1>2. ASSUME NEW c \in Callers, CallStep(c) PROVE SystemTypeOK'
    <2> USE DEF Step, CallStages
    <2>1. CASE Interrupt(c)
      BY <2>1 DEF Interrupt, SystemTypeOK, SubStages
    <2>2. CASE InterruptActive(c) \/ InterruptCancel(c) \/ InterruptWait(c)
      BY <2>2 DEF InterruptActive, InterruptCancel, InterruptWait, SystemTypeOK
    <2>3. CASE InterruptRead(c)
      BY <2>3 DEF InterruptRead, SystemTypeOK, RuntimeTypeOK
    <2>4. CASE InterruptTake(c)
      <3>1. ev' \in [Threads -> Events \cup {NoEvent}]
        BY <2>4, EmittedTyped, EvTyped
           DEF InterruptTake, EventKinds, AcpxTypeOK, SystemTypeOK
      <3> QED
        BY <2>4, <3>1 DEF InterruptTake, SystemTypeOK, AcpxTypeOK
    <2>5. CASE InterruptCheck(c)
      <3>1. Emitted("terminal", cturn[c]) \in Events
        BY EmittedTyped DEF EventKinds, SystemTypeOK
      <3>2. ev' \in [Threads -> Events \cup {NoEvent}]
        BY <2>5, <3>1, EvTyped DEF InterruptCheck, SystemTypeOK
      <3> QED
        BY <2>5, <3>2 DEF InterruptCheck, SystemTypeOK
    <2>6. CASE \E t \in Turns : Respond(c, t)
      BY <2>6 DEF Respond, SystemTypeOK, MaybeTurn
    <2>7. CASE RespondAdapter(c)
      <3>1. Emitted("interaction_resolved", cturn[c]) \in Events
        BY EmittedTyped DEF EventKinds, SystemTypeOK
      <3>2. ev' \in [Threads -> Events \cup {NoEvent}]
        BY <2>7, <3>1, EvTyped DEF RespondAdapter, SystemTypeOK
      <3> QED
        BY <2>7, <3>2 DEF RespondAdapter, SystemTypeOK
    <2>8. CASE RespondCheck(c)
      <3>1. Emitted("interaction_resolved", cturn[c]) \in Events
        BY EmittedTyped DEF EventKinds, SystemTypeOK
      <3>2. ev' \in [Threads -> Events \cup {NoEvent}]
        BY <2>8, <3>1, EvTyped DEF RespondCheck, SystemTypeOK
      <3> QED
        BY <2>8, <3>2 DEF RespondCheck, SystemTypeOK
    <2>9. CASE Close(c) \/ CloseAdapter(c) \/ CloseLog(c)
      BY <2>9 DEF Close, CloseAdapter, CloseLog, SystemTypeOK
    <2>10. CASE CloseFinish(c)
      BY <2>10 DEF CloseFinish, SystemTypeOK, SubStages
    <2>11. CASE Return(c)
      BY <2>11 DEF Return, SystemTypeOK, MaybeTurn
    <2> QED
      BY <1>2, <2>1, <2>2, <2>3, <2>4, <2>5, <2>6, <2>7, <2>8, <2>9, <2>10, <2>11
         DEF CallStep
  <1>3. ASSUME NEW th \in Threads, DeliveryStep(th) PROVE SystemTypeOK'
    <2>1. CASE Deliver(th)
      <3>1. ev[th] \in Events /\ ev[th].turn \in MaybeTurn
        BY <2>1, InDelivery DEF Deliver
      <3>2. StampedTurn(ev[th].turn) \in MaybeTurn
        BY <3>1, StampTyped
      <3>3. [ev[th] EXCEPT !.pc = "handled", !.turn = StampedTurn(ev[th].turn)] \in Events
        BY <3>1, <3>2 DEF Events
      <3>4. ev' = [ev EXCEPT ![th] =
                     IF sinkClosed THEN NoEvent
                     ELSE [ev[th] EXCEPT !.pc = "handled",
                                         !.turn = StampedTurn(ev[th].turn)]]
        BY <2>1, <3>1 DEF Deliver, SystemTypeOK
      <3>5. ev' \in [Threads -> Events \cup {NoEvent}]
        BY <3>3, <3>4, EvTyped
      <3> QED
        BY <2>1, <3>5 DEF Deliver, SystemTypeOK, callVars
    <2>2. CASE Apply(th)
      <3> DEFINE n == ev[th].kind = "terminal" /\ DispatchNext(ev[th].turn)
      <3>1. ev[th] \in Events
        BY <2>2, InDelivery DEF Apply
      <3>2. n \in BOOLEAN
        OBVIOUS
      <3>3. ev' = [ev EXCEPT ![th] = [ev[th] EXCEPT !.pc = "applied", !.next = n]]
        BY <2>2 DEF Apply, SystemTypeOK
      <3> HIDE DEF n
      <3>4. [ev[th] EXCEPT !.pc = "applied", !.next = n] \in Events
        BY <3>1, <3>2 DEF Events
      <3>5. ev' \in [Threads -> Events \cup {NoEvent}]
        BY <3>3, <3>4, EvTyped
      <3> QED
        BY <2>2, <3>5 DEF Apply, SystemTypeOK, callVars
    <2>3. CASE Record(th)
      <3>1. ev' \in [Threads -> Events \cup {NoEvent}]
        BY <2>3, EvTyped DEF Record
      <3> QED
        BY <2>3, <3>1 DEF Record, SystemTypeOK, callVars
    <2> QED
      BY <1>3, <2>1, <2>2, <2>3 DEF DeliveryStep
  <1>4. ASSUME NEW i \in 1..Len(queue), RemoveQueuedTurn(i) PROVE SystemTypeOK'
    BY <1>4 DEF RemoveQueuedTurn, SystemTypeOK, SubStages, callVars
  <1>5. CASE Block
    BY <1>5 DEF Block, sysVars, callVars, SystemTypeOK
  <1>6. CASE Unblock
    BY <1>6 DEF Unblock, callVars, SystemTypeOK
  <1>7. CASE DispatchQueued
    <2>1. dispatchers' \in Nat
      BY <1>7 DEF DispatchQueued, SystemTypeOK
    <2>2. CASE DispatchNothing /\ UNCHANGED <<sub, dequeued>>
      BY <1>7, <2>1, <2>2 DEF DispatchQueued, callVars, SystemTypeOK
    <2>3. CASE /\ DispatchHead
               /\ sub' = [sub EXCEPT ![Head(queue)] = "submit"]
               /\ dequeued' = dequeued \cup {Head(queue)}
      <3>1. Head(queue) \in Turns
        BY <2>3 DEF DispatchHead, ReadyToDispatch, RuntimeTypeOK
      <3> QED
        BY <1>7, <2>1, <2>3, <3>1 DEF DispatchQueued, callVars, SystemTypeOK, SubStages
    <2> QED
      BY <1>7, <2>2, <2>3 DEF DispatchQueued
  <1>8. CASE Crash
    <2>1. image.turn \in MaybeTurn /\ image.pending \in MaybeTurn
      BY DEF RuntimeTypeOK, Images
    <2>2. /\ Emitted("interaction_resolved", image.pending) \in Events
          /\ Emitted("terminal", image.turn) \in Events
      BY <2>1, EmittedTyped DEF EventKinds
    <2>3. /\ Reconcile(image).phase \in Phases
          /\ Reconcile(image).event \in Events \cup {NoEvent}
      BY <2>2 DEF Reconcile, Phases
    <2>4. ev' \in [Threads -> Events \cup {NoEvent}]
      BY <1>8, <2>3 DEF Crash
    <2>5. sub' \in [Turns -> SubStages] /\ ask' \in [Turns -> AskStages]
      BY <1>8 DEF Crash, SystemTypeOK, SubStages, AskStages
    <2> QED
      BY <1>8, <2>3, <2>4, <2>5 DEF Crash, SystemTypeOK, CallStages, MaybeTurn
  <1>9. CASE ReconcileFail
    <2>1. ev' \in [Threads -> Events \cup {NoEvent}]
      BY <1>9, EmittedTyped, EvTyped DEF ReconcileFail, EventKinds, RuntimeTypeOK
    <2> QED
      BY <1>9, <2>1 DEF ReconcileFail, SystemTypeOK, Phases, callVars
  <1>10. CASE ReconcileDone
    BY <1>10 DEF ReconcileDone, SystemTypeOK, Phases, callVars
  <1> QED
    BY <1>1, <1>2, <1>3, <1>4, <1>5, <1>6, <1>7, <1>8, <1>9, <1>10 DEF Next

-----------------------------------------------------------------------------
(* Type correctness.                                                       *)

\* A fresh session is well typed.
LEMMA InitTyped == Init => TypeOK
  <1> SUFFICES ASSUME Init PROVE TypeOK
    OBVIOUS
  <1> USE DEF Init
  <1>1. RuntimeTypeOK
    <2>1. image \in Images
      BY DEF RuntimeInit, EmptyImage, Images, Statuses, MaybeTurn
    <2>2. queue \in Seq(Turns) /\ Len(queue) <= MaxQueuedTurns
      BY MaxQueuedAssumption DEF RuntimeInit
    <2>3. dispatching \in BOOLEAN /\ active \in BOOLEAN
      BY DEF RuntimeInit
    <2>4. blocked \in BOOLEAN /\ sinkClosed \in BOOLEAN
      BY DEF RuntimeInit
    <2> QED
      BY <2>1, <2>2, <2>3, <2>4 DEF RuntimeInit, RuntimeTypeOK, Statuses, MaybeTurn
  <1>2. AcpxTypeOK
    BY DEF AcpxInit, AcpxTypeOK, MaybeTurn, PromptStages
  <1>3. SystemTypeOK
    BY DEF SystemTypeOK, Phases, SubStages, AskStages, CallStages, MaybeTurn
  <1> QED
    BY <1>1, <1>2, <1>3 DEF TypeOK

\* Every step keeps every variable in its type.
LEMMA NextTyped == TypeOK /\ [Next]_vars => TypeOK'
  <1> SUFFICES ASSUME TypeOK, [Next]_vars PROVE TypeOK'
    OBVIOUS
  <1>1. CASE Next
    BY <1>1, NextIsRuntimeStep, RuntimeTyped, NextIsAcpxStep, AcpxTyped,
       SystemTyped DEF TypeOK
  <1>2. CASE UNCHANGED vars
    <2>1. RuntimeTypeOK'
      BY <1>2, RuntimeTyped DEF vars, RuntimeStep, TypeOK
    <2>2. AcpxTypeOK'
      BY <1>2, AcpxTyped DEF vars, AcpxStep, TypeOK
    <2>3. SystemTypeOK'
      BY <1>2 DEF vars, sysVars, callVars, SystemTypeOK, TypeOK
    <2> QED
      BY <2>1, <2>2, <2>3 DEF TypeOK
  <1> QED
    BY <1>1, <1>2

\* Whatever the host calls and whatever fails, every field keeps its type:
\* in particular the queue never grows past Config.MaxQueuedTurns and holds
\* nothing but requests, and every event in delivery is a well-formed one.
THEOREM TypeCorrect == Spec => []TypeOK
  BY InitTyped, NextTyped, PTL DEF Spec

-----------------------------------------------------------------------------
(* Every accepted request is in one place.                                 *)

\* The entries that are left when the i-th is cut out.
LEMMA CutOneEntries ==
    ASSUME NEW S, NEW s \in Seq(S), NEW i \in 1..Len(s), NEW j \in 1..Len(s) - 1
    PROVE  (SubSeq(s, 1, i - 1) \o SubSeq(s, i + 1, Len(s)))[j]
             = IF j < i THEN s[j] ELSE s[j + 1]
  <1> DEFINE before == SubSeq(s, 1, i - 1)
             after == SubSeq(s, i + 1, Len(s))
  <1>1. before \in Seq(S) /\ Len(before) = i - 1
    OBVIOUS
  <1>2. after \in Seq(S) /\ Len(after) = Len(s) - i
    OBVIOUS
  <1>3. Len(s) \in Nat
    OBVIOUS
  <1>4. \A k \in 1..i - 1 : before[k] = s[k]
    OBVIOUS
  <1>5. \A k \in 1..Len(s) - i : after[k] = s[k + i]
    OBVIOUS
  <1> HIDE DEF before, after
  <1>6. (before \o after)[j] = IF j < i THEN before[j] ELSE after[j - (i - 1)]
    BY <1>1, <1>2, <1>3
  <1>7. CASE j < i
    <2>1. j \in 1..i - 1
      BY <1>3, <1>7
    <2>2. before[j] = s[j]
      BY <1>4, <2>1
    <2> QED
      BY <1>6, <1>7, <2>2 DEF before, after
  <1>8. CASE ~(j < i)
    <2>1. j - (i - 1) \in 1..Len(s) - i /\ j - (i - 1) + i = j + 1
      BY <1>3, <1>8
    <2>2. after[j - (i - 1)] = s[j + 1]
      BY <1>5, <2>1
    <2> QED
      BY <1>6, <1>8, <2>2 DEF before, after
  <1> QED
    BY <1>7, <1>8

\* A step that touches neither the queue nor who is in it.
LEMMA QueueUntouched ==
    ASSUME QueueEntriesOnce, UNCHANGED queue,
           \A t \in Turns : sub'[t] = "queued" <=> sub[t] = "queued"
    PROVE  QueueEntriesOnce'
  BY DEF QueueEntriesOnce

\* Close and a crash empty the queue, and nobody claims to be in it.
LEMMA QueueEmptied ==
    ASSUME queue' = << >>, \A t \in Turns : sub'[t] # "queued"
    PROVE  QueueEntriesOnce'
  BY DEF QueueEntriesOnce

\* Every step keeps the queue and the requests that wait in it in agreement.
LEMMA QueueNext ==
    ASSUME TypeOK, QueueEntriesOnce, Next
    PROVE  QueueEntriesOnce'
  <1> USE DEF TypeOK, SystemTypeOK
  <1>1. ASSUME NEW t \in Turns, TurnStep(t) PROVE QueueEntriesOnce'
    <2>1. CASE SendBusy(t)
      <3>1. sub' = [sub EXCEPT ![t] = "queued"] /\ sub[t] = "new"
        BY <2>1 DEF SendBusy
      <3>2. queue \in Seq(Turns)
        BY DEF RuntimeTypeOK
      <3>3. CASE queue' = Append(queue, t)
        BY <3>1, <3>2, <3>3, SMTT(60) DEF QueueEntriesOnce
      <3>4. CASE queue' = <<t>> \o queue
        <4>1. /\ Len(queue') = Len(queue) + 1
              /\ queue'[1] = t
              /\ \A i \in 2..Len(queue) + 1 : queue'[i] = queue[i - 1]
              /\ \A i \in 1..Len(queue) : queue'[i + 1] = queue[i]
          BY <3>2, <3>4
        <4>2. \A i \in 1..Len(queue) : queue[i] # t
          BY <3>1, <3>2 DEF QueueEntriesOnce
        <4>3. ASSUME NEW i \in 1..Len(queue'), NEW j \in 1..Len(queue'),
                     queue'[i] = queue'[j]
              PROVE  i = j
          <5>1. Len(queue) \in Nat
            BY <3>2
          <5>2. \A k \in 1..Len(queue') :
                   k = 1 \/ (k - 1 \in 1..Len(queue) /\ queue'[k] = queue[k - 1])
            BY <4>1, <5>1
          <5>3. i = 1 <=> j = 1
            BY <4>1, <4>2, <4>3, <5>2
          <5>4. i # 1 /\ j # 1 => i - 1 = j - 1
            BY <4>3, <5>2 DEF QueueEntriesOnce
          <5> QED
            BY <5>3, <5>4
        <4>4. ASSUME NEW u \in Turns
              PROVE  sub'[u] = "queued" <=> \E i \in 1..Len(queue') : queue'[i] = u
          <5>1. CASE u = t
            BY <3>1, <3>2, <4>1, <5>1
          <5>2. CASE u # t
            <6>1. sub'[u] = sub[u]
              BY <3>1, <5>2
            <6>2. ASSUME NEW i \in 1..Len(queue), queue[i] = u
                  PROVE  \E k \in 1..Len(queue') : queue'[k] = u
              BY <3>2, <4>1, <6>2
            <6>3. ASSUME NEW k \in 1..Len(queue'), queue'[k] = u
                  PROVE  \E i \in 1..Len(queue) : queue[i] = u
              <7>1. Len(queue) \in Nat /\ k # 1
                BY <3>2, <4>1, <5>2, <6>3
              <7>2. k - 1 \in 1..Len(queue) /\ queue'[k] = queue[k - 1]
                BY <4>1, <7>1
              <7> QED
                BY <6>3, <7>2
            <6> QED
              BY <6>1, <6>2, <6>3 DEF QueueEntriesOnce
          <5> QED
            BY <5>1, <5>2
        <4> QED
          BY <4>3, <4>4 DEF QueueEntriesOnce
      <3> QED
        BY <2>1, <3>3, <3>4 DEF SendBusy, SendQueued
    <2>2. CASE SendIdle(t) \/ SendRefuse(t)
      BY <2>2, QueueUntouched DEF SendIdle, SendNow, SendRefuse, SendRefused, rtVars
    <2>3. CASE Submit(t) \/ TryLock(t) \/ SelectionFails(t) \/ BeginTurn(t)
               \/ LaunchPrompt(t) \/ FinishSubmit(t) \/ Fail(t) \/ FinishFail(t)
      BY <2>3, QueueUntouched
         DEF Submit, TryLock, SelectionFails, BeginTurn, LaunchPrompt,
             FinishSubmit, SubmitReturned, Fail, FailSubmission, FinishFail, rtVars
    <2>4. CASE PromptReturns(t) \/ PromptUnlocks(t) \/ PromptOver(t)
               \/ AskHost(t) \/ AskAnswered(t)
      BY <2>4, QueueUntouched
         DEF PromptReturns, PromptUnlocks, PromptOver, AskHost, AskAnswered,
             rtVars, sysVars
    <2> QED
      BY <1>1, <2>1, <2>2, <2>3, <2>4 DEF TurnStep
  <1>2. ASSUME NEW c \in Callers, CallStep(c) PROVE QueueEntriesOnce'
    <2>1. CASE Interrupt(c)
      BY <2>1, QueueEmptied DEF Interrupt, ClearQueue
    <2>2. CASE CloseFinish(c)
      <3>1. CASE Closed
        BY <2>2, <3>1, QueueUntouched DEF CloseFinish, FinishClose
      <3>2. CASE ~Closed
        BY <2>2, <3>2, QueueEmptied DEF CloseFinish, FinishClose
      <3> QED
        BY <3>1, <3>2
    <2>3. CASE InterruptActive(c) \/ InterruptRead(c) \/ InterruptCancel(c)
               \/ InterruptTake(c) \/ InterruptWait(c) \/ InterruptCheck(c)
      BY <2>3, QueueUntouched
         DEF InterruptActive, InterruptRead, InterruptCancel, InterruptTake,
             InterruptWait, InterruptCheck, rtVars
    <2>4. CASE (\E t \in Turns : Respond(c, t)) \/ RespondAdapter(c)
               \/ RespondCheck(c) \/ Return(c)
      BY <2>4, QueueUntouched
         DEF Respond, BeginRespond, RespondAdapter, RespondCheck, Return, rtVars
    <2>5. CASE Close(c) \/ CloseAdapter(c) \/ CloseLog(c)
      BY <2>5, QueueUntouched
         DEF Close, CloseSink, CloseAdapter, CloseLog, AppendRecord, rtVars
    <2> QED
      BY <1>2, <2>1, <2>2, <2>3, <2>4, <2>5 DEF CallStep
  <1>3. ASSUME NEW th \in Threads, DeliveryStep(th) PROVE QueueEntriesOnce'
    BY <1>3, QueueUntouched
       DEF DeliveryStep, Deliver, Apply, Record, ApplyTurnStarted,
           ApplyTerminal, ApplyInteractionRequested, ApplyInteractionResolved,
           AppendRecord, rtVars
  <1>4. ASSUME NEW i \in 1..Len(queue), RemoveQueuedTurn(i) PROVE QueueEntriesOnce'
    <2>1. queue \in Seq(Turns) /\ Len(queue) \in Nat /\ queue[i] \in Turns
      BY DEF RuntimeTypeOK
    <2>2. sub' = [sub EXCEPT ![queue[i]] = "discarded"]
      BY <1>4 DEF RemoveQueuedTurn
    <2>3. /\ queue' \in Seq(Turns)
          /\ Len(queue') = Len(queue) - 1
          /\ \A j \in 1..Len(queue) - 1 :
                queue'[j] = IF j < i THEN queue[j] ELSE queue[j + 1]
      BY <1>4, <2>1, CutOne, CutOneEntries DEF RemoveQueuedTurn, RemoveQueued
    <2>4. ASSUME NEW j \in 1..Len(queue'), NEW k \in 1..Len(queue'),
                 queue'[j] = queue'[k]
          PROVE  j = k
      <3> DEFINE a == IF j < i THEN j ELSE j + 1
                 b == IF k < i THEN k ELSE k + 1
      <3>1. /\ a \in 1..Len(queue) /\ queue'[j] = queue[a]
            /\ b \in 1..Len(queue) /\ queue'[k] = queue[b]
        BY <2>1, <2>3
      <3> HIDE DEF a, b
      <3>2. a = b
        <4>1. \A x, y \in 1..Len(queue) : queue[x] = queue[y] => x = y
          BY DEF QueueEntriesOnce
        <4>2. queue[a] = queue[b]
          BY <2>4, <3>1
        <4> QED
          BY <3>1, <4>1, <4>2
      <3> QED
        BY <2>1, <2>3, <3>2 DEF a, b
    <2>5. ASSUME NEW u \in Turns
          PROVE  sub'[u] = "queued" <=> \E j \in 1..Len(queue') : queue'[j] = u
      <3>1. CASE u = queue[i]
        BY <2>1, <2>2, <2>3, <3>1 DEF QueueEntriesOnce
      <3>2. CASE u # queue[i]
        <4>1. sub'[u] = sub[u]
          BY <2>2, <3>2
        <4>2. ASSUME NEW j \in 1..Len(queue), queue[j] = u
              PROVE  \E k \in 1..Len(queue') : queue'[k] = u
          <5>1. CASE j < i
            <6>1. j \in 1..Len(queue') /\ queue'[j] = queue[j]
              BY <2>1, <2>3, <5>1
            <6> QED
              BY <4>2, <6>1
          <5>2. CASE j > i
            <6>1. j - 1 \in 1..Len(queue') /\ queue'[j - 1] = queue[j]
              BY <2>1, <2>3, <5>2
            <6> QED
              BY <4>2, <6>1
          <5> QED
            BY <3>2, <4>2, <5>1, <5>2
        <4>3. ASSUME NEW k \in 1..Len(queue'), queue'[k] = u
              PROVE  \E j \in 1..Len(queue) : queue[j] = u
          <5>1. CASE k < i
            <6>1. k \in 1..Len(queue) /\ queue[k] = queue'[k]
              BY <2>1, <2>3, <5>1
            <6> QED
              BY <4>3, <6>1
          <5>2. CASE ~(k < i)
            <6>1. k + 1 \in 1..Len(queue) /\ queue[k + 1] = queue'[k]
              BY <2>1, <2>3, <5>2
            <6> QED
              BY <4>3, <6>1
          <5> QED
            BY <5>1, <5>2
        <4> QED
          BY <4>1, <4>2, <4>3 DEF QueueEntriesOnce
      <3> QED
        BY <3>1, <3>2
    <2> QED
      BY <2>4, <2>5 DEF QueueEntriesOnce
  <1>5. CASE Block \/ Unblock
    BY <1>5, QueueUntouched DEF Block, BlockDispatch, Unblock, UnblockDispatch, sysVars
  <1>6. CASE DispatchQueued
    <2>1. CASE DispatchNothing /\ UNCHANGED <<sub, dequeued>>
      BY <2>1, QueueUntouched DEF DispatchNothing, rtVars
    <2>2. CASE /\ DispatchHead
               /\ sub' = [sub EXCEPT ![Head(queue)] = "submit"]
      <3>1. queue \in Seq(Turns) /\ queue # << >> /\ queue' = Tail(queue)
        BY <2>2 DEF DispatchHead, ReadyToDispatch, RuntimeTypeOK
      <3>2. /\ Len(queue) \in Nat \ {0} /\ Head(queue) = queue[1]
            /\ queue[1] \in Turns /\ Len(queue') = Len(queue) - 1
            /\ \A j \in 1..Len(queue) - 1 : queue'[j] = queue[j + 1]
        BY <3>1
      <3>3. \A j, k \in 1..Len(queue') : queue'[j] = queue'[k] => j = k
        BY <3>2, SMTT(60) DEF QueueEntriesOnce
      <3>4. ASSUME NEW u \in Turns
            PROVE  sub'[u] = "queued" <=> \E j \in 1..Len(queue') : queue'[j] = u
        <4>1. CASE u = queue[1]
          BY <2>2, <3>2, <4>1 DEF QueueEntriesOnce
        <4>2. CASE u # queue[1]
          <5>1. sub'[u] = sub[u]
            BY <2>2, <3>2, <4>2
          <5>2. ASSUME NEW j \in 1..Len(queue), queue[j] = u
                PROVE  \E k \in 1..Len(queue') : queue'[k] = u
            <6>1. j - 1 \in 1..Len(queue') /\ queue'[j - 1] = queue[j]
              BY <3>2, <4>2, <5>2
            <6> QED
              BY <5>2, <6>1
          <5>3. ASSUME NEW k \in 1..Len(queue'), queue'[k] = u
                PROVE  \E j \in 1..Len(queue) : queue[j] = u
            BY <3>2, <5>3
          <5> QED
            BY <5>1, <5>2, <5>3 DEF QueueEntriesOnce
        <4> QED
          BY <4>1, <4>2
      <3> QED
        BY <3>3, <3>4 DEF QueueEntriesOnce
    <2> QED
      BY <1>6, <2>1, <2>2 DEF DispatchQueued
  <1>7. CASE Crash
    BY <1>7, QueueEmptied DEF Crash, InsertRestored
  <1>8. CASE ReconcileFail \/ ReconcileDone
    BY <1>8, QueueUntouched DEF ReconcileFail, ReconcileDone, rtVars
  <1> QED
    BY <1>1, <1>2, <1>3, <1>4, <1>5, <1>6, <1>7, <1>8 DEF Next

-----------------------------------------------------------------------------
(* One prompt at a time.                                                   *)

\* PromptExclusion alone is not inductive: the prompt that SendTurn is about
\* to start must hold promptMu already, and a request on its way there must
\* not have a prompt yet.
LockDiscipline ==
    \A t \in Turns :
        /\ sub[t] \in {"locked", "starting"} => promptMu = t
        /\ prompt[t] \in {"running", "ending", "muted"} => promptMu = t
        /\ sub[t] \in {"new", "queued", "submit", "trylock", "locked", "starting"}
             => prompt[t] = "none"

\* A step that leaves the lock and the prompts alone, and moves no request
\* back to where it has no prompt or on to where it has the lock.
LEMMA LockUntouched ==
    ASSUME LockDiscipline, UNCHANGED <<promptMu, prompt>>,
           \A t \in Turns :
              \/ sub'[t] = sub[t]
              \/ sub[t] = "new" /\ sub'[t] \in {"submit", "queued"}
              \/ sub[t] = "queued" /\ sub'[t] = "submit"
              \/ sub[t] = "submit" /\ sub'[t] = "trylock"
              \/ sub'[t] \in {"returning", "failing", "failed", "sent",
                              "rejected", "refused", "discarded"}
    PROVE  LockDiscipline'
  BY DEF LockDiscipline

\* Every step keeps promptMu with the one thread that holds it.
LEMMA LockNext ==
    ASSUME TypeOK, QueueEntriesOnce, LockDiscipline, Next
    PROVE  LockDiscipline'
  <1> USE NoneAssumption DEF TypeOK, SystemTypeOK, AcpxTypeOK
  <1>1. ASSUME NEW t \in Turns, TurnStep(t) PROVE LockDiscipline'
    <2>1. CASE SendIdle(t) \/ SendBusy(t) \/ SendRefuse(t)
      BY <2>1, LockUntouched DEF SendIdle, SendBusy, SendRefuse, acpxVars
    <2>2. CASE Submit(t) \/ FinishSubmit(t) \/ Fail(t) \/ FinishFail(t)
      BY <2>2, LockUntouched DEF Submit, FinishSubmit, Fail, FinishFail, acpxVars
    <2>3. CASE TryLock(t)
      BY <2>3 DEF TryLock, LockPrompt, PromptBusy, acpxVars, LockDiscipline
    <2>4. CASE SelectionFails(t)
      BY <2>4 DEF SelectionFails, UnlockPrompt, LockDiscipline
    <2>5. CASE BeginTurn(t)
      BY <2>5 DEF BeginTurn, SetTurn, LockDiscipline
    <2>6. CASE LaunchPrompt(t)
      BY <2>6 DEF LaunchPrompt, StartPrompt, LockDiscipline
    <2>7. CASE PromptReturns(t)
      BY <2>7 DEF PromptReturns, FinishTurn, sysVars, LockDiscipline
    <2>8. CASE PromptUnlocks(t)
      BY <2>8 DEF PromptUnlocks, ReleasePrompt, LockDiscipline
    <2>9. CASE PromptOver(t)
      BY <2>9 DEF PromptOver, PromptDone, sysVars, LockDiscipline
    <2>10. CASE AskHost(t) \/ AskAnswered(t)
      BY <2>10, LockUntouched DEF AskHost, AwaitInteraction, AskAnswered, RemoveInteraction, acpxVars
    <2> QED
      BY <1>1, <2>1, <2>2, <2>3, <2>4, <2>5, <2>6, <2>7, <2>8, <2>9, <2>10
         DEF TurnStep
  <1>2. ASSUME NEW c \in Callers, CallStep(c) PROVE LockDiscipline'
    <2>1. CASE Interrupt(c) \/ CloseFinish(c)
      BY <2>1, LockUntouched DEF Interrupt, CloseFinish, acpxVars
    <2>2. CASE InterruptActive(c) \/ InterruptRead(c) \/ InterruptCancel(c)
               \/ InterruptTake(c) \/ InterruptWait(c) \/ InterruptCheck(c)
      BY <2>2, LockUntouched
         DEF InterruptActive, InterruptRead, InterruptCancel, CancelTurn,
             InterruptTake, TakeTurn, InterruptWait, InterruptCheck, acpxVars
    <2>3. CASE (\E t \in Turns : Respond(c, t)) \/ RespondAdapter(c)
               \/ RespondCheck(c) \/ Return(c)
      BY <2>3, LockUntouched
         DEF Respond, RespondAdapter, TakeInteraction, RespondRejected,
             RespondCheck, Return, acpxVars
    <2>4. CASE Close(c) \/ CloseAdapter(c) \/ CloseLog(c)
      BY <2>4, LockUntouched
         DEF Close, CloseAdapter, StopSession, CloseLog, acpxVars
    <2> QED
      BY <1>2, <2>1, <2>2, <2>3, <2>4 DEF CallStep
  <1>3. ASSUME NEW th \in Threads, DeliveryStep(th) PROVE LockDiscipline'
    BY <1>3, LockUntouched DEF DeliveryStep, Deliver, Apply, Record, acpxVars
  <1>4. ASSUME NEW i \in 1..Len(queue), RemoveQueuedTurn(i) PROVE LockDiscipline'
    BY <1>4, LockUntouched DEF RemoveQueuedTurn, acpxVars
  <1>5. CASE Block \/ Unblock
    BY <1>5, LockUntouched DEF Block, Unblock, acpxVars, sysVars
  <1>6. CASE DispatchQueued
    <2>1. CASE UNCHANGED sub
      BY <1>6, <2>1, LockUntouched DEF DispatchQueued, acpxVars
    <2>2. CASE DispatchHead /\ sub' = [sub EXCEPT ![Head(queue)] = "submit"]
      <3>1. queue \in Seq(Turns) /\ queue # << >>
        BY <2>2 DEF DispatchHead, ReadyToDispatch, RuntimeTypeOK
      <3>2. 1 \in 1..Len(queue) /\ Head(queue) = queue[1] /\ queue[1] \in Turns
        BY <3>1
      <3>3. sub[Head(queue)] = "queued"
        BY <3>2 DEF QueueEntriesOnce
      <3> QED
        BY <1>6, <2>2, <3>3, LockUntouched DEF DispatchQueued, acpxVars
    <2> QED
      BY <1>6, <2>1, <2>2 DEF DispatchQueued
  <1>7. CASE Crash
    BY <1>7 DEF Crash, Reopen, LockDiscipline
  <1>8. CASE ReconcileFail \/ ReconcileDone
    BY <1>8, LockUntouched DEF ReconcileFail, ReconcileDone, acpxVars
  <1> QED
    BY <1>1, <1>2, <1>3, <1>4, <1>5, <1>6, <1>7, <1>8 DEF Next

-----------------------------------------------------------------------------
SafetyInv == TypeOK /\ QueueEntriesOnce /\ LockDiscipline

\* A fresh session satisfies the inductive invariant.
LEMMA InitSafety == Init => SafetyInv
  <1> SUFFICES ASSUME Init PROVE SafetyInv
    OBVIOUS
  <1>1. QueueEntriesOnce
    BY DEF Init, RuntimeInit, QueueEntriesOnce
  <1>2. LockDiscipline
    BY DEF Init, AcpxInit, LockDiscipline
  <1> QED
    BY <1>1, <1>2, InitTyped DEF SafetyInv

\* Every step preserves the inductive invariant.
LEMMA NextSafety == SafetyInv /\ [Next]_vars => SafetyInv'
  <1> SUFFICES ASSUME SafetyInv, [Next]_vars PROVE SafetyInv'
    OBVIOUS
  <1>1. TypeOK'
    BY NextTyped DEF SafetyInv
  <1>2. CASE Next
    BY <1>1, <1>2, QueueNext, LockNext DEF SafetyInv
  <1>3. CASE UNCHANGED vars
    BY <1>1, <1>3
       DEF SafetyInv, vars, rtVars, acpxVars, sysVars, QueueEntriesOnce, LockDiscipline
  <1> QED
    BY <1>2, <1>3

\* The inductive invariant (types, the queue, the prompt lock) holds in every
\* reachable state, for every set of operations, requests and queue limits.
THEOREM SafetyInvariance == Spec => []SafetyInv
  BY InitSafety, NextSafety, PTL DEF Spec

\* No request that Send accepted is lost from the queue, duplicated in it or
\* left behind, whatever removes, dispatches, discards or closes.
THEOREM RequestsOnce == Spec => []QueueEntriesOnce
  BY SafetyInvariance, PTL DEF SafetyInv

\* At most one prompt runs at the agent, for every mixture of interrupts,
\* failed submissions, closes and restarts, even those that mislead the
\* runtime about which turn is active.
THEOREM OnePromptAtATime == Spec => []PromptExclusion
  <1>1. LockDiscipline => PromptExclusion
    BY DEF LockDiscipline, PromptExclusion
  <1> QED
    BY <1>1, SafetyInvariance, PTL DEF SafetyInv

-----------------------------------------------------------------------------
(* Two promises of the session that rest on who delivers which event, for  *)
(* every choice of Ops: no wakeup is lost, and closed is final.            *)

\* A thread delivers an event only where its code waits for the delivery.
QuietThreads ==
    /\ \A t \in Turns :
          /\ sub[t] \notin {"starting", "failed"} => Quiet(Send(t))
          /\ ask[t] = "none" => Quiet(Ask(t))
    /\ \A c \in Callers :
          cpc[c] \notin {"int_wait", "resp_check", "return"} => Quiet(Call(c))

\* A session, and a journal, that tell of no active turn name none.
NoTurnWhenIdle ==
    /\ ~active => activeTurn = None
    /\ ~image.active => image.turn = None

\* A terminal event whose delivery will look at the queue, or has looked and
\* decided to start a dispatcher.
WillDispatch(th) ==
    /\ ev[th].kind = "terminal"
    /\ ev[th].pc \in {"raw", "handled", "applied"}
    /\ ev[th].pc = "applied" => ev[th].next

\* NotStranded, with only the terminal events that can still do something.
Wakeup ==
    ReadyToDispatch /\ ~blocked /\ ~sinkClosed =>
        dispatchers > 0 \/ \E th \in Threads : WillDispatch(th)

\* The record of a close is appended to a session that is closed, so the
\* journal never says closed before memory does.
ClosedAgree ==
    /\ image.status = "closed" => Closed
    /\ \A c \in Callers : cpc[c] = "close_log" => Closed

DeliveryInv == QuietThreads /\ NoTurnWhenIdle /\ Wakeup /\ ClosedAgree

-----------------------------------------------------------------------------
(* No turn without activity.                                               *)

\* Restore leaves a session that it finds idle without a turn.
LEMMA NoTurnRestored ==
    ASSUME NEW img \in Images, NEW t \in MaybeTurn,
           NEW k \in EventKinds \cup {"session_closed"},
           ~img.active => img.turn = None
    PROVE  ~Restored(img, k, t).active => Restored(img, k, t).turn = None
  <1> USE DEF Images
  <1>1. CASE k = "turn_started"
    BY <1>1 DEF Restored, RestoreTurnStarted
  <1>2. CASE k = "terminal"
    BY <1>2 DEF Restored, RestoreTerminal
  <1>3. CASE k = "interaction_requested"
    BY <1>3 DEF Restored, RestoreInteraction
  <1>4. CASE k = "interaction_resolved"
    BY <1>4 DEF Restored, RestoreResolved
  <1>5. CASE k = "session_closed"
    BY <1>5 DEF Restored
  <1> QED
    BY <1>1, <1>2, <1>3, <1>4, <1>5 DEF EventKinds

\* Every critical section that ends a turn forgets its ID, and so does every
\* record Restore reads.
LEMMA NoTurnNext ==
    ASSUME TypeOK, NoTurnWhenIdle, Next
    PROVE  NoTurnWhenIdle'
  <1>1. RuntimeStep
    BY NextIsRuntimeStep
  <1> USE DEF NoTurnWhenIdle
  <1>2. CASE SendNow \/ DispatchHead \/ FailSubmission \/ FinishClose
    BY <1>2 DEF SendNow, DispatchHead, FailSubmission, FinishClose
  <1>3. CASE (\E r \in Turns, next \in BOOLEAN : SendQueued(r, next))
             \/ (\E i \in 1..Len(queue) : RemoveQueued(i))
             \/ BlockDispatch \/ UnblockDispatch \/ ClearQueue
             \/ BeginRespond \/ CloseSink \/ (\E t \in Turns : SubmitReturned(t))
             \/ UNCHANGED rtVars
    BY <1>3 DEF SendQueued, RemoveQueued, BlockDispatch, UnblockDispatch,
                ClearQueue, BeginRespond, CloseSink, SubmitReturned, rtVars
  <1>4. ASSUME NEW t \in MaybeTurn, ApplyTurnStarted(t) \/ ApplyTerminal(t)
                                    \/ ApplyInteractionRequested(t)
                                    \/ ApplyInteractionResolved(t)
        PROVE  NoTurnWhenIdle'
    BY <1>4 DEF ApplyTurnStarted, ApplyTerminal, ApplyInteractionRequested,
                ApplyInteractionResolved
  <1>5. ASSUME NEW k \in EventKinds \cup {"session_closed"}, NEW t \in MaybeTurn,
               AppendRecord(k, t)
        PROVE  NoTurnWhenIdle'
    BY <1>5, NoTurnRestored DEF AppendRecord, TypeOK, RuntimeTypeOK
  <1>6. CASE InsertRestored
    BY <1>6 DEF InsertRestored
  <1> QED
    BY <1>1, <1>2, <1>3, <1>4, <1>5, <1>6 DEF RuntimeStep

-----------------------------------------------------------------------------
(* Who is delivering.                                                      *)

\* Threads of different kinds, or of different requests, are different.
LEMMA ThreadsDiffer ==
    /\ \A t, u \in Turns : /\ Send(t) # Prompt(u) /\ Send(t) # Ask(u)
                           /\ Prompt(t) # Ask(u)
                           /\ Send(t) # Boot /\ Prompt(t) # Boot /\ Ask(t) # Boot
                           /\ (Send(t) = Send(u) => t = u)
                           /\ (Prompt(t) = Prompt(u) => t = u)
                           /\ (Ask(t) = Ask(u) => t = u)
    /\ \A t \in Turns, c \in Callers : /\ Send(t) # Call(c) /\ Prompt(t) # Call(c)
                                       /\ Ask(t) # Call(c)
    /\ \A c, d \in Callers : Call(c) # Boot /\ (Call(c) = Call(d) => c = d)
  BY DEF Send, Prompt, Ask, Call, Boot

\* A step that starts no delivery, and moves no goroutine away from a place
\* where it waits for one unless that one is over.
LEMMA QuietUntouched ==
    ASSUME QuietThreads, UNCHANGED ev,
           \A t \in Turns : sub'[t] = sub[t] \/ Quiet(Send(t)),
           \A t \in Turns : ask'[t] = ask[t] \/ ask'[t] # "none",
           \A c \in Callers : cpc'[c] = cpc[c] \/ Quiet(Call(c))
    PROVE  QuietThreads'
  BY DEF QuietThreads, Quiet

\* A step of delivery: the thread that takes it was not quiet.
LEMMA QuietDelivery ==
    ASSUME QuietThreads, UNCHANGED <<sub, ask, cpc>>, NEW th \in Threads,
           ~Quiet(th), \A x \in Threads : x # th => ev'[x] = ev[x]
    PROVE  QuietThreads'
  BY ThreadNames DEF QuietThreads, Quiet

\* What the queue holds is queued.
LEMMA QueuedEntry ==
    ASSUME TypeOK, QueueEntriesOnce, NEW i \in 1..Len(queue)
    PROVE  queue[i] \in Turns /\ sub[queue[i]] = "queued"
  <1>1. queue[i] \in Turns
    BY DEF TypeOK, RuntimeTypeOK
  <1> QED
    BY <1>1 DEF QueueEntriesOnce

\* The head of the queue is a queued request.
LEMMA QueuedHead ==
    ASSUME TypeOK, QueueEntriesOnce, queue # << >>
    PROVE  Head(queue) \in Turns /\ sub[Head(queue)] = "queued"
  <1>1. queue \in Seq(Turns)
    BY DEF TypeOK, RuntimeTypeOK
  <1>2. 1 \in 1..Len(queue) /\ Head(queue) = queue[1]
    BY <1>1
  <1> QED
    BY <1>2, QueuedEntry

\* Every step keeps the threads quiet where they must be.
LEMMA QuietNext ==
    ASSUME TypeOK, QueueEntriesOnce, QuietThreads, Next
    PROVE  QuietThreads'
  <1> USE ThreadNames DEF TypeOK, SystemTypeOK
  <1>1. ASSUME NEW t \in Turns, TurnStep(t) PROVE QuietThreads'
    <2>1. CASE SendIdle(t) \/ SendBusy(t) \/ SendRefuse(t)
      BY <2>1, QuietUntouched DEF SendIdle, SendBusy, SendRefuse, QuietThreads, callVars
    <2>2. CASE Submit(t) \/ TryLock(t) \/ SelectionFails(t) \/ FinishSubmit(t)
      BY <2>2, QuietUntouched
         DEF Submit, TryLock, SelectionFails, FinishSubmit, QuietThreads, callVars
    <2>3. CASE BeginTurn(t)
      <3>1. /\ sub' = [sub EXCEPT ![t] = "starting"]
            /\ ev' = [ev EXCEPT ![Send(t)] = Emitted("turn_started", t)]
            /\ ask' = ask /\ cpc' = cpc
        BY <2>3 DEF BeginTurn, callVars
      <3> QED
        BY <3>1, ThreadsDiffer DEF QuietThreads, Quiet
    <2>4. CASE LaunchPrompt(t) \/ FinishFail(t)
      BY <2>4, QuietUntouched DEF LaunchPrompt, FinishFail, callVars
    <2>5. CASE Fail(t)
      <3>1. /\ sub' = [sub EXCEPT ![t] = "failed"]
            /\ ev' = [ev EXCEPT ![Send(t)] = Emitted("terminal", None)]
            /\ ask' = ask /\ cpc' = cpc
        BY <2>5 DEF Fail, callVars
      <3> QED
        BY <3>1, ThreadsDiffer DEF QuietThreads, Quiet
    <2>6. CASE PromptReturns(t) \/ PromptOver(t)
      BY <2>6, QuietUntouched DEF PromptReturns, PromptOver, sysVars, callVars
    <2>7. CASE PromptUnlocks(t)
      <3>1. /\ \A x \in Threads : x # Prompt(t) => ev'[x] = ev[x]
            /\ sub' = sub /\ ask' = ask /\ cpc' = cpc
        BY <2>7 DEF PromptUnlocks, callVars
      <3> QED
        BY <3>1, ThreadsDiffer DEF QuietThreads, Quiet
    <2>8. CASE AskHost(t)
      <3>1. /\ ask' = [ask EXCEPT ![t] = "open"]
            /\ ev' = [ev EXCEPT ![Ask(t)] = Emitted("interaction_requested", t)]
            /\ sub' = sub /\ cpc' = cpc
        BY <2>8 DEF AskHost, callVars
      <3> QED
        BY <3>1, ThreadsDiffer DEF QuietThreads, Quiet
    <2>9. CASE AskAnswered(t)
      BY <2>9, QuietUntouched DEF AskAnswered, callVars
    <2> QED
      BY <1>1, <2>1, <2>2, <2>3, <2>4, <2>5, <2>6, <2>7, <2>8, <2>9 DEF TurnStep
  <1>2. ASSUME NEW c \in Callers, CallStep(c) PROVE QuietThreads'
    <2> USE DEF Step
    <2>1. CASE Interrupt(c) \/ CloseFinish(c)
      <3>1. \A t \in Turns : sub'[t] = sub[t] \/ Quiet(Send(t))
        BY <2>1 DEF Interrupt, CloseFinish, QuietThreads
      <3> QED
        BY <2>1, <3>1, QuietUntouched DEF Interrupt, CloseFinish, QuietThreads
    <2>2. CASE InterruptActive(c) \/ InterruptRead(c) \/ InterruptCancel(c)
      BY <2>2, QuietUntouched
         DEF InterruptActive, InterruptRead, InterruptCancel, QuietThreads
    <2>3. CASE InterruptTake(c)
      <3>1. /\ cpc' = [cpc EXCEPT ![c] = "int_wait"]
            /\ \A x \in Threads : x # Call(c) => ev'[x] = ev[x]
            /\ sub' = sub /\ ask' = ask
        BY <2>3 DEF InterruptTake
      <3> QED
        BY <3>1, ThreadsDiffer DEF QuietThreads, Quiet
    <2>4. CASE InterruptWait(c) \/ Return(c)
      BY <2>4, QuietUntouched DEF InterruptWait, Return
    <2>5. CASE InterruptCheck(c) \/ RespondCheck(c)
      <3>1. /\ cpc' = [cpc EXCEPT ![c] = "return"]
            /\ \A x \in Threads : x # Call(c) => ev'[x] = ev[x]
            /\ sub' = sub /\ ask' = ask
        BY <2>5 DEF InterruptCheck, RespondCheck
      <3> QED
        BY <3>1, ThreadsDiffer DEF QuietThreads, Quiet
    <2>6. CASE (\E t \in Turns : Respond(c, t)) \/ Close(c) \/ CloseAdapter(c)
               \/ CloseLog(c)
      BY <2>6, QuietUntouched DEF Respond, Close, CloseAdapter, CloseLog, QuietThreads
    <2>7. CASE RespondAdapter(c)
      <3>1. CASE UNCHANGED ev
        BY <2>7, <3>1, QuietUntouched DEF RespondAdapter, QuietThreads
      <3>2. CASE /\ cpc' = [cpc EXCEPT ![c] = "resp_check"]
                 /\ ev' = [ev EXCEPT ![Call(c)] = Emitted("interaction_resolved", cturn[c])]
        <4>1. sub' = sub /\ ask' = ask
          BY <2>7 DEF RespondAdapter
        <4> QED
          BY <3>2, <4>1, ThreadsDiffer DEF QuietThreads, Quiet
      <3> QED
        BY <2>7, <3>1, <3>2 DEF RespondAdapter
    <2> QED
      BY <1>2, <2>1, <2>2, <2>3, <2>4, <2>5, <2>6, <2>7 DEF CallStep
  <1>3. ASSUME NEW th \in Threads, DeliveryStep(th) PROVE QuietThreads'
    <2>1. ~Quiet(th)
      BY <1>3 DEF DeliveryStep, Deliver, Apply, Record, Quiet, NoEvent
    <2>2. \A x \in Threads : x # th => ev'[x] = ev[x]
      BY <1>3 DEF DeliveryStep, Deliver, Apply, Record
    <2>3. UNCHANGED <<sub, ask, cpc>>
      BY <1>3 DEF DeliveryStep, Deliver, Apply, Record, callVars
    <2> QED
      BY <2>1, <2>2, <2>3, QuietDelivery
  <1>4. ASSUME NEW i \in 1..Len(queue), RemoveQueuedTurn(i) PROVE QuietThreads'
    <2>1. sub[queue[i]] = "queued"
      BY QueuedEntry
    <2> QED
      BY <1>4, <2>1, QuietUntouched DEF RemoveQueuedTurn, QuietThreads, callVars
  <1>5. CASE Block \/ Unblock
    BY <1>5, QuietUntouched DEF Block, Unblock, sysVars, callVars
  <1>6. CASE DispatchQueued
    <2>1. CASE UNCHANGED sub
      BY <1>6, <2>1, QuietUntouched DEF DispatchQueued, callVars
    <2>2. CASE DispatchHead /\ sub' = [sub EXCEPT ![Head(queue)] = "submit"]
      <3>1. sub[Head(queue)] = "queued"
        BY <2>2, QueuedHead DEF DispatchHead, ReadyToDispatch
      <3> QED
        BY <1>6, <2>2, <3>1, QuietUntouched DEF DispatchQueued, QuietThreads, callVars
    <2> QED
      BY <1>6, <2>1, <2>2 DEF DispatchQueued
  <1>7. CASE Crash
    <2>1. ev' = [th \in Threads |->
                   IF th = Boot THEN Reconcile(image).event ELSE NoEvent]
      BY <1>7 DEF Crash
    <2> QED
      BY <2>1, ThreadsDiffer DEF QuietThreads, Quiet
  <1>8. CASE ReconcileFail
    <2>1. /\ \A x \in Threads : x # Boot => ev'[x] = ev[x]
          /\ sub' = sub /\ ask' = ask /\ cpc' = cpc
      BY <1>8 DEF ReconcileFail, callVars
    <2> QED
      BY <2>1, ThreadsDiffer DEF QuietThreads, Quiet
  <1>9. CASE ReconcileDone
    BY <1>9, QuietUntouched DEF ReconcileDone, callVars
  <1> QED
    BY <1>1, <1>2, <1>3, <1>4, <1>5, <1>6, <1>7, <1>8, <1>9 DEF Next

-----------------------------------------------------------------------------
(* No lost wakeup.                                                         *)

\* A step that makes the session no readier than it was, keeps the
\* dispatchers and loses no terminal event.
LEMMA WakeupKept ==
    ASSUME Wakeup, dispatchers \in Nat,
           ReadyToDispatch' /\ ~blocked' /\ ~sinkClosed'
             => ReadyToDispatch /\ ~blocked /\ ~sinkClosed,
           dispatchers' \in Nat, dispatchers' >= dispatchers,
           \A th \in Threads : WillDispatch(th) => WillDispatch(th)'
    PROVE  Wakeup'
  BY DEF Wakeup

\* The same for a step outside delivery that leaves the events alone.
LEMMA WakeupUntouched ==
    ASSUME Wakeup, dispatchers \in Nat, UNCHANGED ev,
           ReadyToDispatch' /\ ~blocked' /\ ~sinkClosed'
             => ReadyToDispatch /\ ~blocked /\ ~sinkClosed,
           dispatchers' \in Nat, dispatchers' >= dispatchers
    PROVE  Wakeup'
  BY WakeupKept DEF WillDispatch

\* A step by which a thread that delivered nothing starts a delivery.
LEMMA WakeupEmits ==
    ASSUME Wakeup, dispatchers \in Nat, NEW th \in Threads, Quiet(th),
           \A x \in Threads : x # th => ev'[x] = ev[x],
           ReadyToDispatch' /\ ~blocked' /\ ~sinkClosed'
             => ReadyToDispatch /\ ~blocked /\ ~sinkClosed,
           dispatchers' = dispatchers
    PROVE  Wakeup'
  <1>1. \A x \in Threads : WillDispatch(x) => WillDispatch(x)'
    BY DEF WillDispatch, Quiet, NoEvent
  <1> QED
    BY <1>1, WakeupKept

\* A step by which a thread starts to deliver a terminal event.
LEMMA WakeupTerminal ==
    ASSUME ev \in [Threads -> Events \cup {NoEvent}], NEW th \in Threads,
           NEW t, ev' = [ev EXCEPT ![th] = Emitted("terminal", t)]
    PROVE  Wakeup'
  BY DEF Wakeup, WillDispatch, Emitted

\* What decides whether a dispatcher has something to do.
LEMMA ReadyUntouched ==
    ASSUME UNCHANGED rtVars
    PROVE  ReadyToDispatch' /\ ~blocked' /\ ~sinkClosed'
             => ReadyToDispatch /\ ~blocked /\ ~sinkClosed
  BY DEF rtVars, ReadyToDispatch, Idle, Closed

\* Every step keeps the promise of a wakeup.
LEMMA WakeupNext ==
    ASSUME TypeOK, QuietThreads, NoTurnWhenIdle, Wakeup, Next
    PROVE  Wakeup'
  <1> USE ThreadNames DEF TypeOK, SystemTypeOK
  <1>1. ASSUME NEW t \in Turns, TurnStep(t) PROVE Wakeup'
    <2>1. CASE SendIdle(t)
      BY <2>1 DEF SendIdle, SendNow, Wakeup, ReadyToDispatch, Idle
    <2>2. CASE SendBusy(t)
      BY <2>2 DEF SendBusy, SendQueued, MustQueue, Wakeup, ReadyToDispatch, Idle
    <2>3. CASE SendRefuse(t)
      BY <2>3, ReadyUntouched, WakeupUntouched DEF SendRefuse, SendRefused
    <2>4. CASE Submit(t) \/ TryLock(t) \/ SelectionFails(t) \/ LaunchPrompt(t)
               \/ AskAnswered(t)
      BY <2>4, ReadyUntouched, WakeupUntouched
         DEF Submit, TryLock, SelectionFails, LaunchPrompt, AskAnswered
    <2>5. CASE FinishSubmit(t)
      BY <2>5, WakeupUntouched
         DEF FinishSubmit, SubmitReturned, ReadyToDispatch, Idle, Closed
    <2>6. CASE BeginTurn(t)
      <3>1. Quiet(Send(t))
        BY <2>6 DEF BeginTurn, QuietThreads
      <3> QED
        BY <2>6, <3>1, ReadyUntouched, WakeupEmits DEF BeginTurn
    <2>7. CASE Fail(t)
      BY <2>7, WakeupTerminal DEF Fail
    <2>8. CASE FinishFail(t)
      BY <2>8, ReadyUntouched, WakeupUntouched DEF FinishFail
    <2>9. CASE PromptReturns(t) \/ PromptOver(t)
      BY <2>9, ReadyUntouched, WakeupUntouched DEF PromptReturns, PromptOver, sysVars
    <2>10. CASE PromptUnlocks(t)
      <3>1. CASE UNCHANGED ev
        BY <2>10, <3>1, ReadyUntouched, WakeupUntouched DEF PromptUnlocks
      <3>2. CASE ev' = [ev EXCEPT ![Prompt(t)] = Emitted("terminal", t)]
        BY <3>2, WakeupTerminal
      <3> QED
        BY <2>10, <3>1, <3>2 DEF PromptUnlocks
    <2>11. CASE AskHost(t)
      <3>1. Quiet(Ask(t))
        BY <2>11 DEF AskHost, QuietThreads
      <3> QED
        BY <2>11, <3>1, ReadyUntouched, WakeupEmits DEF AskHost
    <2> QED
      BY <1>1, <2>1, <2>2, <2>3, <2>4, <2>5, <2>6, <2>7, <2>8, <2>9, <2>10, <2>11
         DEF TurnStep
  <1>2. ASSUME NEW c \in Callers, CallStep(c) PROVE Wakeup'
    <2> USE DEF Step
    <2>1. CASE Interrupt(c)
      BY <2>1 DEF Interrupt, ClearQueue, Wakeup, ReadyToDispatch
    <2>2. CASE CloseFinish(c)
      BY <2>2 DEF CloseFinish, FinishClose, Closed, Wakeup, ReadyToDispatch
    <2>3. CASE InterruptActive(c) \/ InterruptRead(c) \/ InterruptCancel(c)
               \/ InterruptWait(c) \/ CloseAdapter(c) \/ Return(c)
      BY <2>3, ReadyUntouched, WakeupUntouched
         DEF InterruptActive, InterruptRead, InterruptCancel, InterruptWait,
             CloseAdapter, Return
    <2>4. CASE InterruptTake(c)
      <3>1. CASE UNCHANGED ev
        BY <2>4, <3>1, ReadyUntouched, WakeupUntouched DEF InterruptTake
      <3>2. CASE ev' = [ev EXCEPT ![Call(c)] = Emitted("terminal", curTurn)]
        BY <3>2, WakeupTerminal
      <3> QED
        BY <2>4, <3>1, <3>2 DEF InterruptTake
    <2>5. CASE InterruptCheck(c)
      <3>1. CASE UNCHANGED ev
        BY <2>5, <3>1, ReadyUntouched, WakeupUntouched DEF InterruptCheck
      <3>2. CASE ev' = [ev EXCEPT ![Call(c)] = Emitted("terminal", cturn[c])]
        BY <3>2, WakeupTerminal
      <3> QED
        BY <2>5, <3>1, <3>2 DEF InterruptCheck
    <2>6. CASE \E t \in Turns : Respond(c, t)
      <3>1. /\ UNCHANGED <<ev, dispatchers, blocked, sinkClosed, active, dispatching, queue>>
            /\ status' = "closed" <=> status = "closed"
        BY <2>6 DEF Respond, BeginRespond
      <3> QED
        BY <3>1, WakeupUntouched DEF ReadyToDispatch, Idle, Closed
    <2>7. CASE RespondAdapter(c) \/ RespondCheck(c)
      <3>1. Quiet(Call(c))
        BY <2>7 DEF RespondAdapter, RespondCheck, QuietThreads
      <3>2. \A x \in Threads : x # Call(c) => ev'[x] = ev[x]
        BY <2>7 DEF RespondAdapter, RespondCheck
      <3> QED
        BY <2>7, <3>1, <3>2, ReadyUntouched, WakeupEmits
           DEF RespondAdapter, RespondCheck
    <2>8. CASE Close(c)
      BY <2>8 DEF Close, CloseSink, Wakeup
    <2>9. CASE CloseLog(c)
      BY <2>9, WakeupUntouched
         DEF CloseLog, AppendRecord, ReadyToDispatch, Idle, Closed, rtVars
    <2> QED
      BY <1>2, <2>1, <2>2, <2>3, <2>4, <2>5, <2>6, <2>7, <2>8, <2>9 DEF CallStep
  <1>3. ASSUME NEW th \in Threads, DeliveryStep(th) PROVE Wakeup'
    <2>1. CASE Deliver(th)
      <3>1. CASE sinkClosed
        BY <2>1, <3>1 DEF Deliver, rtVars, Wakeup
      <3>2. CASE ~sinkClosed
        <4>1. ev[th] \in Events
          BY <2>1, InDelivery DEF Deliver
        <4>2. /\ ev'[th].kind = ev[th].kind /\ ev'[th].pc = "handled"
              /\ \A x \in Threads : x # th => ev'[x] = ev[x]
          BY <2>1, <3>2, <4>1 DEF Deliver, Events
        <4>3. \A x \in Threads : WillDispatch(x) => WillDispatch(x)'
          BY <4>2 DEF WillDispatch
        <4> QED
          BY <2>1, <4>3, ReadyUntouched, WakeupKept DEF Deliver
      <3> QED
        BY <3>1, <3>2
    <2>2. CASE Apply(th)
      <3>1. ev[th] \in Events
        BY <2>2, InDelivery DEF Apply
      <3>2. /\ ev'[th].kind = ev[th].kind /\ ev'[th].pc = "applied"
            /\ ev'[th].next = (ev[th].kind = "terminal" /\ DispatchNext(ev[th].turn))
            /\ \A x \in Threads : x # th => ev'[x] = ev[x]
        BY <2>2, <3>1 DEF Apply, Events
      <3>3. CASE ev[th].kind = "terminal"
        <4>1. ApplyTerminal(ev[th].turn)
          BY <2>2, <3>3 DEF Apply
        <4>2. CASE TerminalMatches(ev[th].turn)
          <5>1. ReadyToDispatch' /\ ~blocked' => WillDispatch(th)'
            BY <3>2, <3>3, <4>1, <4>2
               DEF ApplyTerminal, ReadyToDispatch, DispatchNext, WillDispatch
          <5> QED
            BY <5>1 DEF Wakeup
        <4>3. CASE ~TerminalMatches(ev[th].turn)
          <5>1. active' = active /\ active
            BY <4>1, <4>3 DEF ApplyTerminal, TerminalMatches, NoTurnWhenIdle
          <5> QED
            BY <5>1 DEF Wakeup, ReadyToDispatch, Idle
        <4> QED
          BY <4>2, <4>3
      <3>4. CASE ev[th].kind = "turn_started"
        <4>1. active' = TRUE
          BY <2>2, <3>4 DEF Apply, ApplyTurnStarted
        <4> QED
          BY <4>1 DEF Wakeup, ReadyToDispatch, Idle
      <3>5. CASE ev[th].kind \in {"interaction_requested", "interaction_resolved"}
        <4>1. /\ UNCHANGED <<dispatchers, blocked, sinkClosed, active, dispatching, queue>>
              /\ status' = "closed" <=> status = "closed"
          BY <2>2, <3>5 DEF Apply, ApplyInteractionRequested, ApplyInteractionResolved
        <4>2. \A x \in Threads : WillDispatch(x) => WillDispatch(x)'
          BY <3>2, <3>5 DEF WillDispatch
        <4> QED
          BY <4>1, <4>2, WakeupKept DEF ReadyToDispatch, Idle, Closed
      <3> QED
        BY <3>1, <3>3, <3>4, <3>5 DEF Events, EventKinds
    <2>3. CASE Record(th)
      <3>1. UNCHANGED <<blocked, sinkClosed, active, dispatching, queue, status>>
        BY <2>3 DEF Record, AppendRecord, rtVars
      <3>2. ev' = [ev EXCEPT ![th] = NoEvent] /\ ev[th].pc = "applied"
        BY <2>3 DEF Record
      <3>3. CASE WillDispatch(th)
        BY <2>3, <3>2, <3>3 DEF Record, WillDispatch, Wakeup
      <3>4. CASE ~WillDispatch(th)
        <4>1. \A x \in Threads : WillDispatch(x) => WillDispatch(x)'
          BY <3>2, <3>4 DEF WillDispatch
        <4>2. dispatchers' \in Nat /\ dispatchers' >= dispatchers
          BY <2>3 DEF Record
        <4> QED
          BY <3>1, <4>1, <4>2, WakeupKept DEF ReadyToDispatch, Idle, Closed
      <3> QED
        BY <3>3, <3>4
    <2> QED
      BY <1>3, <2>1, <2>2, <2>3 DEF DeliveryStep
  <1>4. ASSUME NEW i \in 1..Len(queue), RemoveQueuedTurn(i) PROVE Wakeup'
    <2>1. queue # << >>
      BY <1>4
    <2> QED
      BY <1>4, <2>1, WakeupUntouched
         DEF RemoveQueuedTurn, RemoveQueued, ReadyToDispatch, Idle, Closed
  <1>5. CASE Block
    BY <1>5 DEF Block, BlockDispatch, Wakeup
  <1>6. CASE Unblock
    <2>1. ReadyToDispatch' = ReadyToDispatch
      BY <1>6 DEF Unblock, UnblockDispatch, ReadyToDispatch, Idle, Closed
    <2> QED
      BY <1>6, <2>1 DEF Unblock, Wakeup
  <1>7. CASE DispatchQueued
    <2>1. CASE DispatchNothing
      BY <2>1 DEF DispatchNothing, rtVars, Wakeup, ReadyToDispatch, Idle, Closed
    <2>2. CASE DispatchHead
      BY <2>2 DEF DispatchHead, Wakeup, ReadyToDispatch, Idle
    <2> QED
      BY <1>7, <2>1, <2>2 DEF DispatchQueued
  <1>8. CASE Crash
    BY <1>8 DEF Crash, InsertRestored, Wakeup, ReadyToDispatch
  <1>9. CASE ReconcileFail
    BY <1>9, WakeupTerminal DEF ReconcileFail
  <1>10. CASE ReconcileDone
    BY <1>10, ReadyUntouched, WakeupUntouched DEF ReconcileDone
  <1> QED
    BY <1>1, <1>2, <1>3, <1>4, <1>5, <1>6, <1>7, <1>8, <1>9, <1>10 DEF Next

-----------------------------------------------------------------------------
(* Closed is final.                                                        *)

\* Of the records, only session_closed closes a journal, and none reopens it.
LEMMA ClosedRestored ==
    ASSUME NEW img \in Images, NEW t \in MaybeTurn, NEW k \in EventKinds
    PROVE  Restored(img, k, t).status = "closed" <=> img.status = "closed"
  <1> USE DEF Images
  <1>1. CASE k = "turn_started"
    BY <1>1 DEF Restored, RestoreTurnStarted
  <1>2. CASE k = "terminal"
    BY <1>2 DEF Restored, RestoreTerminal
  <1>3. CASE k = "interaction_requested"
    BY <1>3 DEF Restored, RestoreInteraction
  <1>4. CASE k = "interaction_resolved"
    BY <1>4 DEF Restored, RestoreResolved
  <1> QED
    BY <1>1, <1>2, <1>3, <1>4 DEF EventKinds

\* What a step does to the journal and to the closers.
ClosedEffect ==
    \/ /\ Closed => Closed'
       /\ image'.status = "closed" <=> image.status = "closed"
       /\ \A c \in Callers : cpc'[c] = "close_log" => cpc[c] = "close_log" \/ Closed'
    \/ /\ \E c \in Callers : cpc[c] = "close_log"
       /\ UNCHANGED status
       /\ image'.status = "closed"
    \/ /\ status' = image.status /\ image' = image
       /\ \A c \in Callers : cpc'[c] # "close_log"

\* Every step keeps a closed session closed, appends the record of a close, or
\* restores the session from its journal.
LEMMA ClosedEffects ==
    ASSUME TypeOK, Next
    PROVE  ClosedEffect
  <1> USE DEF TypeOK, SystemTypeOK
  <1>1. ASSUME NEW t \in Turns, TurnStep(t) PROVE ClosedEffect
    <2>1. /\ image' = image /\ cpc' = cpc
          /\ Closed => Closed'
      BY <1>1 DEF Closed, TurnStep, SendIdle, SendNow, SendBusy, SendQueued, SendRefuse,
                  SendRefused, Submit, TryLock, SelectionFails, BeginTurn,
                  LaunchPrompt, FinishSubmit, SubmitReturned, Fail,
                  FailSubmission, FinishFail, PromptReturns, PromptUnlocks,
                  PromptOver, AskHost, AskAnswered, rtVars, sysVars, callVars
    <2> QED
      BY <2>1 DEF ClosedEffect
  <1>2. ASSUME NEW c \in Callers, CallStep(c) PROVE ClosedEffect
    <2>1. CASE CloseLog(c)
      <3>1. /\ image' = [image EXCEPT !.status = "closed"] \/ image' = image
            /\ status' = status
        BY <2>1 DEF CloseLog, AppendRecord, Restored, rtVars
      <3>2. image'.status = "closed" \/ image' = image
        BY <3>1 DEF RuntimeTypeOK, Images
      <3> QED
        <4>1. CASE image'.status = "closed"
          BY <2>1, <3>1, <4>1 DEF CloseLog, Step, ClosedEffect
        <4>2. CASE image' = image
          <5>1. \A d \in Callers : cpc'[d] = "close_log" => cpc[d] = "close_log"
            BY <2>1 DEF CloseLog, Step, TypeOK, SystemTypeOK
          <5>2. Closed => Closed'
            BY <3>1 DEF Closed
          <5> QED
            BY <4>2, <5>1, <5>2 DEF ClosedEffect
        <4> QED
          BY <3>2, <4>1, <4>2
    <2>2. CASE CloseFinish(c)
      <3>1. Closed'
        BY <2>2 DEF CloseFinish, FinishClose, Closed
      <3> QED
        BY <2>2, <3>1 DEF CloseFinish, FinishClose, ClosedEffect
    <2>3. CASE Interrupt(c) \/ InterruptActive(c) \/ InterruptRead(c)
               \/ InterruptCancel(c) \/ InterruptTake(c) \/ InterruptWait(c)
               \/ InterruptCheck(c) \/ (\E t \in Turns : Respond(c, t))
               \/ RespondAdapter(c) \/ RespondCheck(c) \/ Close(c)
               \/ CloseAdapter(c) \/ Return(c)
      <3>1. image' = image /\ (Closed => Closed')
        BY <2>3 DEF Closed, Interrupt, ClearQueue, InterruptActive, InterruptRead,
                    InterruptCancel, InterruptTake, InterruptWait,
                    InterruptCheck, Respond, BeginRespond, RespondAdapter,
                    RespondCheck, Close, CloseSink, CloseAdapter, Return, rtVars
      <3>2. \A d \in Callers : cpc'[d] = "close_log" => cpc[d] = "close_log"
        BY <2>3 DEF Interrupt, InterruptActive, InterruptRead,
                    InterruptCancel, InterruptTake, InterruptWait,
                    InterruptCheck, Respond, RespondAdapter, RespondCheck,
                    Close, CloseAdapter, Return, Step
      <3> QED
        BY <3>1, <3>2 DEF ClosedEffect
    <2> QED
      BY <1>2, <2>1, <2>2, <2>3 DEF CallStep
  <1>3. ASSUME NEW th \in Threads, DeliveryStep(th) PROVE ClosedEffect
    <2>1. cpc' = cpc
      BY <1>3 DEF DeliveryStep, Deliver, Apply, Record, callVars
    <2>2. CASE Deliver(th) \/ Apply(th)
      <3>1. image' = image /\ (Closed => Closed')
        BY <2>2 DEF Closed, Deliver, Apply, ApplyTurnStarted, ApplyTerminal,
                    ApplyInteractionRequested, ApplyInteractionResolved, rtVars
      <3> QED
        BY <2>1, <3>1 DEF ClosedEffect
    <2>3. CASE Record(th)
      <3>1. ev[th].kind \in EventKinds /\ ev[th].turn \in MaybeTurn
        BY <2>3, InDelivery DEF Record
      <3>2. CASE UNCHANGED rtVars
        BY <2>1, <3>2 DEF rtVars, Closed, ClosedEffect
      <3>3. CASE AppendRecord(ev[th].kind, ev[th].turn)
        <4>1. image'.status = "closed" <=> image.status = "closed"
          BY <3>1, <3>3, ClosedRestored DEF AppendRecord, RuntimeTypeOK
        <4> QED
          BY <2>1, <3>3, <4>1 DEF AppendRecord, Closed, ClosedEffect
      <3> QED
        BY <2>3, <3>2, <3>3 DEF Record
    <2> QED
      BY <1>3, <2>2, <2>3 DEF DeliveryStep
  <1>4. CASE \E i \in 1..Len(queue) : RemoveQueuedTurn(i)
    BY <1>4 DEF RemoveQueuedTurn, RemoveQueued, callVars, Closed, ClosedEffect
  <1>5. CASE Block \/ Unblock \/ DispatchQueued
    BY <1>5 DEF Block, BlockDispatch, Unblock, UnblockDispatch, DispatchQueued,
                DispatchNothing, DispatchHead, rtVars, sysVars, callVars, Closed, ClosedEffect
  <1>6. CASE Crash
    BY <1>6 DEF Crash, InsertRestored, ClosedEffect
  <1>7. CASE ReconcileFail \/ ReconcileDone
    BY <1>7 DEF ReconcileFail, ReconcileDone, rtVars, callVars, Closed, ClosedEffect
  <1> QED
    BY <1>1, <1>2, <1>3, <1>4, <1>5, <1>6, <1>7 DEF Next

\* So the journal and memory agree, and what the journal calls closed stays so.
LEMMA ClosedNext ==
    ASSUME TypeOK, ClosedAgree, Next
    PROVE  /\ ClosedAgree'
           /\ image.status = "closed" => image'.status = "closed" /\ Closed'
  <1>1. ClosedEffect
    BY ClosedEffects
  <1> QED
    BY <1>1 DEF ClosedEffect, ClosedAgree, Closed

-----------------------------------------------------------------------------
\* A fresh session satisfies the invariant of delivery.
LEMMA InitDelivery == Init => DeliveryInv
  <1> SUFFICES ASSUME Init PROVE DeliveryInv
    OBVIOUS
  <1> USE DEF Init, RuntimeInit, EmptyImage
  <1>1. QuietThreads
    BY ThreadNames DEF QuietThreads, Quiet
  <1>2. NoTurnWhenIdle
    BY DEF NoTurnWhenIdle
  <1>3. Wakeup
    BY DEF Wakeup, ReadyToDispatch
  <1>4. ClosedAgree
    BY DEF ClosedAgree
  <1> QED
    BY <1>1, <1>2, <1>3, <1>4 DEF DeliveryInv

\* A step that changes nothing keeps it.
LEMMA StutterDelivery == DeliveryInv /\ UNCHANGED vars => DeliveryInv'
  <1> SUFFICES ASSUME DeliveryInv, UNCHANGED vars PROVE DeliveryInv'
    OBVIOUS
  <1> USE DEF DeliveryInv, vars, rtVars, sysVars, callVars
  <1>1. QuietThreads'
    BY DEF QuietThreads, Quiet
  <1>2. NoTurnWhenIdle'
    BY DEF NoTurnWhenIdle
  <1>3. Wakeup'
    BY DEF Wakeup, ReadyToDispatch, Idle, Closed, WillDispatch
  <1>4. ClosedAgree'
    BY DEF ClosedAgree, Closed
  <1> QED
    BY <1>1, <1>2, <1>3, <1>4 DEF DeliveryInv

\* Every step preserves it.
LEMMA NextDelivery ==
    SafetyInv /\ DeliveryInv /\ [Next]_vars => DeliveryInv'
  <1>1. ASSUME SafetyInv, DeliveryInv, Next PROVE DeliveryInv'
    <2> USE <1>1 DEF SafetyInv, DeliveryInv
    <2>1. QuietThreads'
      BY QuietNext
    <2>2. NoTurnWhenIdle'
      BY NoTurnNext
    <2>3. Wakeup'
      BY WakeupNext
    <2>4. ClosedAgree'
      BY ClosedNext
    <2> QED
      BY <2>1, <2>2, <2>3, <2>4
  <1> QED
    BY <1>1, StutterDelivery

\* The invariant of delivery holds in every reachable state, for every set of
\* operations.
THEOREM DeliveryInvariance == Spec => []DeliveryInv
  BY SafetyInvariance, InitDelivery, NextDelivery, PTL DEF Spec

\* No wakeup is lost, for every set of operations and failures: an idle
\* session with work in its queue has a dispatcher under way or a terminal
\* event in delivery that will start one.
THEOREM NoLostWakeup == Spec => []NotStranded
  <1>1. Wakeup => NotStranded
    BY DEF Wakeup, NotStranded, WillDispatch
  <1>2. DeliveryInv => NotStranded
    BY <1>1 DEF DeliveryInv
  <1> QED
    BY <1>2, DeliveryInvariance, PTL

\* A session whose journal says closed stays closed, in memory and in the
\* journal, for every set of operations, late events and restarts included.
THEOREM CloseIsFinal == Spec => ClosedIsFinal
  <1>1. SafetyInv /\ DeliveryInv /\ [Next]_vars =>
          [image.status = "closed" => image'.status = "closed" /\ Closed']_vars
    BY ClosedNext DEF SafetyInv, DeliveryInv
  <1> QED
    BY <1>1, SafetyInvariance, DeliveryInvariance, PTL DEF Spec, ClosedIsFinal

-----------------------------------------------------------------------------
(***************************************************************************)
(* A session that nobody interrupts and whose submissions fail only when   *)
(* the adapter has dropped it hands itself to one turn at a time.  From    *)
(* that follows what the runtime, the adapter and the journal know of each *)
(* other's turn: through crashes, closes that fail half way and            *)
(* interactions, for any number of requests and callers.                   *)
(***************************************************************************)

\* Interrupts, and submissions the agent refuses, make the runtime and the
\* adapter disagree about the turn: what follows is about sessions without.
Uninterrupted == Ops \cap {"interrupt", "interruptActive", "sendError"} = {}

\* A record that is not appended is one Restore does not see.
JournalWorks == "appendError" \notin Ops

\* Close silences the sink, so a prompt that runs on is not heard of again.
NeverClosed == "close" \notin Ops

-----------------------------------------------------------------------------
(* Ownership.                                                              *)

\* The event has not reached the session yet.
Delivering(th) == ev[th].pc \in {"raw", "handled"}

\* The turn has the session: from the moment the runtime dispatched it until
\* its terminal event is applied or its submission failed.
Owns(t) ==
    \/ sub[t] \in {"submit", "trylock", "locked", "starting", "failing"}
    \/ prompt[t] \in {"running", "ending"}
    \/ prompt[t] = "emitting" /\ Delivering(Prompt(t))

\* The owner's turn_started has not been applied.
Unstarted(t) ==
    \/ sub[t] \in {"submit", "trylock", "locked", "failing"}
    \/ sub[t] = "starting" /\ Delivering(Send(t))

OneOwner == \A t, u \in Turns : Owns(t) /\ Owns(u) => t = u

\* What the runtime knows of the owner, as far as events still reach it.
OwnerKnown ==
    \A t \in Turns : Owns(t) =>
        /\ Up
        /\ ~Closed => active \/ dispatching
        /\ ~Closed /\ active => activeTurn = t
        /\ ~Closed /\ Unstarted(t) => ~active
        /\ ~sinkClosed => ~Closed
        /\ ~sinkClosed /\ ~Unstarted(t) => active

\* What the adapter knows of it.
OwnerLocked ==
    \A t \in Turns :
        /\ promptMu = t => \/ sub[t] \in {"locked", "starting"}
                           \/ prompt[t] \in {"running", "ending"}
        /\ curTurn = t <=> sub[t] = "starting" \/ prompt[t] = "running"
        /\ prompt[t] # "muted"
        /\ sub[t] = "failing" => prompt[t] = "none"

\* Which goroutine delivers which event.
PromptEvent(t) ==
    ~Quiet(Prompt(t)) => /\ prompt[t] = "emitting"
                         /\ ev[Prompt(t)].kind = "terminal"
                         /\ ev[Prompt(t)].turn = t

SendEvent(t) ==
    ~Quiet(Send(t)) =>
        \/ /\ sub[t] = "starting"
           /\ ev[Send(t)].kind = "turn_started"
           /\ ev[Send(t)].turn = t
        \/ /\ sub[t] = "failed" /\ sinkClosed
           /\ ev[Send(t)].kind = "terminal"
           /\ ev[Send(t)].pc = "raw"

AskEvent(t) ==
    ~Quiet(Ask(t)) => /\ ask[t] = "open"
                      /\ ev[Ask(t)].kind = "interaction_requested"
                      /\ ev[Ask(t)].turn = t

CallEvent(c) == ~Quiet(Call(c)) => ev[Call(c)].kind = "interaction_resolved"

BootEvent ==
    ~Quiet(Boot) =>
        \/ phase = "resolve" /\ ev[Boot].kind = "interaction_resolved"
        \/ phase = "fail" /\ ev[Boot].kind = "terminal"

EventOwners ==
    /\ \A t \in Turns : PromptEvent(t) /\ SendEvent(t) /\ AskEvent(t)
    /\ \A c \in Callers : CallEvent(c)
    /\ BootEvent

\* Closing, and the restart after a crash, keep out of each other's way.
Closing ==
    /\ \A c \in Callers :
          /\ cpc[c] \notin {"int_read", "int_cancel", "int_take", "int_wait", "int_check"}
          /\ cpc[c] \in {"close_adapter", "close_finish", "close_log"} => sinkClosed
    /\ ~registered => sinkClosed \/ Closed
    /\ \A t \in Turns : sub[t] = "failing" => sinkClosed
    /\ sinkClosed => Up
    /\ cancelled # {} => sinkClosed
    /\ ~Up => /\ queue = << >>
              /\ \A c \in Callers : cpc[c] = "idle"
              /\ \A th \in Threads : th # Boot => Quiet(th)

OwnerInv == OneOwner /\ OwnerKnown /\ OwnerLocked /\ EventOwners /\ Closing

-----------------------------------------------------------------------------
(* The adapter's side.                                                     *)

\* A step that leaves the adapter's turn alone, and moves no request to or
\* from where it holds promptMu.
LEMMA LockedUntouched ==
    ASSUME OwnerLocked, UNCHANGED <<promptMu, curTurn, prompt>>,
           \A t \in Turns :
              \/ sub'[t] = sub[t]
              \/ /\ {sub[t], sub'[t]} \cap {"locked", "starting"} = {}
                 /\ sub'[t] = "failing" => prompt[t] = "none"
    PROVE  OwnerLocked'
  BY DEF OwnerLocked

\* Without interrupts no caller is in one, and none takes a step of one.
LEMMA NotInterrupting ==
    ASSUME Uninterrupted, Closing, NEW c \in Callers
    PROVE  ~(Interrupt(c) \/ InterruptActive(c) \/ InterruptRead(c)
             \/ InterruptCancel(c) \/ InterruptTake(c) \/ InterruptWait(c)
             \/ InterruptCheck(c))
  BY DEF Uninterrupted, Closing, Interrupt, InterruptActive, InterruptRead,
         InterruptCancel, InterruptTake, InterruptWait, InterruptCheck, Step

\* promptMu and the current turn are the owner's.
LEMMA LockedNext ==
    ASSUME Uninterrupted, SafetyInv, OwnerLocked, Closing, Next
    PROVE  OwnerLocked'
  <1> USE NoneAssumption DEF SafetyInv, TypeOK, SystemTypeOK, AcpxTypeOK, MaybeTurn
  <1>1. ASSUME NEW t \in Turns, TurnStep(t) PROVE OwnerLocked'
    <2>1. CASE SendIdle(t) \/ SendBusy(t) \/ SendRefuse(t)
      <3>1. sub[t] = "new" /\ \A u \in Turns : u # t => sub'[u] = sub[u]
        BY <2>1 DEF SendIdle, SendBusy, SendRefuse
      <3>2. sub'[t] \in {"submit", "queued", "refused"}
        BY <2>1 DEF SendIdle, SendBusy, SendRefuse
      <3>3. UNCHANGED <<promptMu, curTurn, prompt>>
        BY <2>1 DEF SendIdle, SendBusy, SendRefuse, acpxVars
      <3> QED
        BY <3>1, <3>2, <3>3, LockedUntouched
    <2>2. CASE Submit(t) \/ FinishSubmit(t) \/ Fail(t) \/ FinishFail(t)
      BY <2>2, LockedUntouched
         DEF Submit, FinishSubmit, Fail, FinishFail, acpxVars, LockDiscipline
    <2>3. CASE TryLock(t)
      <3>1. CASE LockPrompt(t) /\ sub' = [sub EXCEPT ![t] = "locked"]
        BY <2>3, <3>1 DEF TryLock, LockPrompt, OwnerLocked, LockDiscipline
      <3>2. CASE PromptBusy /\ sub' = [sub EXCEPT ![t] = "failing"]
        BY <2>3, <3>2, LockedUntouched
           DEF TryLock, PromptBusy, acpxVars, LockDiscipline
      <3> QED
        BY <2>3, <3>1, <3>2 DEF TryLock
    <2>4. CASE SelectionFails(t)
      BY <2>4 DEF SelectionFails, Uninterrupted
    <2>5. CASE BeginTurn(t)
      BY <2>5 DEF BeginTurn, SetTurn, OwnerLocked, LockDiscipline
    <2>6. CASE LaunchPrompt(t)
      BY <2>6 DEF LaunchPrompt, StartPrompt, OwnerLocked, LockDiscipline
    <2>7. CASE PromptReturns(t)
      BY <2>7 DEF PromptReturns, FinishTurn, sysVars, OwnerLocked, LockDiscipline
    <2>8. CASE PromptUnlocks(t)
      BY <2>8 DEF PromptUnlocks, ReleasePrompt, OwnerLocked, LockDiscipline
    <2>9. CASE PromptOver(t)
      BY <2>9 DEF PromptOver, PromptDone, sysVars, OwnerLocked, LockDiscipline
    <2>10. CASE AskHost(t) \/ AskAnswered(t)
      BY <2>10, LockedUntouched
         DEF AskHost, AwaitInteraction, AskAnswered, RemoveInteraction
    <2> QED
      BY <1>1, <2>1, <2>2, <2>3, <2>4, <2>5, <2>6, <2>7, <2>8, <2>9, <2>10
         DEF TurnStep
  <1>2. ASSUME NEW c \in Callers, CallStep(c) PROVE OwnerLocked'
    <2>1. CASE CloseFinish(c)
      BY <2>1, LockedUntouched DEF CloseFinish, acpxVars
    <2>2. CASE Interrupt(c) \/ InterruptActive(c) \/ InterruptRead(c)
               \/ InterruptCancel(c) \/ InterruptTake(c) \/ InterruptWait(c)
               \/ InterruptCheck(c)
      BY <2>2, NotInterrupting
    <2>3. CASE (\E t \in Turns : Respond(c, t)) \/ RespondAdapter(c)
               \/ RespondCheck(c) \/ Return(c)
      BY <2>3, LockedUntouched
         DEF Respond, RespondAdapter, TakeInteraction, RespondRejected,
             RespondCheck, Return, acpxVars
    <2>4. CASE Close(c) \/ CloseAdapter(c) \/ CloseLog(c)
      BY <2>4, LockedUntouched DEF Close, CloseAdapter, StopSession, CloseLog, acpxVars
    <2> QED
      BY <1>2, <2>1, <2>2, <2>3, <2>4 DEF CallStep
  <1>3. ASSUME NEW th \in Threads, DeliveryStep(th) PROVE OwnerLocked'
    BY <1>3, LockedUntouched DEF DeliveryStep, Deliver, Apply, Record, acpxVars
  <1>4. ASSUME NEW i \in 1..Len(queue), RemoveQueuedTurn(i) PROVE OwnerLocked'
    <2>1. sub[queue[i]] = "queued"
      BY QueuedEntry
    <2> QED
      BY <1>4, <2>1, LockedUntouched DEF RemoveQueuedTurn, acpxVars
  <1>5. CASE Block \/ Unblock
    BY <1>5, LockedUntouched DEF Block, Unblock, acpxVars, sysVars
  <1>6. CASE DispatchQueued
    <2>1. CASE UNCHANGED sub
      BY <1>6, <2>1, LockedUntouched DEF DispatchQueued, acpxVars
    <2>2. CASE DispatchHead /\ sub' = [sub EXCEPT ![Head(queue)] = "submit"]
      <3>1. sub[Head(queue)] = "queued"
        BY <2>2, QueuedHead DEF DispatchHead, ReadyToDispatch
      <3> QED
        BY <1>6, <2>2, <3>1, LockedUntouched DEF DispatchQueued, acpxVars
    <2> QED
      BY <1>6, <2>1, <2>2 DEF DispatchQueued
  <1>7. CASE Crash
    BY <1>7 DEF Crash, Reopen, OwnerLocked
  <1>8. CASE ReconcileFail \/ ReconcileDone
    BY <1>8, LockedUntouched DEF ReconcileFail, ReconcileDone, acpxVars
  <1> QED
    BY <1>1, <1>2, <1>3, <1>4, <1>5, <1>6, <1>7, <1>8 DEF Next

-----------------------------------------------------------------------------
(* Events.                                                                 *)

\* A step in which at most one thread emits or goes on with an event, and
\* which moves no goroutine that waits for its own event.
LEMMA EventsKept ==
    ASSUME EventOwners, NEW th \in Threads,
           \A x \in Threads : x # th => ev'[x] = ev[x],
           sinkClosed => sinkClosed',
           phase' = phase \/ Quiet(Boot),
           \A t \in Turns : /\ sub'[t] = sub[t] \/ Quiet(Send(t))
                            /\ prompt'[t] = prompt[t] \/ Quiet(Prompt(t))
                            /\ ask'[t] = ask[t] \/ Quiet(Ask(t)),
           \A t \in Turns : /\ th = Prompt(t) => PromptEvent(t)'
                            /\ th = Send(t) => SendEvent(t)'
                            /\ th = Ask(t) => AskEvent(t)',
           \A c \in Callers : th = Call(c) => CallEvent(c)',
           th = Boot => BootEvent'
    PROVE  EventOwners'
  <1> USE ThreadNames DEF EventOwners, Quiet
  <1>1. ASSUME NEW t \in Turns PROVE PromptEvent(t)'
    BY DEF PromptEvent
  <1>2. ASSUME NEW t \in Turns PROVE SendEvent(t)'
    BY DEF SendEvent
  <1>3. ASSUME NEW t \in Turns PROVE AskEvent(t)'
    BY DEF AskEvent
  <1>4. ASSUME NEW c \in Callers PROVE CallEvent(c)'
    BY DEF CallEvent
  <1>5. BootEvent'
    BY DEF BootEvent
  <1> QED
    BY <1>1, <1>2, <1>3, <1>4, <1>5

\* A step that emits nothing.
LEMMA EventsUntouched ==
    ASSUME EventOwners, UNCHANGED ev,
           sinkClosed => sinkClosed',
           phase' = phase \/ Quiet(Boot),
           \A t \in Turns : /\ sub'[t] = sub[t] \/ Quiet(Send(t))
                            /\ prompt'[t] = prompt[t] \/ Quiet(Prompt(t))
                            /\ ask'[t] = ask[t] \/ Quiet(Ask(t))
    PROVE  EventOwners'
  <1> USE DEF EventOwners, Quiet
  <1>1. ASSUME NEW t \in Turns PROVE PromptEvent(t)' /\ SendEvent(t)' /\ AskEvent(t)'
    BY DEF PromptEvent, SendEvent, AskEvent
  <1>2. (\A c \in Callers : CallEvent(c)') /\ BootEvent'
    BY DEF CallEvent, BootEvent
  <1> QED
    BY <1>1, <1>2

\* Each goroutine delivers only the events of its own turn or call.
LEMMA EventsNext ==
    ASSUME Uninterrupted, SafetyInv, QuietThreads, EventOwners, Closing, Next
    PROVE  EventOwners'
  <1> USE NoneAssumption, ThreadNames, ThreadsDiffer
      DEF SafetyInv, TypeOK, SystemTypeOK, AcpxTypeOK
  <1>1. ASSUME NEW t \in Turns, TurnStep(t) PROVE EventOwners'
    <2>1. CASE SendIdle(t) \/ SendBusy(t) \/ SendRefuse(t)
      <3>1. sub[t] = "new" /\ Quiet(Send(t))
        BY <2>1 DEF SendIdle, SendBusy, SendRefuse, QuietThreads
      <3> QED
        BY <2>1, <3>1, EventsUntouched
           DEF SendIdle, SendNow, SendBusy, SendQueued, SendRefuse, SendRefused,
               rtVars, acpxVars
    <2>2. CASE Submit(t) \/ TryLock(t) \/ FinishSubmit(t)
      <3>1. Quiet(Send(t))
        BY <2>2 DEF Submit, TryLock, FinishSubmit, QuietThreads
      <3> QED
        BY <2>2, <3>1, EventsUntouched
           DEF Submit, TryLock, LockPrompt, PromptBusy, FinishSubmit,
               SubmitReturned, rtVars, acpxVars
    <2>3. CASE SelectionFails(t)
      BY <2>3 DEF SelectionFails, Uninterrupted
    <2>4. CASE BeginTurn(t)
      <3>1. /\ sub' = [sub EXCEPT ![t] = "starting"]
            /\ ev' = [ev EXCEPT ![Send(t)] = Emitted("turn_started", t)]
            /\ prompt' = prompt /\ ask' = ask /\ phase' = phase
            /\ sinkClosed' = sinkClosed
            /\ Quiet(Send(t))
        BY <2>4 DEF BeginTurn, SetTurn, rtVars, QuietThreads
      <3>2. SendEvent(t)'
        BY <3>1 DEF SendEvent, Emitted
      <3> QED
        BY <3>1, <3>2, EventsKept, SMTT(60)
    <2>5. CASE LaunchPrompt(t)
      <3>1. Quiet(Send(t)) /\ Quiet(Prompt(t))
        BY <2>5 DEF LaunchPrompt, LockDiscipline, EventOwners, PromptEvent
      <3> QED
        BY <2>5, <3>1, EventsUntouched DEF LaunchPrompt, StartPrompt, rtVars
    <2>6. CASE Fail(t)
      <3>1. /\ sub' = [sub EXCEPT ![t] = "failed"]
            /\ ev' = [ev EXCEPT ![Send(t)] = Emitted("terminal", None)]
            /\ prompt' = prompt /\ ask' = ask /\ phase' = phase
            /\ sinkClosed' = sinkClosed
            /\ Quiet(Send(t)) /\ sinkClosed
        BY <2>6 DEF Fail, FailSubmission, acpxVars, QuietThreads, Closing
      <3>2. SendEvent(t)'
        BY <3>1 DEF SendEvent, Emitted
      <3> QED
        BY <3>1, <3>2, EventsKept, SMTT(60)
    <2>7. CASE FinishFail(t)
      BY <2>7, EventsUntouched DEF FinishFail, rtVars, acpxVars
    <2>8. CASE PromptReturns(t)
      <3>1. Quiet(Prompt(t))
        BY <2>8 DEF PromptReturns, FinishTurn, EventOwners, PromptEvent
      <3> QED
        BY <2>8, <3>1, EventsUntouched DEF PromptReturns, FinishTurn, rtVars, sysVars
    <2>9. CASE PromptUnlocks(t)
      <3>1. /\ Quiet(Prompt(t))
            /\ sub' = sub /\ ask' = ask /\ phase' = phase /\ sinkClosed' = sinkClosed
            /\ \A u \in Turns : u # t => prompt'[u] = prompt[u]
            /\ prompt[t] \in {"ending", "muted"}
        BY <2>9 DEF PromptUnlocks, ReleasePrompt, EventOwners, PromptEvent, rtVars
      <3>2. CASE prompt[t] = "ending"
        <4>1. /\ ev' = [ev EXCEPT ![Prompt(t)] = Emitted("terminal", t)]
              /\ prompt'[t] = "emitting"
          BY <2>9, <3>2 DEF PromptUnlocks, ReleasePrompt
        <4>2. PromptEvent(t)'
          BY <4>1 DEF PromptEvent, Emitted
        <4> QED
          BY <3>1, <4>1, <4>2, EventsKept
      <3>3. CASE prompt[t] # "ending"
        BY <2>9, <3>1, <3>3, EventsUntouched DEF PromptUnlocks
      <3> QED
        BY <3>2, <3>3
    <2>10. CASE PromptOver(t)
      BY <2>10, EventsUntouched DEF PromptOver, PromptDone, rtVars, sysVars
    <2>11. CASE AskHost(t)
      <3>1. /\ ask' = [ask EXCEPT ![t] = "open"]
            /\ ev' = [ev EXCEPT ![Ask(t)] = Emitted("interaction_requested", t)]
            /\ prompt' = prompt /\ sub' = sub /\ phase' = phase
            /\ sinkClosed' = sinkClosed
            /\ Quiet(Ask(t))
        BY <2>11 DEF AskHost, AwaitInteraction, rtVars, QuietThreads
      <3>2. AskEvent(t)'
        BY <3>1 DEF AskEvent, Emitted
      <3> QED
        BY <3>1, <3>2, EventsKept
    <2>12. CASE AskAnswered(t)
      BY <2>12, EventsUntouched DEF AskAnswered, RemoveInteraction, rtVars
    <2> QED
      BY <1>1, <2>1, <2>2, <2>3, <2>4, <2>5, <2>6, <2>7, <2>8, <2>9, <2>10,
         <2>11, <2>12 DEF TurnStep
  <1>2. ASSUME NEW c \in Callers, CallStep(c) PROVE EventOwners'
    <2>1. CASE CloseFinish(c)
      <3>1. \A t \in Turns : sub'[t] = sub[t] \/ Quiet(Send(t))
        BY <2>1 DEF CloseFinish, QuietThreads
      <3> QED
        BY <2>1, <3>1, EventsUntouched DEF CloseFinish, FinishClose, acpxVars
    <2>2. CASE Interrupt(c) \/ InterruptActive(c) \/ InterruptRead(c)
               \/ InterruptCancel(c) \/ InterruptTake(c) \/ InterruptWait(c)
               \/ InterruptCheck(c)
      BY <2>2, NotInterrupting
    <2>3. CASE (\E t \in Turns : Respond(c, t)) \/ Return(c)
      BY <2>3, EventsUntouched DEF Respond, BeginRespond, Return, rtVars, acpxVars
    <2>4. CASE RespondAdapter(c) \/ RespondCheck(c)
      <3>1. /\ sub' = sub /\ ask' = ask /\ phase' = phase /\ prompt' = prompt
            /\ sinkClosed' = sinkClosed
        BY <2>4 DEF RespondAdapter, TakeInteraction, RespondRejected,
                    RespondCheck, rtVars, acpxVars
      <3>2. CASE UNCHANGED ev
        BY <3>1, <3>2, EventsUntouched
      <3>3. CASE ev' = [ev EXCEPT ![Call(c)] = Emitted("interaction_resolved", cturn[c])]
        <4>1. CallEvent(c)'
          BY <3>3 DEF CallEvent, Emitted
        <4> QED
          BY <3>1, <3>3, <4>1, EventsKept
      <3> QED
        BY <2>4, <3>2, <3>3 DEF RespondAdapter, RespondCheck
    <2>5. CASE Close(c) \/ CloseAdapter(c) \/ CloseLog(c)
      BY <2>5, EventsUntouched
         DEF Close, CloseSink, CloseAdapter, StopSession, CloseLog,
             AppendRecord, rtVars, acpxVars
    <2> QED
      BY <1>2, <2>1, <2>2, <2>3, <2>4, <2>5 DEF CallStep
  <1>3. ASSUME NEW th \in Threads, DeliveryStep(th) PROVE EventOwners'
    <2>1. /\ sub' = sub /\ ask' = ask /\ phase' = phase /\ prompt' = prompt
          /\ sinkClosed' = sinkClosed
          /\ \A x \in Threads : x # th => ev'[x] = ev[x]
          /\ ~Quiet(th)
      BY <1>3 DEF DeliveryStep, Deliver, Apply, Record, ApplyTurnStarted,
                  ApplyTerminal, ApplyInteractionRequested, Quiet, NoEvent,
                  ApplyInteractionResolved, AppendRecord, rtVars, acpxVars
    <2>2. ev[th] \in Events
      BY <2>1 DEF Quiet
    <2>3. \/ ev'[th] = NoEvent
          \/ /\ ev'[th].kind = ev[th].kind
             /\ ev[th].turn # None => ev'[th].turn = ev[th].turn
             /\ ~(ev[th].pc = "raw" /\ sinkClosed)
      <3>1. CASE Deliver(th)
        BY <2>2, <3>1 DEF Deliver, Events, StampedTurn
      <3>2. CASE Apply(th)
        BY <2>2, <3>2 DEF Apply, Events
      <3>3. CASE Record(th)
        BY <2>2, <3>3 DEF Record, Events
      <3> QED
        BY <1>3, <3>1, <3>2, <3>3 DEF DeliveryStep
    <2> USE DEF EventOwners, Quiet
    <2>4. ASSUME NEW t \in Turns, th = Prompt(t) PROVE PromptEvent(t)'
      BY <2>1, <2>3, <2>4 DEF PromptEvent
    <2>5. ASSUME NEW t \in Turns, th = Send(t) PROVE SendEvent(t)'
      BY <2>1, <2>3, <2>5 DEF SendEvent
    <2>6. ASSUME NEW t \in Turns, th = Ask(t) PROVE AskEvent(t)'
      BY <2>1, <2>3, <2>6 DEF AskEvent
    <2>7. ASSUME NEW c \in Callers, th = Call(c) PROVE CallEvent(c)'
      BY <2>1, <2>3, <2>7 DEF CallEvent
    <2>8. ASSUME th = Boot PROVE BootEvent'
      BY <2>1, <2>3, <2>8 DEF BootEvent
    <2> HIDE DEF EventOwners
    <2> QED
      BY <2>1, <2>4, <2>5, <2>6, <2>7, <2>8, EventsKept
  <1>4. ASSUME NEW i \in 1..Len(queue), RemoveQueuedTurn(i) PROVE EventOwners'
    <2>1. sub[queue[i]] = "queued" /\ queue[i] \in Turns
      BY QueuedEntry
    <2>2. \A t \in Turns : sub'[t] = sub[t] \/ Quiet(Send(t))
      BY <1>4, <2>1 DEF RemoveQueuedTurn, QuietThreads
    <2> QED
      BY <1>4, <2>2, EventsUntouched DEF RemoveQueuedTurn, RemoveQueued, acpxVars
  <1>5. CASE Block \/ Unblock
    BY <1>5, EventsUntouched
       DEF Block, BlockDispatch, Unblock, UnblockDispatch, acpxVars, sysVars
  <1>6. CASE DispatchQueued
    <2>1. CASE UNCHANGED sub
      BY <1>6, <2>1, EventsUntouched
         DEF DispatchQueued, DispatchNothing, DispatchHead, rtVars, acpxVars
    <2>2. CASE DispatchHead /\ sub' = [sub EXCEPT ![Head(queue)] = "submit"]
      <3>1. sub[Head(queue)] = "queued" /\ Head(queue) \in Turns
        BY <2>2, QueuedHead DEF DispatchHead, ReadyToDispatch
      <3>2. \A t \in Turns : sub'[t] = sub[t] \/ Quiet(Send(t))
        BY <2>2, <3>1 DEF QuietThreads
      <3> QED
        BY <1>6, <2>2, <3>2, EventsUntouched DEF DispatchQueued, DispatchHead, acpxVars
    <2> QED
      BY <1>6, <2>1, <2>2 DEF DispatchQueued
  <1>7. CASE Crash
    <2>1. \A th \in Threads : th # Boot => ev'[th] = NoEvent
      BY <1>7 DEF Crash
    <2>2. ev'[Boot] = Reconcile(image).event /\ phase' = Reconcile(image).phase
      BY <1>7 DEF Crash
    <2>3. BootEvent'
      BY <2>2 DEF BootEvent, Reconcile, Emitted, Quiet
    <2> QED
      BY <2>1, <2>3 DEF EventOwners, PromptEvent, SendEvent, AskEvent, CallEvent, Quiet
  <1>8. CASE ReconcileFail
    <2>1. /\ sub' = sub /\ ask' = ask /\ prompt' = prompt /\ Quiet(Boot)
          /\ sinkClosed' = sinkClosed
          /\ ev' = [ev EXCEPT ![Boot] = Emitted("terminal", activeTurn)]
          /\ phase' = "fail"
      BY <1>8 DEF ReconcileFail, rtVars, acpxVars
    <2>2. BootEvent'
      BY <2>1 DEF BootEvent, Emitted
    <2> QED
      BY <2>1, <2>2, EventsKept
  <1>9. CASE ReconcileDone
    BY <1>9, EventsUntouched DEF ReconcileDone, rtVars, acpxVars
  <1> QED
    BY <1>1, <1>2, <1>3, <1>4, <1>5, <1>6, <1>7, <1>8, <1>9 DEF Next

-----------------------------------------------------------------------------
(* Closing and restarting.                                                 *)

\* A step outside Close and Crash, taken while the host is up.
LEMMA ClosingKept ==
    ASSUME Closing, Up, UNCHANGED <<phase, registered, sinkClosed, cancelled>>,
           Closed => Closed',
           \A t \in Turns : sub'[t] = "failing" => sub[t] = "failing" \/ sinkClosed,
           \A c \in Callers :
              \/ cpc'[c] = cpc[c]
              \/ cpc'[c] \in {"idle", "resp_call", "resp_check", "return"}
    PROVE  Closing'
  BY DEF Closing, Up

\* Every step, as far as closing goes.
LEMMA ClosingNext ==
    ASSUME Uninterrupted, SafetyInv, ClosedAgree, OwnerInv, Next
    PROVE  Closing'
  <1> USE NoneAssumption, ThreadNames, ThreadsDiffer
      DEF SafetyInv, TypeOK, SystemTypeOK, AcpxTypeOK, OwnerInv
  <1>1. ASSUME NEW t \in Turns, TurnStep(t) PROVE Closing'
    <2>1. CASE SendIdle(t) \/ SendBusy(t) \/ SendRefuse(t)
      <3>1. Up /\ UNCHANGED <<phase, registered, cancelled, sinkClosed, status, cpc>>
        BY <2>1 DEF SendIdle, SendNow, SendBusy, SendQueued, SendRefuse,
                    SendRefused, rtVars, acpxVars, callVars
      <3>2. \A u \in Turns : sub'[u] = "failing" => sub[u] = "failing"
        BY <2>1 DEF SendIdle, SendBusy, SendRefuse
      <3> QED
        BY <3>1, <3>2, ClosingKept DEF Closed
    <2>2. CASE Submit(t)
      <3>1. Owns(t)
        BY <2>2 DEF Submit, Owns
      <3>2. Up /\ (~registered => sinkClosed)
        BY <3>1 DEF OwnerKnown, Closing
      <3>3. UNCHANGED <<phase, registered, cancelled, sinkClosed, status, cpc>>
        BY <2>2 DEF Submit, rtVars, acpxVars, callVars
      <3>4. \A u \in Turns : sub'[u] = "failing" => sub[u] = "failing" \/ sinkClosed
        BY <2>2, <3>2 DEF Submit, Uninterrupted
      <3> QED
        BY <3>2, <3>3, <3>4, ClosingKept DEF Closed
    <2>3. CASE TryLock(t)
      <3>1. Owns(t) /\ sub[t] = "trylock"
        BY <2>3 DEF TryLock, Owns
      <3>2. Up /\ promptMu = None
        <4>1. ASSUME NEW u \in Turns, promptMu = u PROVE FALSE
          <5>1. Owns(u)
            BY <4>1 DEF OwnerLocked, Owns
          <5>2. u = t
            BY <3>1, <5>1 DEF OneOwner
          <5> QED
            BY <3>1, <4>1, <5>2 DEF OwnerLocked, LockDiscipline
        <4> QED
          BY <3>1, <4>1 DEF OwnerKnown, MaybeTurn
      <3>3. UNCHANGED <<phase, registered, cancelled, sinkClosed, status, cpc>>
        BY <2>3 DEF TryLock, LockPrompt, PromptBusy, rtVars, acpxVars, callVars
      <3>4. \A u \in Turns : sub'[u] = "failing" => sub[u] = "failing"
        BY <2>3, <3>2 DEF TryLock, PromptBusy
      <3> QED
        BY <3>2, <3>3, <3>4, ClosingKept DEF Closed
    <2>4. CASE SelectionFails(t)
      BY <2>4 DEF SelectionFails, Uninterrupted
    <2>5. CASE BeginTurn(t) \/ LaunchPrompt(t) \/ PromptReturns(t)
      <3>1. Owns(t)
        BY <2>5 DEF BeginTurn, LaunchPrompt, PromptReturns, FinishTurn, Owns
      <3>2. Up
        BY <3>1 DEF OwnerKnown
      <3>3. UNCHANGED <<phase, registered, cancelled, sinkClosed, status, cpc>>
        BY <2>5 DEF BeginTurn, SetTurn, LaunchPrompt, StartPrompt, PromptReturns,
                    FinishTurn, rtVars, callVars, sysVars
      <3>4. \A u \in Turns : sub'[u] = "failing" => sub[u] = "failing"
        BY <2>5 DEF BeginTurn, LaunchPrompt, PromptReturns, sysVars
      <3> QED
        BY <3>2, <3>3, <3>4, ClosingKept DEF Closed
    <2>6. CASE PromptUnlocks(t)
      <3>1. Owns(t)
        BY <2>6 DEF PromptUnlocks, ReleasePrompt, Owns, OwnerLocked
      <3>2. Up
        BY <3>1 DEF OwnerKnown
      <3>3. UNCHANGED <<phase, registered, cancelled, sinkClosed, status, cpc, sub>>
        BY <2>6 DEF PromptUnlocks, ReleasePrompt, rtVars, callVars
      <3> QED
        BY <3>2, <3>3, ClosingKept DEF Closed
    <2>7. CASE Fail(t)
      <3>1. Owns(t)
        BY <2>7 DEF Fail, Owns
      <3>2. Up
        BY <3>1 DEF OwnerKnown
      <3>3. UNCHANGED <<phase, registered, cancelled, sinkClosed, cpc>> /\ (Closed => Closed')
        BY <2>7 DEF Fail, FailSubmission, acpxVars, callVars, Closed
      <3>4. \A u \in Turns : sub'[u] = "failing" => sub[u] = "failing"
        BY <2>7 DEF Fail
      <3> QED
        BY <3>2, <3>3, <3>4, ClosingKept
    <2>8. CASE FinishSubmit(t) \/ FinishFail(t) \/ PromptOver(t) \/ AskAnswered(t)
      <3>1. /\ UNCHANGED <<phase, registered, cancelled, sinkClosed, status, cpc, queue, ev>>
        BY <2>8 DEF FinishSubmit, SubmitReturned, FinishFail, PromptOver, PromptDone,
                    AskAnswered, RemoveInteraction, rtVars, acpxVars, callVars, sysVars
      <3>2. \A u \in Turns : sub'[u] = "failing" => sub[u] = "failing"
        BY <2>8 DEF FinishSubmit, FinishFail, PromptOver, AskAnswered, sysVars
      <3> QED
        BY <3>1, <3>2 DEF Closing, Closed, Up, Quiet
    <2>9. CASE AskHost(t)
      <3>1. Up
        BY <2>9 DEF AskHost, OwnerKnown, Owns, Closing
      <3> QED
        BY <2>9, <3>1, ClosingKept DEF AskHost, AwaitInteraction, rtVars, callVars, Closed
    <2> QED
      BY <1>1, <2>1, <2>2, <2>3, <2>4, <2>5, <2>6, <2>7, <2>8, <2>9 DEF TurnStep
  <1>2. ASSUME NEW c \in Callers, CallStep(c) PROVE Closing'
    <2>1. Up
      <3>1. CASE cpc[c] # "idle"
        BY <3>1 DEF Closing
      <3>2. CASE cpc[c] = "idle"
        BY <1>2, <3>2
           DEF CallStep, Step, Interrupt, InterruptActive, InterruptRead,
               InterruptCancel, InterruptTake, InterruptWait, InterruptCheck,
               Respond, RespondAdapter, RespondCheck, Close, CloseAdapter,
               CloseFinish, CloseLog, Return
      <3> QED
        BY <3>1, <3>2
    <2> USE DEF Step
    <2>2. CASE Interrupt(c) \/ InterruptActive(c) \/ InterruptRead(c)
               \/ InterruptCancel(c) \/ InterruptTake(c) \/ InterruptWait(c)
               \/ InterruptCheck(c)
      BY <2>2, NotInterrupting
    <2>3. CASE (\E t \in Turns : Respond(c, t)) \/ RespondAdapter(c)
               \/ RespondCheck(c) \/ Return(c)
      <3>1. UNCHANGED <<phase, registered, cancelled, sinkClosed, sub>> /\ (Closed => Closed')
        BY <2>3 DEF Respond, BeginRespond, RespondAdapter, TakeInteraction,
                    RespondRejected, RespondCheck, Return, rtVars, acpxVars, Closed
      <3>2. \A d \in Callers :
              \/ cpc'[d] = cpc[d]
              \/ cpc'[d] \in {"idle", "resp_call", "resp_check", "return"}
        BY <2>3 DEF Respond, RespondAdapter, RespondCheck, Return
      <3> QED
        BY <2>1, <3>1, <3>2, ClosingKept
    <2>4. CASE Close(c)
      BY <2>1, <2>4 DEF Close, CloseSink, acpxVars, Closing, Closed, Up
    <2>5. CASE CloseAdapter(c)
      <3>1. UNCHANGED <<phase, sinkClosed, status, sub>> /\ sinkClosed
        BY <2>5 DEF CloseAdapter, rtVars, Closing
      <3>2. cpc' = [cpc EXCEPT ![c] = "close_finish"] \/ cpc' = [cpc EXCEPT ![c] = "idle"]
        BY <2>5 DEF CloseAdapter
      <3> QED
        BY <2>1, <3>1, <3>2 DEF Closing, Closed, Up
    <2>6. CASE CloseFinish(c)
      <3>1. /\ UNCHANGED <<phase, sinkClosed, cancelled, registered>> /\ sinkClosed
            /\ cpc' = [cpc EXCEPT ![c] = "close_log"]
        BY <2>6 DEF CloseFinish, FinishClose, acpxVars, Closing
      <3>2. \A u \in Turns : sub'[u] = "failing" => sub[u] = "failing"
        BY <2>6 DEF CloseFinish
      <3> QED
        BY <2>1, <3>1, <3>2 DEF Closing, Up
    <2>7. CASE CloseLog(c)
      BY <2>1, <2>7, ClosingKept DEF CloseLog, AppendRecord, acpxVars, rtVars, Closed
    <2> QED
      BY <1>2, <2>2, <2>3, <2>4, <2>5, <2>6, <2>7 DEF CallStep
  <1>3. ASSUME NEW th \in Threads, DeliveryStep(th) PROVE Closing'
    <2>1. UNCHANGED <<phase, registered, cancelled, sinkClosed, sub, cpc, queue>>
      BY <1>3 DEF DeliveryStep, Deliver, Apply, Record, ApplyTurnStarted,
                  ApplyTerminal, ApplyInteractionRequested, callVars,
                  ApplyInteractionResolved, AppendRecord, rtVars, acpxVars
    <2>2. Closed => Closed'
      BY <1>3 DEF DeliveryStep, Deliver, Apply, Record, ApplyTurnStarted,
                  ApplyTerminal, ApplyInteractionRequested, Closed,
                  ApplyInteractionResolved, AppendRecord, rtVars
    <2>3. ~Quiet(th) /\ \A x \in Threads : x # th => ev'[x] = ev[x]
      BY <1>3 DEF DeliveryStep, Deliver, Apply, Record, Quiet, NoEvent
    <2> QED
      BY <2>1, <2>2, <2>3 DEF Closing, Up, Quiet
  <1>4. ASSUME NEW i \in 1..Len(queue), RemoveQueuedTurn(i) PROVE Closing'
    <2>1. Up
      BY <1>4 DEF RemoveQueuedTurn
    <2>2. queue[i] \in Turns
      BY QueuedEntry
    <2> QED
      BY <1>4, <2>1, <2>2, ClosingKept
         DEF RemoveQueuedTurn, RemoveQueued, acpxVars, callVars, Closed
  <1>5. CASE Block \/ Unblock
    BY <1>5, ClosingKept
       DEF Block, BlockDispatch, Unblock, UnblockDispatch, acpxVars, sysVars,
           callVars, Closed
  <1>6. CASE DispatchQueued
    <2>1. CASE DispatchNothing /\ UNCHANGED <<sub, dequeued>>
      BY <1>6, <2>1
         DEF DispatchQueued, DispatchNothing, rtVars, acpxVars, callVars,
             Closing, Closed, Up, Quiet
    <2>2. CASE DispatchHead /\ sub' = [sub EXCEPT ![Head(queue)] = "submit"]
      <3>1. Up
        BY <2>2 DEF DispatchHead, ReadyToDispatch, Closing
      <3>2. Head(queue) \in Turns
        BY <2>2, QueuedHead DEF DispatchHead, ReadyToDispatch
      <3> QED
        BY <1>6, <2>2, <3>1, <3>2, ClosingKept
           DEF DispatchQueued, DispatchHead, acpxVars, callVars, Closed
    <2> QED
      BY <1>6, <2>1, <2>2 DEF DispatchQueued
  <1>7. CASE Crash
    <2>1. /\ ~sinkClosed' /\ queue' = << >> /\ cancelled' = {}
          /\ registered' <=> ~Closed'
          /\ \A c \in Callers : cpc'[c] = "idle"
          /\ \A t \in Turns : sub'[t] # "failing"
          /\ \A th \in Threads : th # Boot => ev'[th] = NoEvent
      BY <1>7 DEF Crash, InsertRestored, Reopen, Closed
    <2> QED
      BY <2>1 DEF Closing, Quiet
  <1>8. CASE ReconcileFail \/ ReconcileDone
    <2>1. UNCHANGED <<registered, cancelled, sinkClosed, status, sub, cpc, queue>> /\ ~Up
      BY <1>8 DEF ReconcileFail, ReconcileDone, rtVars, acpxVars, callVars, Up
    <2>2. \A th \in Threads : th # Boot => ev'[th] = ev[th]
      BY <1>8 DEF ReconcileFail, ReconcileDone
    <2> QED
      BY <2>1, <2>2 DEF Closing, Closed, Quiet
  <1> QED
    BY <1>1, <1>2, <1>3, <1>4, <1>5, <1>6, <1>7, <1>8 DEF Next

-----------------------------------------------------------------------------
(* One owner, whom the runtime knows.                                      *)

\* What makes a turn the owner, left alone.
LEMMA OwnsSame ==
    ASSUME NEW u \in Turns, sub'[u] = sub[u], prompt'[u] = prompt[u],
           ev'[Prompt(u)] = ev[Prompt(u)], ev'[Send(u)] = ev[Send(u)]
    PROVE  (Owns(u)' <=> Owns(u)) /\ (Unstarted(u)' <=> Unstarted(u))
  BY DEF Owns, Unstarted, Delivering

\* A turn gets the session only when the runtime sees it idle.
NewOwners == \A u \in Turns : Owns(u)' => Owns(u) \/ (Idle /\ ~Closed)

\* A step that makes no turn the owner and leaves the runtime's own view of
\* the turn alone.
LEMMA OwnersKept ==
    ASSUME OneOwner, OwnerKnown,
           UNCHANGED <<phase, active, dispatching, activeTurn>>,
           Closed' <=> Closed, sinkClosed => sinkClosed',
           \A u \in Turns :
              Owns(u)' => /\ Owns(u)
                          /\ Unstarted(u)' => Unstarted(u)
                          /\ Unstarted(u) => Unstarted(u)' \/ sinkClosed'
    PROVE  OneOwner' /\ OwnerKnown' /\ NewOwners
  <1>1. OneOwner'
    BY DEF OneOwner
  <1>2. OwnerKnown'
    BY DEF OwnerKnown, Up
  <1> QED
    BY <1>1, <1>2 DEF NewOwners

\* A step after which no turn has the session.
LEMMA OwnersGone ==
    ASSUME \A u \in Turns : ~Owns(u)'
    PROVE  OneOwner' /\ OwnerKnown' /\ NewOwners
  BY DEF OneOwner, OwnerKnown, NewOwners

\* The runtime hands an idle session to a turn.
LEMMA OwnerDispatched ==
    ASSUME OneOwner, OwnerKnown, Idle, ~Closed, Up, NEW t \in Turns,
           \A u \in Turns : u # t => (Owns(u)' <=> Owns(u)),
           sub'[t] = "submit", UNCHANGED <<phase, status>>, dispatching', ~active'
    PROVE  OneOwner' /\ OwnerKnown' /\ NewOwners
  <1>1. \A u \in Turns : Owns(u)' => u = t
    BY DEF OwnerKnown, Idle
  <1>2. Unstarted(t)' /\ ~Closed' /\ Up'
    BY DEF Unstarted, Closed, Up
  <1> QED
    BY <1>1, <1>2 DEF OneOwner, OwnerKnown, NewOwners

\* A session has one owner after every step, and the runtime knows it.
LEMMA OwnersNext ==
    ASSUME Uninterrupted, SafetyInv, QuietThreads, OwnerInv, Next
    PROVE  OneOwner' /\ OwnerKnown' /\ NewOwners
  <1> DEFINE Goal == OneOwner' /\ OwnerKnown' /\ NewOwners
  <1> SUFFICES Goal
    OBVIOUS
  <1> USE NoneAssumption, ThreadNames, ThreadsDiffer
      DEF SafetyInv, TypeOK, SystemTypeOK, AcpxTypeOK, OwnerInv
  <1>1. ASSUME NEW t \in Turns, TurnStep(t) PROVE Goal
    <2>1. CASE SendIdle(t)
      <3>1. /\ Idle /\ ~Closed /\ Up /\ sub'[t] = "submit"
            /\ UNCHANGED <<phase, status>> /\ dispatching' /\ ~active'
        BY <2>1 DEF SendIdle, SendNow
      <3>2. \A u \in Turns : u # t => (Owns(u)' <=> Owns(u))
        BY <2>1, OwnsSame DEF SendIdle, acpxVars
      <3> QED
        BY <3>1, <3>2, OwnerDispatched
    <2>2. CASE SendBusy(t) \/ SendRefuse(t)
      <3>1. UNCHANGED <<phase, active, dispatching, activeTurn, status, sinkClosed, prompt, ev>>
        BY <2>2 DEF SendBusy, SendQueued, SendRefuse, SendRefused, rtVars, acpxVars
      <3>2. \A u \in Turns : u # t => sub'[u] = sub[u]
        BY <2>2 DEF SendBusy, SendRefuse
      <3>3. sub'[t] \in {"queued", "refused"}
        BY <2>2 DEF SendBusy, SendRefuse
      <3>4. \A u \in Turns : Owns(u)' => Owns(u) /\ (Unstarted(u)' <=> Unstarted(u))
        BY <3>1, <3>2, <3>3, <2>2, OwnsSame DEF SendBusy, SendRefuse, LockDiscipline, Owns, Delivering
      <3> QED
        BY <3>1, <3>4, OwnersKept DEF Closed
    <2>3. CASE Submit(t) \/ TryLock(t) \/ BeginTurn(t)
      <3>1. UNCHANGED <<phase, active, dispatching, activeTurn, status, sinkClosed, prompt>>
        BY <2>3 DEF Submit, TryLock, LockPrompt, PromptBusy, BeginTurn, SetTurn,
                    rtVars, acpxVars
      <3>2. \A u \in Turns : u # t => (Owns(u)' <=> Owns(u)) /\ (Unstarted(u)' <=> Unstarted(u))
        BY <2>3, <3>1, OwnsSame DEF Submit, TryLock, BeginTurn
      <3>3. Owns(t) /\ Unstarted(t)
        BY <2>3 DEF Submit, TryLock, BeginTurn, Owns, Unstarted
      <3>4. Unstarted(t)'
        BY <2>3 DEF Submit, TryLock, BeginTurn, Unstarted, Delivering, Emitted
      <3> QED
        BY <3>1, <3>2, <3>3, <3>4, OwnersKept DEF Closed
    <2>4. CASE SelectionFails(t)
      BY <2>4 DEF SelectionFails, Uninterrupted
    <2>5. CASE LaunchPrompt(t)
      <3>1. UNCHANGED <<phase, active, dispatching, activeTurn, status, sinkClosed, ev>>
        BY <2>5 DEF LaunchPrompt, rtVars
      <3>2. \A u \in Turns : u # t => (Owns(u)' <=> Owns(u)) /\ (Unstarted(u)' <=> Unstarted(u))
        BY <2>5, <3>1, OwnsSame DEF LaunchPrompt, StartPrompt
      <3>3. Owns(t) /\ ~Unstarted(t) /\ ~Unstarted(t)'
        BY <2>5 DEF LaunchPrompt, Owns, Unstarted, Delivering, Quiet, NoEvent
      <3> QED
        BY <3>1, <3>2, <3>3, OwnersKept DEF Closed
    <2>6. CASE FinishSubmit(t) \/ FinishFail(t)
      <3>1. UNCHANGED <<phase, active, dispatching, activeTurn, status, sinkClosed, ev, prompt>>
        BY <2>6 DEF FinishSubmit, SubmitReturned, FinishFail, rtVars, acpxVars
      <3>2. \A u \in Turns : u # t => (Owns(u)' <=> Owns(u)) /\ (Unstarted(u)' <=> Unstarted(u))
        BY <2>6, <3>1, OwnsSame DEF FinishSubmit, FinishFail
      <3>3. (Owns(t)' => Owns(t)) /\ ~Unstarted(t) /\ ~Unstarted(t)'
        BY <2>6, <3>1 DEF FinishSubmit, FinishFail, Owns, Unstarted, Delivering
      <3> QED
        BY <3>1, <3>2, <3>3, OwnersKept DEF Closed
    <2>7. CASE Fail(t)
      <3>1. Owns(t)
        BY <2>7 DEF Fail, Owns
      <3>2. \A u \in Turns : u # t => ~Owns(u) /\ (Owns(u)' <=> Owns(u))
        BY <2>7, <3>1, OwnsSame DEF Fail, acpxVars, OneOwner
      <3>3. ~Owns(t)'
        BY <2>7 DEF Fail, acpxVars, Owns, OwnerLocked
      <3> QED
        BY <3>2, <3>3, OwnersGone
    <2>8. CASE PromptReturns(t) \/ PromptUnlocks(t) \/ PromptOver(t)
      <3>1. UNCHANGED <<phase, active, dispatching, activeTurn, status, sinkClosed, sub>>
        BY <2>8 DEF PromptReturns, PromptUnlocks, PromptOver, rtVars, sysVars
      <3>2. \A u \in Turns : u # t => (Owns(u)' <=> Owns(u)) /\ (Unstarted(u)' <=> Unstarted(u))
        BY <2>8, <3>1, OwnsSame
           DEF PromptReturns, FinishTurn, PromptUnlocks, ReleasePrompt,
               PromptOver, PromptDone, sysVars
      <3>3. Unstarted(t)' <=> Unstarted(t)
        BY <2>8, <3>1 DEF PromptReturns, PromptUnlocks, PromptOver, sysVars,
                          Unstarted, Delivering
      <3>4. Owns(t)' => Owns(t)
        BY <2>8, <3>1 DEF PromptReturns, FinishTurn, PromptUnlocks, ReleasePrompt,
               PromptOver, PromptDone, sysVars, Owns, OwnerLocked
      <3> QED
        BY <3>1, <3>2, <3>3, <3>4, OwnersKept DEF Closed
    <2>9. CASE AskHost(t) \/ AskAnswered(t)
      <3>1. UNCHANGED <<phase, active, dispatching, activeTurn, status, sinkClosed, sub, prompt>>
        BY <2>9 DEF AskHost, AwaitInteraction, AskAnswered, RemoveInteraction, rtVars
      <3>2. \A u \in Turns : (Owns(u)' <=> Owns(u)) /\ (Unstarted(u)' <=> Unstarted(u))
        BY <2>9, <3>1, OwnsSame DEF AskHost, AskAnswered
      <3> QED
        BY <3>1, <3>2, OwnersKept DEF Closed
    <2> QED
      BY <1>1, <2>1, <2>2, <2>3, <2>4, <2>5, <2>6, <2>7, <2>8, <2>9 DEF TurnStep
  <1>2. ASSUME NEW c \in Callers, CallStep(c) PROVE Goal
    <2>1. CASE CloseFinish(c)
      <3>1. UNCHANGED <<phase, sinkClosed, ev, prompt>> /\ Closed' /\ sinkClosed
        BY <2>1 DEF CloseFinish, FinishClose, acpxVars, Closed, Closing, Step
      <3>2. \A u \in Turns : Owns(u)' => Owns(u)
        BY <2>1, <3>1 DEF CloseFinish, Owns, Delivering
      <3> QED
        BY <3>1, <3>2 DEF OneOwner, OwnerKnown, NewOwners, Up
    <2>2. CASE Interrupt(c) \/ InterruptActive(c) \/ InterruptRead(c)
               \/ InterruptCancel(c) \/ InterruptTake(c) \/ InterruptWait(c)
               \/ InterruptCheck(c)
      BY <2>2, NotInterrupting
    <2>3. CASE (\E t \in Turns : Respond(c, t)) \/ RespondAdapter(c)
               \/ RespondCheck(c) \/ Return(c)
      <3>1. /\ UNCHANGED <<phase, active, dispatching, activeTurn, sinkClosed, sub, prompt>>
            /\ Closed' <=> Closed
        BY <2>3 DEF Respond, BeginRespond, RespondAdapter, TakeInteraction,
                    RespondRejected, RespondCheck, Return, rtVars, acpxVars, Closed
      <3>2. \A u \in Turns : ev'[Prompt(u)] = ev[Prompt(u)] /\ ev'[Send(u)] = ev[Send(u)]
        BY <2>3 DEF Respond, RespondAdapter, RespondCheck, Return
      <3>3. \A u \in Turns : (Owns(u)' <=> Owns(u)) /\ (Unstarted(u)' <=> Unstarted(u))
        BY <3>1, <3>2, OwnsSame
      <3> QED
        BY <3>1, <3>3, OwnersKept
    <2>4. CASE Close(c) \/ CloseAdapter(c) \/ CloseLog(c)
      <3>1. /\ UNCHANGED <<phase, active, dispatching, activeTurn, sub, prompt, ev, status>>
            /\ sinkClosed => sinkClosed'
        BY <2>4 DEF Close, CloseSink, CloseAdapter, StopSession, CloseLog,
                    AppendRecord, rtVars, acpxVars
      <3>2. \A u \in Turns : (Owns(u)' <=> Owns(u)) /\ (Unstarted(u)' <=> Unstarted(u))
        BY <3>1, OwnsSame
      <3> QED
        BY <3>1, <3>2, OwnersKept DEF Closed
    <2> QED
      BY <1>2, <2>1, <2>2, <2>3, <2>4 DEF CallStep
  <1>3. ASSUME NEW th \in Threads, DeliveryStep(th) PROVE Goal
    <2>1. UNCHANGED <<phase, sub, prompt, sinkClosed>>
      BY <1>3 DEF DeliveryStep, Deliver, Apply, Record, ApplyTurnStarted,
                  ApplyTerminal, ApplyInteractionRequested, rtVars, acpxVars,
                  ApplyInteractionResolved, AppendRecord
    <2>2. \A x \in Threads : x # th => ev'[x] = ev[x]
      BY <1>3 DEF DeliveryStep, Deliver, Apply, Record
    <2>3. ASSUME UNCHANGED <<active, dispatching, activeTurn>>, Closed' <=> Closed,
                 Delivering(th)' => Delivering(th),
                 Delivering(th) => Delivering(th)' \/ sinkClosed'
                                   \/ \A u \in Turns : th # Send(u)
          PROVE  Goal
      <3>1. \A x \in Threads : Delivering(x)' => Delivering(x)
        BY <2>2, <2>3 DEF Delivering
      <3>2. \A u \in Turns : Delivering(Send(u)) => Delivering(Send(u))' \/ sinkClosed'
        BY <2>2, <2>3 DEF Delivering
      <3>3. \A u \in Turns :
              Owns(u)' => /\ Owns(u)
                          /\ Unstarted(u)' => Unstarted(u)
                          /\ Unstarted(u) => Unstarted(u)' \/ sinkClosed'
        BY <2>1, <3>1, <3>2 DEF Owns, Unstarted
      <3> QED
        BY <2>1, <2>3, <3>3, OwnersKept
    <2>4. CASE Deliver(th)
      <3>1. UNCHANGED <<active, dispatching, activeTurn, status>>
        BY <2>4 DEF Deliver, rtVars
      <3>2. ev[th] \in Events /\ Delivering(th)
        BY <2>4, InDelivery DEF Deliver, Delivering
      <3>3. sinkClosed' \/ Delivering(th)'
        BY <2>1, <2>4, <3>2 DEF Deliver, Delivering, Events
      <3> QED
        BY <2>3, <3>1, <3>2, <3>3 DEF Closed
    <2>5. CASE Record(th)
      <3>1. UNCHANGED <<active, dispatching, activeTurn, status>>
        BY <2>5 DEF Record, AppendRecord, rtVars
      <3>2. ~Delivering(th) /\ ~Delivering(th)'
        BY <2>5 DEF Record, Delivering, NoEvent
      <3> QED
        BY <2>3, <3>1, <3>2 DEF Closed
    <2>6. CASE Apply(th)
      <3>1. ev[th] \in Events /\ ev[th].pc = "handled" /\ Delivering(th) /\ ~Quiet(th)
        BY <2>6, InDelivery DEF Apply, Delivering, Quiet, NoEvent
      <3>2. ev'[th].pc = "applied"
        BY <2>6, <3>1 DEF Apply, Events
      <3>3. ~Delivering(th)'
        BY <3>2 DEF Delivering
      <3>4. ASSUME NEW t \in Turns, th = Prompt(t) PROVE Goal
        <4>1. Owns(t)
          BY <3>1, <3>4 DEF EventOwners, PromptEvent, Owns
        <4>2. prompt'[t] = "emitting" /\ sub[t] \notin {"submit", "trylock", "locked", "starting", "failing"}
          BY <2>1, <3>1, <3>4 DEF EventOwners, PromptEvent, LockDiscipline, OwnerLocked
        <4>3. ~Owns(t)'
          BY <2>1, <3>3, <3>4, <4>2 DEF Owns
        <4>4. \A u \in Turns : u # t => ~Owns(u) /\ (Owns(u)' <=> Owns(u))
          BY <2>1, <2>2, <3>4, <4>1, OwnsSame DEF OneOwner
        <4> QED
          BY <4>3, <4>4, OwnersGone
      <3>5. ASSUME NEW t \in Turns, th = Send(t) PROVE Goal
        <4>1. ev[th].kind = "turn_started" /\ ev[th].turn = t /\ sub[t] = "starting"
          BY <3>1, <3>5 DEF EventOwners, SendEvent
        <4>2. /\ active' = TRUE /\ activeTurn' = t
              /\ Closed' <=> Closed
          BY <2>6, <4>1 DEF Apply, ApplyTurnStarted, Closed
        <4>3. Owns(t) /\ ~Unstarted(t)'
          BY <2>1, <3>3, <3>5, <4>1 DEF Owns, Unstarted
        <4>4. \A u \in Turns : u # t => ~Owns(u) /\ (Owns(u)' <=> Owns(u))
          BY <2>1, <2>2, <3>5, <4>3, OwnsSame DEF OneOwner
        <4> QED
          BY <2>1, <4>2, <4>3, <4>4 DEF OneOwner, OwnerKnown, NewOwners, Up
      <3>6. ASSUME \/ \E t \in Turns : th = Ask(t)
                   \/ \E c \in Callers : th = Call(c)
            PROVE  Goal
        <4>1. ev[th].kind \in {"interaction_requested", "interaction_resolved"}
          BY <3>1, <3>6 DEF EventOwners, AskEvent, CallEvent
        <4>2. /\ UNCHANGED <<active, dispatching, activeTurn>>
              /\ Closed' <=> Closed
          BY <2>6, <4>1 DEF Apply, ApplyInteractionRequested,
                            ApplyInteractionResolved, Closed
        <4>3. \A u \in Turns : th # Send(u)
          BY <3>6
        <4> QED
          BY <2>3, <3>1, <3>3, <4>2, <4>3
      <3>7. ASSUME th = Boot PROVE Goal
        <4>1. ~Up
          BY <3>1, <3>7 DEF EventOwners, BootEvent, Up
        <4>2. \A u \in Turns : ~Owns(u) /\ (Owns(u)' <=> Owns(u))
          BY <2>1, <2>2, <3>7, <4>1, OwnsSame DEF OwnerKnown
        <4> QED
          BY <4>2, OwnersGone
      <3> QED
        BY <3>4, <3>5, <3>6, <3>7 DEF Threads
    <2> QED
      BY <1>3, <2>4, <2>5, <2>6 DEF DeliveryStep
  <1>4. ASSUME NEW i \in 1..Len(queue), RemoveQueuedTurn(i) PROVE Goal
    <2>1. UNCHANGED <<phase, active, dispatching, activeTurn, status, sinkClosed, ev, prompt>>
      BY <1>4 DEF RemoveQueuedTurn, RemoveQueued, acpxVars
    <2>2. sub' = [sub EXCEPT ![queue[i]] = "discarded"] /\ sub[queue[i]] = "queued"
          /\ queue[i] \in Turns
      BY <1>4, QueuedEntry DEF RemoveQueuedTurn
    <2>3. \A u \in Turns : (Owns(u)' => Owns(u)) /\ (Unstarted(u)' <=> Unstarted(u))
      BY <2>1, <2>2 DEF Owns, Unstarted, Delivering
    <2> QED
      BY <2>1, <2>3, OwnersKept DEF Closed
  <1>5. CASE Block \/ Unblock
    <2>1. UNCHANGED <<phase, active, dispatching, activeTurn, status, sinkClosed,
                      ev, prompt, sub>>
      BY <1>5 DEF Block, BlockDispatch, Unblock, UnblockDispatch, acpxVars, sysVars
    <2>2. \A u \in Turns : (Owns(u)' <=> Owns(u)) /\ (Unstarted(u)' <=> Unstarted(u))
      BY <2>1, OwnsSame
    <2> QED
      BY <2>1, <2>2, OwnersKept DEF Closed
  <1>6. CASE DispatchQueued
    <2>1. CASE DispatchNothing /\ UNCHANGED <<sub, dequeued>>
      <3>1. UNCHANGED <<phase, active, dispatching, activeTurn, status, sinkClosed,
                        ev, prompt, sub>>
        BY <1>6, <2>1 DEF DispatchQueued, DispatchNothing, rtVars, acpxVars
      <3>2. \A u \in Turns : (Owns(u)' <=> Owns(u)) /\ (Unstarted(u)' <=> Unstarted(u))
        BY <3>1, OwnsSame
      <3> QED
        BY <3>1, <3>2, OwnersKept DEF Closed
    <2>2. CASE DispatchHead /\ sub' = [sub EXCEPT ![Head(queue)] = "submit"]
      <3>1. Head(queue) \in Turns
        BY <2>2, QueuedHead DEF DispatchHead, ReadyToDispatch
      <3>2. /\ Idle /\ ~Closed /\ Up /\ sub'[Head(queue)] = "submit"
            /\ UNCHANGED <<phase, status>> /\ dispatching' /\ ~active'
        BY <1>6, <2>2, <3>1
           DEF DispatchQueued, DispatchHead, ReadyToDispatch, Closing
      <3>3. \A u \in Turns : u # Head(queue) => (Owns(u)' <=> Owns(u))
        BY <1>6, <2>2, <3>1, OwnsSame DEF DispatchQueued, acpxVars
      <3> QED
        BY <3>1, <3>2, <3>3, OwnerDispatched
    <2> QED
      BY <1>6, <2>1, <2>2 DEF DispatchQueued
  <1>7. CASE Crash
    <2>1. \A u \in Turns : ~Owns(u)'
      BY <1>7 DEF Crash, Reopen, Owns
    <2> QED
      BY <2>1, OwnersGone
  <1>8. CASE ReconcileFail \/ ReconcileDone
    <2>1. ~Up /\ UNCHANGED <<sub, prompt>>
      BY <1>8 DEF ReconcileFail, ReconcileDone, acpxVars, Up
    <2>2. \A u \in Turns : ev'[Prompt(u)] = ev[Prompt(u)] /\ ev'[Send(u)] = ev[Send(u)]
      BY <1>8 DEF ReconcileFail, ReconcileDone
    <2>3. \A u \in Turns : ~Owns(u) /\ (Owns(u)' <=> Owns(u))
      BY <2>1, <2>2, OwnsSame DEF OwnerKnown
    <2> QED
      BY <2>3, OwnersGone
  <1> QED
    BY <1>1, <1>2, <1>3, <1>4, <1>5, <1>6, <1>7, <1>8 DEF Next

-----------------------------------------------------------------------------
\* A fresh session has no owner.
LEMMA InitOwner == Init => OwnerInv
  <1> SUFFICES ASSUME Init PROVE OwnerInv
    OBVIOUS
  <1> USE NoneAssumption, ThreadNames DEF Init, RuntimeInit, AcpxInit
  <1>1. \A t \in Turns : ~Owns(t)
    BY DEF Owns
  <1>2. OneOwner /\ OwnerKnown
    BY <1>1 DEF OneOwner, OwnerKnown
  <1>3. OwnerLocked
    BY DEF OwnerLocked
  <1>4. EventOwners
    BY DEF EventOwners, PromptEvent, SendEvent, AskEvent, CallEvent, BootEvent, Quiet
  <1>5. Closing
    BY DEF Closing, Up
  <1> QED
    BY <1>2, <1>3, <1>4, <1>5 DEF OwnerInv

\* A step that changes nothing keeps the invariant.
LEMMA StutterOwner == OwnerInv /\ UNCHANGED vars => OwnerInv'
  <1> SUFFICES ASSUME OwnerInv, UNCHANGED vars PROVE OwnerInv'
    OBVIOUS
  <1> USE DEF OwnerInv, vars, rtVars, acpxVars, sysVars, callVars
  <1>1. OneOwner' /\ OwnerKnown'
    <2>1. \A u \in Turns : (Owns(u)' <=> Owns(u)) /\ (Unstarted(u)' <=> Unstarted(u))
      BY OwnsSame
    <2> QED
      BY <2>1, OwnersKept DEF Closed
  <1>2. OwnerLocked'
    BY LockedUntouched
  <1>3. EventOwners'
    BY EventsUntouched
  <1>4. Closing'
    BY DEF Closing, Up, Closed, Quiet
  <1> QED
    BY <1>1, <1>2, <1>3, <1>4

\* Every step of an uninterrupted session preserves it.
LEMMA NextOwner ==
    ASSUME Uninterrupted
    PROVE  SafetyInv /\ DeliveryInv /\ OwnerInv /\ [Next]_vars => OwnerInv'
  <1>1. ASSUME SafetyInv, DeliveryInv, OwnerInv, Next PROVE OwnerInv'
    <2> USE <1>1 DEF DeliveryInv
    <2>1. OneOwner' /\ OwnerKnown'
      BY OwnersNext
    <2>2. OwnerLocked'
      BY LockedNext DEF OwnerInv
    <2>3. EventOwners'
      BY EventsNext DEF OwnerInv
    <2>4. Closing'
      BY ClosingNext
    <2> QED
      BY <2>1, <2>2, <2>3, <2>4 DEF OwnerInv
  <1> QED
    BY <1>1, StutterOwner

\* A session that nobody interrupts belongs to at most one turn, of which
\* runtime, adapter and events in delivery tell the same.
THEOREM OwnerInvariance ==
    ASSUME Uninterrupted
    PROVE  Spec => []OwnerInv
  BY SafetyInvariance, DeliveryInvariance, InitOwner, NextOwner, PTL DEF Spec

\* No submission of an uninterrupted session finds promptMu taken: through
\* crashes, closes, failed appends and interactions, the runtime's flags
\* alone keep the turns apart.
THEOREM FlagsSuffice ==
    ASSUME Uninterrupted
    PROVE  Spec => []SubmitFindsFree
  <1>1. SafetyInv /\ OwnerInv => SubmitFindsFree
    <2> SUFFICES ASSUME SafetyInv, OwnerInv, NEW t \in Turns, sub[t] = "trylock",
                        promptMu # None
                 PROVE  FALSE
      BY DEF SubmitFindsFree
    <2> USE DEF SafetyInv, OwnerInv
    <2>1. PICK u \in Turns : promptMu = u
      BY DEF TypeOK, AcpxTypeOK, MaybeTurn
    <2>2. Owns(u) /\ Owns(t)
      BY <2>1 DEF OwnerLocked, Owns
    <2>3. u = t
      BY <2>2 DEF OneOwner
    <2> QED
      BY <2>1, <2>3 DEF OwnerLocked, LockDiscipline
  <1> QED
    BY <1>1, SafetyInvariance, OwnerInvariance, PTL

\* While a session's sink is open, a running prompt is its active turn.
LEMMA RunningKnown ==
    ASSUME SafetyInv, OwnerInv, ~sinkClosed, NEW t \in Turns,
           prompt[t] = "running"
    PROVE  active /\ activeTurn = t
  <1>1. Owns(t) /\ ~Unstarted(t)
    BY DEF Owns, Unstarted, SafetyInv, LockDiscipline, OwnerInv, OwnerLocked
  <1> QED
    BY <1>1 DEF OwnerInv, OwnerKnown

\* Nothing but Close shuts the sink.
LEMMA SinkStaysOpen ==
    ASSUME NeverClosed, ~sinkClosed, [Next]_vars
    PROVE  ~sinkClosed'
  <1>1. ASSUME NEW t \in Turns, TurnStep(t) PROVE ~sinkClosed'
    BY <1>1 DEF TurnStep, SendIdle, SendNow, SendBusy, SendQueued, SendRefuse,
                SendRefused, Submit, TryLock, SelectionFails, BeginTurn,
                LaunchPrompt, FinishSubmit, SubmitReturned, Fail,
                FailSubmission, FinishFail, PromptReturns, PromptUnlocks,
                PromptOver, AskHost, AskAnswered, rtVars
  <1>2. ASSUME NEW c \in Callers, CallStep(c) PROVE ~sinkClosed'
    BY <1>2 DEF CallStep, Interrupt, ClearQueue, InterruptActive, InterruptRead,
                InterruptCancel, InterruptTake, InterruptWait, InterruptCheck,
                Respond, BeginRespond, RespondAdapter, RespondCheck, Close,
                NeverClosed, CloseAdapter, CloseFinish, FinishClose, CloseLog,
                AppendRecord, Return, rtVars
  <1>3. ASSUME NEW th \in Threads, DeliveryStep(th) PROVE ~sinkClosed'
    BY <1>3 DEF DeliveryStep, Deliver, Apply, Record, ApplyTurnStarted,
                ApplyTerminal, ApplyInteractionRequested, rtVars,
                ApplyInteractionResolved, AppendRecord
  <1>4. CASE \E i \in 1..Len(queue) : RemoveQueuedTurn(i)
    BY <1>4 DEF RemoveQueuedTurn, RemoveQueued
  <1>5. CASE Block \/ Unblock \/ DispatchQueued
    BY <1>5 DEF Block, BlockDispatch, Unblock, UnblockDispatch, DispatchQueued,
                DispatchNothing, DispatchHead, rtVars
  <1>6. CASE Crash \/ ReconcileFail \/ ReconcileDone
    BY <1>6 DEF Crash, InsertRestored, ReconcileFail, ReconcileDone, rtVars
  <1>7. CASE UNCHANGED vars
    BY <1>7 DEF vars, rtVars
  <1> QED
    BY <1>1, <1>2, <1>3, <1>4, <1>5, <1>6, <1>7 DEF Next

\* So a session that is never closed never loses an event.
LEMMA SinkOpen ==
    ASSUME NeverClosed
    PROVE  Spec => []~sinkClosed
  <1>1. Init => ~sinkClosed
    BY DEF Init, RuntimeInit
  <1>2. ~sinkClosed /\ [Next]_vars => ~sinkClosed'
    BY SinkStaysOpen
  <1> QED
    BY <1>1, <1>2, PTL DEF Spec

\* While a prompt runs, an uninterrupted session that is not closed knows it
\* as its active turn: also after crashes and failed appends.
THEOREM RunningTurnIsKnown ==
    ASSUME Uninterrupted, NeverClosed
    PROVE  Spec => []RunningIsActive
  <1>1. SafetyInv /\ OwnerInv /\ ~sinkClosed => RunningIsActive
    BY RunningKnown DEF RunningIsActive
  <1> QED
    BY <1>1, SafetyInvariance, OwnerInvariance, SinkOpen, PTL

-----------------------------------------------------------------------------
(* Interactions and the restart.                                           *)

\* An active turn has a name, in memory and in the journal.
TurnsNamed ==
    /\ active => activeTurn # None
    /\ image.active => image.turn # None

\* The agent asks while it works on the prompt, or when it was cancelled.
AskedInTurn ==
    \A t \in Turns :
        /\ ask[t] # "none" => prompt[t] # "none"
        /\ ask[t] = "open" /\ t \notin cancelled => prompt[t] = "running"
        /\ t \in cancelled => ev[Prompt(t)].pc \notin {"handled", "applied"}

\* A request on its way to the host, past the sink, is one of the active turn.
AskedOfOwner ==
    \A t \in Turns : ev[Ask(t)].pc \in {"handled", "applied"} =>
        /\ \A u \in Turns : Owns(u) => u = t
        /\ ~Closed => active /\ activeTurn = t
        /\ image.active /\ image.turn = t

\* The journal has the turn_started of a prompt before the prompt begins.
Recorded ==
    \A t \in Turns :
        ~sinkClosed /\ (prompt[t] = "running" \/ (sub[t] = "starting" /\ Quiet(Send(t))))
          => image.active /\ image.turn = t

PendingRecorded == image.pending # None /\ image.status # "closed" => image.active

\* How far Restore has come with the turn the journal left active.
Reconciling ==
    /\ ~Up => ~dispatching
    /\ phase = "resolve" \/ (phase = "fail" /\ Delivering(Boot))
         => active /\ image.active /\ image.turn = activeTurn
    /\ phase = "fail" /\ Delivering(Boot) => ev[Boot].turn = activeTurn
    /\ phase = "fail" /\ ~Delivering(Boot) => ~active /\ pending = None
    /\ phase = "fail" /\ ev[Boot].pc = "applied"
         => image.active /\ image.turn = ev[Boot].turn
    /\ phase = "fail" /\ Quiet(Boot) => ~image.active /\ image.pending = None

AskInv ==
    /\ TurnsNamed /\ AskedInTurn /\ AskedOfOwner
    /\ Recorded /\ PendingRecorded /\ Reconciling /\ PendingHasTurn

\* What a record leaves of the turn.
LEMMA TerminalRecorded ==
    ASSUME NEW img \in Images, NEW t \in Turns
    PROVE  LET new == RestoreTerminal(img, t) IN
           /\ new \in Images
           /\ new = img \/ (~new.active /\ new.turn = None /\ new.pending = None)
           /\ img.turn \in {None, t} => ~new.active
           /\ img.turn \notin {None, t} => new = img
  BY NoneAssumption DEF RestoreTerminal, Images, MaybeTurn, Statuses

\* What a recorded turn_started tells Restore.
LEMMA StartRecorded ==
    ASSUME NEW img \in Images, NEW t \in Turns
    PROVE  LET new == RestoreTurnStarted(img, t) IN
           new.active /\ new.turn = t /\ new.pending = img.pending
  BY DEF RestoreTurnStarted, Images

\* And a recorded interaction or answer.
LEMMA InteractionRecorded ==
    ASSUME NEW img \in Images, NEW t \in MaybeTurn
    PROVE  LET asked == RestoreInteraction(img, t)
               answered == RestoreResolved(img, t)
           IN
           /\ asked.active = img.active /\ asked.turn = img.turn
           /\ answered.active = img.active /\ answered.turn = img.turn
           /\ answered.pending \in {None, img.pending}
           /\ answered.status = "closed" <=> img.status = "closed"
  BY DEF RestoreInteraction, RestoreResolved, Images

\* The record each goroutine appends, when appends succeed.
LEMMA RecordOf ==
    ASSUME JournalWorks, SafetyInv, EventOwners, NEW th \in Threads, Record(th)
    PROVE  /\ image \in Images
           /\ ~Quiet(th) /\ ev[th].turn \in MaybeTurn
           /\ UNCHANGED <<status, dispatching, active, activeTurn, blocked, queue,
                          pending, lastTurn, sinkClosed>>
           /\ ev' = [ev EXCEPT ![th] = NoEvent]
           /\ UNCHANGED <<acpxVars, phase, sub, dequeued, ask, callVars>>
           /\ \A t \in Turns :
                 /\ th = Prompt(t) => image' = RestoreTerminal(image, t)
                 /\ th = Send(t) => /\ sub[t] = "starting"
                                    /\ image' = RestoreTurnStarted(image, t)
                 /\ th = Ask(t) => image' = RestoreInteraction(image, t)
           /\ \A c \in Callers :
                 th = Call(c) => image' = RestoreResolved(image, ev[th].turn)
           /\ th = Boot =>
                 \/ /\ phase = "resolve"
                    /\ image' = RestoreResolved(image, ev[th].turn)
                 \/ /\ phase = "fail"
                    /\ image' = RestoreTerminal(image, ev[th].turn)
  <1> USE ThreadNames DEF SafetyInv, TypeOK
  <1>1. image \in Images
    BY DEF RuntimeTypeOK
  <1>2. ~Quiet(th) /\ ev[th].pc = "applied"
    BY DEF Record, Quiet, NoEvent
  <1>3. AppendRecord(ev[th].kind, ev[th].turn)
    BY DEF Record, JournalWorks
  <1>4. ev[th].turn \in MaybeTurn
    BY <1>2, InDelivery
  <1>5. image' = Restored(image, ev[th].kind, ev[th].turn)
    BY <1>3 DEF AppendRecord
  <1>6. ASSUME NEW t \in Turns
        PROVE  /\ th = Prompt(t) => image' = RestoreTerminal(image, t)
               /\ th = Send(t) => sub[t] = "starting" /\ image' = RestoreTurnStarted(image, t)
               /\ th = Ask(t) => image' = RestoreInteraction(image, t)
    BY <1>2, <1>5 DEF EventOwners, PromptEvent, SendEvent, AskEvent, Restored
  <1>7. ASSUME NEW c \in Callers, th = Call(c)
        PROVE  image' = RestoreResolved(image, ev[th].turn)
    BY <1>2, <1>5, <1>7 DEF EventOwners, CallEvent, Restored
  <1>8. ASSUME th = Boot
        PROVE  \/ /\ phase = "resolve"
                  /\ image' = RestoreResolved(image, ev[th].turn)
               \/ /\ phase = "fail"
                  /\ image' = RestoreTerminal(image, ev[th].turn)
    BY <1>2, <1>5, <1>8 DEF EventOwners, BootEvent, Restored
  <1>9. /\ UNCHANGED <<status, dispatching, active, activeTurn, blocked, queue,
                       pending, lastTurn, sinkClosed>>
        /\ ev' = [ev EXCEPT ![th] = NoEvent]
        /\ UNCHANGED <<acpxVars, phase, sub, dequeued, ask, callVars>>
    BY <1>3 DEF Record, AppendRecord
  <1> QED
    BY <1>1, <1>2, <1>4, <1>6, <1>7, <1>8, <1>9

\* The change each goroutine's event makes in the session.
LEMMA ApplyOf ==
    ASSUME SafetyInv, EventOwners, NEW th \in Threads, Apply(th)
    PROVE  /\ ~Quiet(th) /\ ev[th] \in Events /\ ev[th].pc = "handled"
           /\ ev'[th].pc = "applied" /\ ev'[th].kind = ev[th].kind
           /\ ev'[th].turn = ev[th].turn
           /\ \A x \in Threads : x # th => ev'[x] = ev[x]
           /\ UNCHANGED <<acpxVars, phase, sub, dequeued, dispatchers, ask, callVars,
                          sinkClosed, image>>
           /\ \A t \in Turns :
                 /\ th = Prompt(t) => prompt[t] = "emitting" /\ ApplyTerminal(t)
                 /\ th = Send(t) => sub[t] = "starting" /\ ApplyTurnStarted(t)
                 /\ th = Ask(t) => ApplyInteractionRequested(t)
           /\ \A c \in Callers : th = Call(c) => ApplyInteractionResolved(ev[th].turn)
           /\ th = Boot => \/ phase = "resolve" /\ ApplyInteractionResolved(ev[th].turn)
                           \/ phase = "fail" /\ ApplyTerminal(ev[th].turn)
  <1> USE ThreadNames DEF SafetyInv, TypeOK
  <1>1. ~Quiet(th) /\ ev[th] \in Events /\ ev[th].pc = "handled"
    BY InDelivery DEF Apply, Quiet, NoEvent
  <1>2. /\ ev'[th].pc = "applied" /\ ev'[th].kind = ev[th].kind
        /\ ev'[th].turn = ev[th].turn
        /\ \A x \in Threads : x # th => ev'[x] = ev[x]
    BY <1>1 DEF Apply, SystemTypeOK, Events
  <1>3. UNCHANGED <<acpxVars, phase, sub, dequeued, dispatchers, ask, callVars,
                    sinkClosed, image>>
    BY DEF Apply, ApplyTurnStarted, ApplyTerminal, ApplyInteractionRequested,
           ApplyInteractionResolved
  <1>4. ASSUME NEW t \in Turns
        PROVE  /\ th = Prompt(t) => prompt[t] = "emitting" /\ ApplyTerminal(t)
               /\ th = Send(t) => sub[t] = "starting" /\ ApplyTurnStarted(t)
               /\ th = Ask(t) => ApplyInteractionRequested(t)
    <2>1. CASE th = Prompt(t)
      BY <1>1, <2>1, ThreadsDiffer DEF EventOwners, PromptEvent, Apply
    <2>2. CASE th = Send(t)
      BY <1>1, <2>2, ThreadsDiffer DEF EventOwners, SendEvent, Apply
    <2>3. CASE th = Ask(t)
      BY <1>1, <2>3, ThreadsDiffer DEF EventOwners, AskEvent, Apply
    <2> QED
      BY <2>1, <2>2, <2>3
  <1>5. ASSUME NEW c \in Callers, th = Call(c)
        PROVE  ApplyInteractionResolved(ev[th].turn)
    BY <1>1, <1>5 DEF EventOwners, CallEvent, Apply
  <1>6. ASSUME th = Boot
        PROVE  \/ phase = "resolve" /\ ApplyInteractionResolved(ev[th].turn)
               \/ phase = "fail" /\ ApplyTerminal(ev[th].turn)
    BY <1>1, <1>6 DEF EventOwners, BootEvent, Apply
  <1> QED
    BY <1>1, <1>2, <1>3, <1>4, <1>5, <1>6

\* Events change by delivery, by being emitted, and by a crash.
LEMMA EventSteps ==
    ASSUME TypeOK, Next, ~Crash, NEW x \in Threads
    PROVE  ev'[x] = ev[x] \/ ev'[x].pc = "raw" \/ DeliveryStep(x)
  <1> USE ThreadNames DEF TypeOK, SystemTypeOK, Emitted
  <1>1. ASSUME NEW t \in Turns, TurnStep(t) PROVE ev'[x] = ev[x] \/ ev'[x].pc = "raw"
    <2>1. CASE BeginTurn(t) \/ Fail(t) \/ AskHost(t)
      BY <2>1 DEF BeginTurn, Fail, AskHost
    <2>2. CASE PromptUnlocks(t)
      BY <2>2 DEF PromptUnlocks
    <2>3. CASE SendIdle(t) \/ SendBusy(t) \/ SendRefuse(t) \/ Submit(t)
               \/ TryLock(t) \/ SelectionFails(t) \/ LaunchPrompt(t)
               \/ FinishSubmit(t) \/ FinishFail(t) \/ PromptReturns(t)
               \/ PromptOver(t) \/ AskAnswered(t)
      BY <2>3 DEF SendIdle, SendBusy, SendRefuse, Submit, TryLock,
                  SelectionFails, LaunchPrompt, FinishSubmit, FinishFail,
                  PromptReturns, PromptOver, AskAnswered, sysVars
    <2> QED
      BY <1>1, <2>1, <2>2, <2>3 DEF TurnStep
  <1>2. ASSUME NEW c \in Callers, CallStep(c) PROVE ev'[x] = ev[x] \/ ev'[x].pc = "raw"
    BY <1>2 DEF CallStep, Interrupt, InterruptActive, InterruptRead,
                InterruptCancel, InterruptTake, InterruptWait, InterruptCheck,
                Respond, RespondAdapter, RespondCheck, Close, CloseAdapter,
                CloseFinish, CloseLog, Return
  <1>3. ASSUME NEW th \in Threads, DeliveryStep(th)
        PROVE  ev'[x] = ev[x] \/ DeliveryStep(x)
    BY <1>3 DEF DeliveryStep, Deliver, Apply, Record
  <1>4. CASE \E i \in 1..Len(queue) : RemoveQueuedTurn(i)
    BY <1>4 DEF RemoveQueuedTurn
  <1>5. CASE Block \/ Unblock \/ DispatchQueued
    BY <1>5 DEF Block, Unblock, DispatchQueued, sysVars
  <1>6. CASE ReconcileFail \/ ReconcileDone
    BY <1>6 DEF ReconcileFail, ReconcileDone
  <1> QED
    BY <1>1, <1>2, <1>3, <1>4, <1>5, <1>6 DEF Next

\* A turn gets to where it starts, and its prompt begins, in one place each.
LEMMA StartSteps ==
    ASSUME SafetyInv, Next, NEW u \in Turns
    PROVE  /\ prompt'[u] = "running" => prompt[u] = "running" \/ LaunchPrompt(u)
           /\ sub'[u] = "starting" => sub[u] = "starting" \/ BeginTurn(u)
  <1> USE DEF SafetyInv, TypeOK, SystemTypeOK, AcpxTypeOK
  <1> DEFINE Goal == /\ prompt'[u] = "running" => prompt[u] = "running" \/ LaunchPrompt(u)
                     /\ sub'[u] = "starting" => sub[u] = "starting" \/ BeginTurn(u)
  <1>1. ASSUME NEW t \in Turns, TurnStep(t) PROVE Goal
    <2>1. CASE BeginTurn(t)
      BY <2>1 DEF BeginTurn, SetTurn
    <2>2. CASE LaunchPrompt(t)
      BY <2>2 DEF LaunchPrompt, StartPrompt
    <2>3. CASE SendIdle(t) \/ SendBusy(t) \/ SendRefuse(t) \/ Submit(t)
               \/ TryLock(t) \/ SelectionFails(t) \/ FinishSubmit(t)
               \/ Fail(t) \/ FinishFail(t)
      BY <2>3 DEF SendIdle, SendBusy, SendRefuse, Submit, TryLock, LockPrompt,
                  PromptBusy, SelectionFails, UnlockPrompt, FinishSubmit, Fail,
                  FinishFail, acpxVars
    <2>4. CASE PromptReturns(t) \/ PromptUnlocks(t) \/ PromptOver(t)
      BY <2>4 DEF PromptReturns, FinishTurn, PromptUnlocks, ReleasePrompt,
                  PromptOver, PromptDone, sysVars
    <2>5. CASE AskHost(t) \/ AskAnswered(t)
      BY <2>5 DEF AskHost, AwaitInteraction, AskAnswered, RemoveInteraction
    <2> QED
      BY <1>1, <2>1, <2>2, <2>3, <2>4, <2>5 DEF TurnStep
  <1>2. ASSUME NEW c \in Callers, CallStep(c) PROVE Goal
    BY <1>2 DEF CallStep, Interrupt, InterruptActive, InterruptRead,
                InterruptCancel, CancelTurn, InterruptTake, TakeTurn,
                InterruptWait, InterruptCheck, Respond, RespondAdapter,
                TakeInteraction, RespondRejected, RespondCheck, Close,
                CloseAdapter, StopSession, CloseFinish, CloseLog, Return, acpxVars
  <1>3. ASSUME NEW th \in Threads, DeliveryStep(th) PROVE Goal
    BY <1>3 DEF DeliveryStep, Deliver, Apply, Record, acpxVars
  <1>4. ASSUME NEW i \in 1..Len(queue), RemoveQueuedTurn(i) PROVE Goal
    <2>1. queue[i] \in Turns
      BY QueuedEntry
    <2> QED
      BY <1>4, <2>1 DEF RemoveQueuedTurn, acpxVars
  <1>5. CASE Block \/ Unblock
    BY <1>5 DEF Block, Unblock, sysVars, acpxVars
  <1>6. CASE DispatchQueued
    <2>1. CASE UNCHANGED sub
      BY <1>6, <2>1 DEF DispatchQueued, acpxVars
    <2>2. CASE DispatchHead /\ sub' = [sub EXCEPT ![Head(queue)] = "submit"]
      <3>1. Head(queue) \in Turns
        BY <2>2, QueuedHead DEF DispatchHead, ReadyToDispatch
      <3> QED
        BY <1>6, <2>2, <3>1 DEF DispatchQueued, acpxVars
    <2> QED
      BY <1>6, <2>1, <2>2 DEF DispatchQueued
  <1>7. CASE Crash
    BY <1>7 DEF Crash, Reopen
  <1>8. CASE ReconcileFail \/ ReconcileDone
    BY <1>8 DEF ReconcileFail, ReconcileDone, acpxVars
  <1> QED
    BY <1>1, <1>2, <1>3, <1>4, <1>5, <1>6, <1>7, <1>8 DEF Next

\* A step that shows neither in memory nor in the journal.
ViewKept ==
    /\ UNCHANGED <<active, dispatching, activeTurn, pending, image, sinkClosed>>
    /\ Closed' <=> Closed

\* The steps that do show.
LEMMA Views ==
    ASSUME Uninterrupted, Closing, Next
    PROVE  \/ ViewKept
           \/ \E th \in Threads : Apply(th) \/ Record(th)
           \/ \E t \in Turns : SendIdle(t) \/ Fail(t)
           \/ DispatchQueued /\ DispatchHead
           \/ \E c \in Callers : Close(c) \/ CloseFinish(c) \/ CloseLog(c)
           \/ Crash
  <1>1. ASSUME NEW t \in Turns, TurnStep(t), ~SendIdle(t), ~Fail(t)
        PROVE  ViewKept
    BY <1>1 DEF TurnStep, SendBusy, SendQueued, SendRefuse,
                SendRefused, Submit, TryLock, SelectionFails, BeginTurn,
                LaunchPrompt, FinishSubmit, SubmitReturned, FinishFail,
                PromptReturns, PromptUnlocks, PromptOver, AskHost,
                AskAnswered, rtVars, ViewKept, Closed
  <1>2. ASSUME NEW c \in Callers, CallStep(c), ~Close(c), ~CloseFinish(c), ~CloseLog(c)
        PROVE  ViewKept
    <2>1. CASE Interrupt(c) \/ InterruptActive(c) \/ InterruptRead(c)
               \/ InterruptCancel(c) \/ InterruptTake(c) \/ InterruptWait(c)
               \/ InterruptCheck(c)
      BY <2>1, NotInterrupting
    <2>2. CASE (\E t \in Turns : Respond(c, t)) \/ RespondAdapter(c)
               \/ RespondCheck(c) \/ CloseAdapter(c) \/ Return(c)
      BY <2>2 DEF Respond, BeginRespond, RespondAdapter, RespondCheck,
                  CloseAdapter, Return, rtVars, ViewKept, Closed
    <2> QED
      BY <1>2, <2>1, <2>2 DEF CallStep
  <1>3. ASSUME NEW th \in Threads, Deliver(th) PROVE ViewKept
    BY <1>3 DEF Deliver, rtVars, ViewKept, Closed
  <1>4. CASE \E i \in 1..Len(queue) : RemoveQueuedTurn(i)
    BY <1>4 DEF RemoveQueuedTurn, RemoveQueued, ViewKept, Closed
  <1>5. CASE Block \/ Unblock \/ (DispatchQueued /\ ~DispatchHead)
    BY <1>5 DEF Block, BlockDispatch, Unblock, UnblockDispatch, DispatchQueued,
                DispatchNothing, rtVars, ViewKept, Closed
  <1>6. CASE ReconcileFail \/ ReconcileDone
    BY <1>6, SMTT(60) DEF ReconcileFail, ReconcileDone, rtVars, ViewKept, Closed
  <1> QED
    BY <1>1, <1>2, <1>3, <1>4, <1>5, <1>6 DEF Next, DeliveryStep

\* The host goes down only by a crash.
LEMMA StaysUp ==
    ASSUME Next, Up, ~Crash
    PROVE  Up'
  BY DEF Next, TurnStep, SendIdle, SendBusy, SendRefuse, Submit, TryLock,
         SelectionFails, BeginTurn, LaunchPrompt, FinishSubmit, Fail,
         FinishFail, PromptReturns, PromptUnlocks, PromptOver, AskHost,
         AskAnswered, sysVars, CallStep, Interrupt, InterruptActive,
         InterruptRead, InterruptCancel, InterruptTake, InterruptWait,
         InterruptCheck, Respond, RespondAdapter, RespondCheck, Close,
         CloseAdapter, CloseFinish, CloseLog, Return, DeliveryStep, Deliver,
         Apply, Record, RemoveQueuedTurn, Block, Unblock, DispatchQueued,
         ReconcileFail, ReconcileDone, Up

\* Every step keeps the names of active turns.
LEMMA NamedNext ==
    ASSUME Uninterrupted, JournalWorks, SafetyInv, OwnerInv, TurnsNamed, Next
    PROVE  TurnsNamed'
  <1> USE NoneAssumption DEF OwnerInv, TurnsNamed
  <1>1. CASE ViewKept
    BY <1>1 DEF ViewKept
  <1>2. ASSUME NEW th \in Threads, Apply(th) PROVE TurnsNamed'
    <2>1. \A t \in Turns : th = Send(t) => active' /\ activeTurn' = t
      BY <1>2, ApplyOf DEF ApplyTurnStarted
    <2>2. (\A t \in Turns : th # Send(t)) => (active' => active /\ activeTurn' = activeTurn)
      BY <1>2, ApplyOf, ZenonT(60) DEF ApplyTerminal, ApplyInteractionRequested,
                           ApplyInteractionResolved, Threads
    <2>3. image' = image
      BY <1>2, ApplyOf
    <2> QED
      BY <2>1, <2>2, <2>3
  <1>3. ASSUME NEW th \in Threads, Record(th) PROVE TurnsNamed'
    <2>1. active' = active /\ activeTurn' = activeTurn /\ image \in Images
      BY <1>3, RecordOf
    <2>2. image'.active => image'.turn # None
      <3>1. ASSUME NEW t \in Turns, th = Prompt(t) PROVE image'.active => image'.turn # None
        BY <1>3, <2>1, <3>1, RecordOf, TerminalRecorded
      <3>2. ASSUME NEW t \in Turns, th = Send(t) PROVE image'.active => image'.turn # None
        BY <1>3, <2>1, <3>2, RecordOf, StartRecorded
      <3>3. ASSUME NEW t \in Turns, th = Ask(t) PROVE image'.active => image'.turn # None
        BY <1>3, <2>1, <3>3, RecordOf, InteractionRecorded DEF MaybeTurn
      <3>4. ASSUME NEW c \in Callers, th = Call(c) PROVE image'.active => image'.turn # None
        BY <1>3, <2>1, <3>4, RecordOf, InteractionRecorded
      <3>5. ASSUME th = Boot PROVE image'.active => image'.turn # None
        <4>1. ev[th].turn \in MaybeTurn
          BY <1>3, RecordOf
        <4>2. CASE image' = RestoreResolved(image, ev[th].turn)
          BY <2>1, <4>1, <4>2, InteractionRecorded
        <4>3. CASE image' = RestoreTerminal(image, ev[th].turn)
          BY <2>1, <4>3 DEF RestoreTerminal, Images
        <4> QED
          BY <1>3, <3>5, <4>2, <4>3, RecordOf
      <3> QED
        BY <3>1, <3>2, <3>3, <3>4, <3>5 DEF Threads
    <2> QED
      BY <2>1, <2>2
  <1>4. ASSUME NEW t \in Turns, SendIdle(t) \/ Fail(t) PROVE TurnsNamed'
    BY <1>4 DEF SendIdle, SendNow, Fail, FailSubmission
  <1>5. CASE DispatchHead
    BY <1>5 DEF DispatchHead
  <1>6. ASSUME NEW c \in Callers, Close(c) \/ CloseFinish(c) PROVE TurnsNamed'
    BY <1>6 DEF Close, CloseSink, CloseFinish, FinishClose
  <1>7. ASSUME NEW c \in Callers, CloseLog(c) PROVE TurnsNamed'
    <2>1. /\ image \in Images
          /\ image' = [image EXCEPT !.status = "closed"] \/ image' = image
      BY <1>7 DEF CloseLog, AppendRecord, Restored, SafetyInv, TypeOK, RuntimeTypeOK, rtVars
    <2>2. image'.turn = image.turn /\ image'.pending = image.pending
      BY <2>1 DEF Images
    <2> QED
      BY <1>7, <2>1, <2>2 DEF CloseLog, AppendRecord, Images, rtVars
  <1>8. CASE Crash
    BY <1>8 DEF Crash, InsertRestored
  <1> QED
    BY <1>1, <1>2, <1>3, <1>4, <1>5, <1>6, <1>7, <1>8, Views

-----------------------------------------------------------------------------
(* When the agent asks.                                                    *)

\* A step that leaves the prompts and the interactions alone.
LEMMA AskedUntouched ==
    ASSUME AskedInTurn, UNCHANGED <<ask, prompt, cancelled>>,
           \A t \in Turns : ev'[Prompt(t)] = ev[Prompt(t)]
    PROVE  AskedInTurn'
  BY DEF AskedInTurn

\* The agent asks only in its turn, through every step.
LEMMA AskedNext ==
    ASSUME Uninterrupted, SafetyInv, OwnerInv, AskedInTurn, Next
    PROVE  AskedInTurn'
  <1> USE NoneAssumption, ThreadNames, ThreadsDiffer
      DEF SafetyInv, TypeOK, SystemTypeOK, AcpxTypeOK, OwnerInv
  <1>1. ASSUME NEW t \in Turns, TurnStep(t) PROVE AskedInTurn'
    <2>1. CASE SendIdle(t) \/ SendBusy(t) \/ SendRefuse(t) \/ Submit(t)
               \/ TryLock(t) \/ FinishSubmit(t) \/ FinishFail(t)
      BY <2>1, AskedUntouched
         DEF SendIdle, SendBusy, SendRefuse, Submit, TryLock, LockPrompt,
             PromptBusy, FinishSubmit, FinishFail, acpxVars
    <2>2. CASE BeginTurn(t) \/ Fail(t)
      BY <2>2, AskedUntouched DEF BeginTurn, SetTurn, Fail, acpxVars
    <2>3. CASE SelectionFails(t)
      BY <2>3 DEF SelectionFails, Uninterrupted
    <2>4. CASE LaunchPrompt(t)
      BY <2>4 DEF LaunchPrompt, StartPrompt, AskedInTurn, LockDiscipline
    <2>5. CASE PromptReturns(t)
      BY <2>5 DEF PromptReturns, FinishTurn, sysVars, AskedInTurn
    <2>6. CASE PromptUnlocks(t)
      <3>1. /\ UNCHANGED <<ask, cancelled>>
            /\ \A u \in Turns : u # t => prompt'[u] = prompt[u] /\ ev'[Prompt(u)] = ev[Prompt(u)]
            /\ prompt[t] \in {"ending", "muted"} /\ prompt'[t] \in {"emitting", "over"}
        BY <2>6 DEF PromptUnlocks, ReleasePrompt
      <3>2. ev'[Prompt(t)].pc \notin {"handled", "applied"} \/ t \notin cancelled
        BY <2>6 DEF PromptUnlocks, Emitted, AskedInTurn
      <3> QED
        BY <3>1, <3>2 DEF AskedInTurn
    <2>7. CASE PromptOver(t)
      BY <2>7 DEF PromptOver, PromptDone, sysVars, AskedInTurn
    <2>8. CASE AskHost(t)
      BY <2>8 DEF AskHost, AwaitInteraction, AskedInTurn
    <2>9. CASE AskAnswered(t)
      BY <2>9 DEF AskAnswered, RemoveInteraction, AskedInTurn
    <2> QED
      BY <1>1, <2>1, <2>2, <2>3, <2>4, <2>5, <2>6, <2>7, <2>8, <2>9 DEF TurnStep
  <1>2. ASSUME NEW c \in Callers, CallStep(c) PROVE AskedInTurn'
    <2>1. CASE Interrupt(c) \/ InterruptActive(c) \/ InterruptRead(c)
               \/ InterruptCancel(c) \/ InterruptTake(c) \/ InterruptWait(c)
               \/ InterruptCheck(c)
      BY <2>1, NotInterrupting
    <2>2. CASE (\E t \in Turns : Respond(c, t)) \/ RespondAdapter(c)
               \/ RespondCheck(c) \/ Return(c) \/ Close(c) \/ CloseFinish(c)
               \/ CloseLog(c)
      <3>1. UNCHANGED <<ask, prompt, cancelled>>
        BY <2>2 DEF Respond, RespondAdapter, TakeInteraction, RespondRejected,
                    RespondCheck, Return, Close, CloseFinish, CloseLog, acpxVars
      <3>2. \A t \in Turns : ev'[Prompt(t)] = ev[Prompt(t)]
        BY <2>2 DEF Respond, RespondAdapter, RespondCheck, Return, Close,
                    CloseFinish, CloseLog
      <3> QED
        BY <3>1, <3>2, AskedUntouched
    <2>3. CASE CloseAdapter(c)
      <3>1. UNCHANGED <<ask, prompt, ev>>
        BY <2>3 DEF CloseAdapter, StopSession, acpxVars
      <3>2. \A t \in Turns : t \in cancelled' => t \in cancelled \/ curTurn = t
        BY <2>3 DEF CloseAdapter, StopSession, acpxVars
      <3>3. cancelled \subseteq cancelled'
        BY <2>3 DEF CloseAdapter, StopSession, acpxVars
      <3>4. \A t \in Turns : curTurn = t => Quiet(Prompt(t))
        BY DEF OwnerLocked, LockDiscipline, EventOwners, PromptEvent
      <3> QED
        BY <3>1, <3>2, <3>3, <3>4 DEF AskedInTurn, Quiet, NoEvent
    <2> QED
      BY <1>2, <2>1, <2>2, <2>3 DEF CallStep
  <1>3. ASSUME NEW th \in Threads, DeliveryStep(th) PROVE AskedInTurn'
    <2>1. UNCHANGED <<ask, prompt, cancelled>>
      BY <1>3 DEF DeliveryStep, Deliver, Apply, Record, acpxVars
    <2>2. \A x \in Threads : x # th => ev'[x] = ev[x]
      BY <1>3 DEF DeliveryStep, Deliver, Apply, Record
    <2>3. ASSUME NEW t \in Turns, th = Prompt(t), t \in cancelled
          PROVE  ev'[th].pc \notin {"handled", "applied"}
      <3>1. ev[th].pc \notin {"handled", "applied"}
        BY <2>3 DEF AskedInTurn
      <3>2. Deliver(th) /\ sinkClosed
        BY <1>3, <2>3, <3>1 DEF DeliveryStep, Apply, Record, Closing
      <3> QED
        BY <3>2 DEF Deliver, NoEvent
    <2> QED
      BY <2>1, <2>2, <2>3 DEF AskedInTurn
  <1>4. CASE \E i \in 1..Len(queue) : RemoveQueuedTurn(i)
    BY <1>4, AskedUntouched DEF RemoveQueuedTurn, acpxVars
  <1>5. CASE Block \/ Unblock \/ DispatchQueued
    BY <1>5, AskedUntouched DEF Block, Unblock, DispatchQueued, sysVars, acpxVars
  <1>6. CASE Crash
    BY <1>6 DEF Crash, Reopen, AskedInTurn
  <1>7. CASE ReconcileFail \/ ReconcileDone
    BY <1>7, AskedUntouched DEF ReconcileFail, ReconcileDone, acpxVars
  <1> QED
    BY <1>1, <1>2, <1>3, <1>4, <1>5, <1>6, <1>7 DEF Next

-----------------------------------------------------------------------------
(* What the journal knows of the turn that asks.                           *)

\* A request past the sink belongs to a turn whose prompt has begun and whose
\* terminal event, if there is one, will be dropped.
LEMMA AskInFlight ==
    ASSUME SafetyInv, OwnerInv, AskedInTurn, NEW t \in Turns,
           ev[Ask(t)].pc \in {"handled", "applied"}
    PROVE  /\ Up /\ ask[t] = "open" /\ prompt[t] # "none"
           /\ sub[t] \notin {"submit", "trylock", "locked", "starting", "failing"}
           /\ ev[Prompt(t)].pc \notin {"handled", "applied"}
  <1> USE ThreadNames, ThreadsDiffer DEF OwnerInv, SafetyInv
  <1>1. ~Quiet(Ask(t))
    BY DEF Quiet, NoEvent
  <1>2. Up /\ ask[t] = "open"
    BY <1>1 DEF Closing, EventOwners, AskEvent
  <1>3. prompt[t] # "none"
    BY <1>2 DEF AskedInTurn
  <1>4. sub[t] \notin {"submit", "trylock", "locked", "starting", "failing"}
    BY <1>3 DEF LockDiscipline, OwnerLocked
  <1>5. ev[Prompt(t)].pc \notin {"handled", "applied"}
    <2>1. CASE t \in cancelled
      BY <2>1 DEF AskedInTurn
    <2>2. CASE t \notin cancelled
      <3>1. Quiet(Prompt(t))
        BY <1>2, <2>2 DEF AskedInTurn, EventOwners, PromptEvent
      <3> QED
        BY <3>1 DEF Quiet, NoEvent
    <2> QED
      BY <2>1, <2>2
  <1> QED
    BY <1>2, <1>3, <1>4, <1>5

\* Records of other turns, and of interactions, leave the journal's turn.
LEMMA TurnRecordKept ==
    ASSUME JournalWorks, SafetyInv, EventOwners, NEW th \in Threads, Record(th),
           NEW t \in Turns, image.active, image.turn = t,
           th # Prompt(t), th # Boot, \A u \in Turns : th # Send(u)
    PROVE  image'.active /\ image'.turn = t
  <1> USE NoneAssumption
  <1>1. image \in Images
    BY RecordOf
  <1>2. ASSUME NEW u \in Turns, th = Prompt(u) PROVE image'.active /\ image'.turn = t
    <2>1. u # t /\ image' = RestoreTerminal(image, u)
      BY <1>2, RecordOf
    <2> QED
      BY <1>1, <2>1, TerminalRecorded
  <1>3. ASSUME NEW u \in Turns, th = Ask(u) PROVE image'.active /\ image'.turn = t
    BY <1>1, <1>3, RecordOf, InteractionRecorded DEF MaybeTurn
  <1>4. ASSUME NEW c \in Callers, th = Call(c) PROVE image'.active /\ image'.turn = t
    BY <1>1, <1>4, RecordOf, InteractionRecorded
  <1> QED
    BY <1>2, <1>3, <1>4 DEF Threads

\* The record of a close changes the status only, or is not written.
LEMMA CloseRecorded ==
    ASSUME SafetyInv, NEW c \in Callers, CloseLog(c)
    PROVE  /\ image'.active = image.active /\ image'.turn = image.turn
           /\ image'.pending = image.pending /\ image'.status \in {image.status, "closed"}
           /\ UNCHANGED <<status, active, activeTurn, dispatching, pending, sinkClosed>>
  <1>1. image \in Images /\ (image' = [image EXCEPT !.status = "closed"] \/ image' = image)
    BY DEF CloseLog, AppendRecord, Restored, SafetyInv, TypeOK, RuntimeTypeOK, rtVars
  <1>2. /\ image'.active = image.active /\ image'.turn = image.turn
        /\ image'.pending = image.pending /\ image'.status \in {image.status, "closed"}
    BY <1>1 DEF Images
  <1> QED
    BY <1>2 DEF CloseLog, AppendRecord, rtVars

\* A request past the sink stays one of the active turn.
LEMMA AskOwnerNext ==
    ASSUME Uninterrupted, JournalWorks, SafetyInv, QuietThreads, OwnerInv,
           AskedInTurn, AskedOfOwner, Recorded, Next
    PROVE  AskedOfOwner'
  <1> SUFFICES ASSUME NEW t \in Turns, ev'[Ask(t)].pc \in {"handled", "applied"}
               PROVE  /\ \A u \in Turns : Owns(u)' => u = t
                      /\ ~Closed' => active' /\ activeTurn' = t
                      /\ image'.active /\ image'.turn = t
    BY DEF AskedOfOwner
  <1> USE NoneAssumption, ThreadNames, ThreadsDiffer
  <1>0. TypeOK /\ EventOwners /\ Closing
    BY DEF SafetyInv, OwnerInv
  <1>1. NewOwners
    BY OwnersNext
  <1>2. ~Crash
    BY DEF Crash, NoEvent
  <1>3. CASE ev[Ask(t)].pc \in {"handled", "applied"}
    <2>1. /\ Up /\ ask[t] = "open" /\ prompt[t] # "none"
          /\ sub[t] \notin {"submit", "trylock", "locked", "starting", "failing"}
          /\ ev[Prompt(t)].pc \notin {"handled", "applied"}
      BY <1>3, AskInFlight
    <2>2. /\ \A u \in Turns : Owns(u) => u = t
          /\ ~Closed => active /\ activeTurn = t
          /\ image.active /\ image.turn = t
      BY <1>3 DEF AskedOfOwner
    <2>3. \A u \in Turns : Owns(u)' => u = t
      BY <1>1, <2>2 DEF NewOwners, Idle
    <2>4. /\ ~Closed' => active' /\ activeTurn' = t
          /\ image'.active /\ image'.turn = t
      <3> DEFINE Goal == /\ ~Closed' => active' /\ activeTurn' = t
                         /\ image'.active /\ image'.turn = t
      <3>1. CASE ViewKept
        BY <2>2, <3>1 DEF ViewKept
      <3>2. ASSUME NEW th \in Threads, Apply(th) PROVE Goal
        <4>1. /\ image' = image /\ ev[th].pc = "handled" /\ ~Quiet(th)
          BY <1>0, <3>2, ApplyOf
        <4>2. ASSUME NEW u \in Turns, th = Prompt(u) PROVE FALSE
          <5>1. Owns(u)
            BY <1>0, <3>2, <4>1, <4>2, ApplyOf DEF Owns, Delivering
          <5> QED
            BY <2>1, <2>2, <4>1, <4>2, <5>1
        <4>3. ASSUME NEW u \in Turns, th = Send(u) PROVE FALSE
          <5>1. Owns(u) /\ sub[u] = "starting"
            BY <1>0, <3>2, <4>3, ApplyOf DEF Owns
          <5> QED
            BY <2>1, <2>2, <5>1
        <4>4. th # Boot
          BY <1>0, <2>1, <4>1 DEF EventOwners, BootEvent, Up
        <4>5. /\ active' = active /\ activeTurn' = activeTurn
              /\ Closed' <=> Closed
          BY <1>0, <3>2, <4>2, <4>3, <4>4, ApplyOf
             DEF Threads, ApplyInteractionRequested, ApplyInteractionResolved, Closed
        <4> QED
          BY <2>2, <4>1, <4>5
      <3>3. ASSUME NEW th \in Threads, Record(th) PROVE Goal
        <4>1. /\ UNCHANGED <<active, activeTurn, status>> /\ ~Quiet(th)
          BY <1>0, <3>3, RecordOf
        <4>2. th # Prompt(t)
          BY <2>1, <3>3 DEF Record
        <4>3. \A u \in Turns : th # Send(u)
          BY <1>0, <2>1, <2>2, <3>3, RecordOf DEF Owns
        <4>4. th # Boot
          BY <1>0, <2>1, <4>1 DEF EventOwners, BootEvent, Up
        <4>5. image'.active /\ image'.turn = t
          BY <1>0, <2>2, <3>3, <4>2, <4>3, <4>4, TurnRecordKept
        <4> QED
          BY <2>2, <4>1, <4>5 DEF Closed
      <3>4. ASSUME NEW u \in Turns, SendIdle(u) PROVE Goal
        BY <2>2, <3>4 DEF SendIdle, SendNow, Idle
      <3>5. ASSUME NEW u \in Turns, Fail(u) PROVE Goal
        <4>1. Owns(u) /\ sub[u] = "failing"
          BY <3>5 DEF Fail, Owns
        <4> QED
          BY <2>1, <2>2, <4>1
      <3>6. CASE DispatchHead
        BY <2>2, <3>6 DEF DispatchHead, ReadyToDispatch, Idle
      <3>7. ASSUME NEW c \in Callers, Close(c) \/ CloseFinish(c) PROVE Goal
        BY <2>2, <3>7 DEF Close, CloseSink, CloseFinish, FinishClose, Closed
      <3>8. ASSUME NEW c \in Callers, CloseLog(c) PROVE Goal
        BY <2>2, <3>8, CloseRecorded DEF Closed
      <3> QED
        BY <1>0, <1>2, <3>1, <3>2, <3>3, <3>4, <3>5, <3>6, <3>7, <3>8, Views
    <2> QED
      BY <2>3, <2>4
  <1>4. CASE ev[Ask(t)].pc \notin {"handled", "applied"}
    <2>1. Deliver(Ask(t)) /\ ~sinkClosed
      <3>1. DeliveryStep(Ask(t))
        BY <1>0, <1>2, <1>4, EventSteps
      <3>2. Deliver(Ask(t))
        BY <1>4, <3>1 DEF DeliveryStep, Apply, Record
      <3> QED
        BY <1>0, <3>2 DEF Deliver, NoEvent, TypeOK, SystemTypeOK
    <2>2. ask[t] = "open" /\ cancelled = {}
      BY <1>0, <2>1 DEF Deliver, EventOwners, AskEvent, Quiet, NoEvent, Closing
    <2>3. prompt[t] = "running"
      BY <2>2 DEF AskedInTurn
    <2>4. Owns(t) /\ active /\ activeTurn = t
      BY <2>1, <2>3, RunningKnown DEF Owns
    <2>5. image.active /\ image.turn = t
      BY <2>1, <2>3 DEF Recorded
    <2>6. \A u \in Turns : Owns(u)' => u = t
      BY <1>1, <2>4 DEF NewOwners, OwnerInv, OneOwner, Idle
    <2> QED
      BY <2>1, <2>4, <2>5, <2>6 DEF Deliver, rtVars
  <1> QED
    BY <1>3, <1>4

\* A crash is the only step that opens the sink again.
LEMMA SinkStaysShut ==
    ASSUME Uninterrupted, SafetyInv, OwnerInv, Next, ~Crash, sinkClosed
    PROVE  sinkClosed'
  <1>1. Closing /\ EventOwners
    BY DEF OwnerInv
  <1>2. ASSUME NEW th \in Threads, Apply(th) PROVE sinkClosed'
    BY <1>1, <1>2, ApplyOf
  <1>3. ASSUME NEW th \in Threads, Record(th) PROVE sinkClosed'
    BY <1>3 DEF Record, AppendRecord, rtVars
  <1> QED
    BY <1>1, <1>2, <1>3, Views
       DEF ViewKept, SendIdle, SendNow, Fail, FailSubmission, DispatchHead,
           Close, CloseSink, CloseFinish, FinishClose, CloseLog, AppendRecord, rtVars

\* The journal keeps the turn_started of every prompt that runs.
LEMMA RecordedNext ==
    ASSUME Uninterrupted, JournalWorks, SafetyInv, OwnerInv, Recorded, Next
    PROVE  Recorded'
  <1> USE NoneAssumption, ThreadNames, ThreadsDiffer
  <1>0. TypeOK /\ EventOwners /\ Closing /\ LockDiscipline
    BY DEF SafetyInv, OwnerInv
  <1> DEFINE Begun(t) == prompt[t] = "running" \/ (sub[t] = "starting" /\ Quiet(Send(t)))
  <1> SUFFICES ASSUME NEW t \in Turns, ~sinkClosed', Begun(t)'
               PROVE  image'.active /\ image'.turn = t
    BY DEF Recorded
  <1>1. ~Crash
    BY DEF Crash, Reopen
  <1>2. ~sinkClosed
    BY <1>1, SinkStaysShut
  <1>3. Begun(t) \/ Record(Send(t))
    <2>1. CASE prompt'[t] = "running"
      BY <2>1, StartSteps DEF LaunchPrompt
    <2>2. CASE sub'[t] = "starting" /\ Quiet(Send(t))'
      <3>1. ev'[Send(t)] = NoEvent
        BY <2>2 DEF Quiet
      <3>2. sub[t] = "starting"
        <4>1. CASE BeginTurn(t)
          BY <1>0, <3>1, <4>1 DEF BeginTurn, Emitted, NoEvent, TypeOK, SystemTypeOK
        <4> QED
          BY <2>2, <4>1, StartSteps
      <3>3. ev[Send(t)] = NoEvent \/ DeliveryStep(Send(t))
        BY <1>0, <1>1, <3>1, EventSteps DEF NoEvent
      <3>4. ~Apply(Send(t))
        BY <1>0, <3>1, ApplyOf DEF NoEvent
      <3>5. ~Deliver(Send(t))
        <4>1. ASSUME Deliver(Send(t)) PROVE FALSE
          <5>1. ev[Send(t)] \in Events
            BY <1>0, <4>1, InDelivery DEF Deliver, TypeOK
          <5> QED
            BY <1>0, <1>2, <3>1, <4>1, <5>1
               DEF Deliver, NoEvent, Events, TypeOK, SystemTypeOK
        <4> QED
          BY <4>1
      <3> QED
        BY <3>2, <3>3, <3>4, <3>5 DEF Quiet, DeliveryStep
    <2> QED
      BY <2>1, <2>2
  <1>4. CASE Record(Send(t))
    BY <1>0, <1>4, RecordOf, StartRecorded
  <1>5. CASE Begun(t)
    <2>1. image.active /\ image.turn = t
      BY <1>2, <1>5 DEF Recorded
    <2>2. Owns(t) /\ ~Unstarted(t)
      <3>1. CASE prompt[t] = "running"
        <4>1. sub[t] \notin {"submit", "trylock", "locked", "starting", "failing"}
          BY <1>0, <3>1 DEF LockDiscipline, OwnerInv, OwnerLocked
        <4> QED
          BY <3>1, <4>1 DEF Owns, Unstarted
      <3>2. CASE sub[t] = "starting" /\ Quiet(Send(t))
        <4>1. ~Delivering(Send(t))
          BY <3>2 DEF Delivering, Quiet, NoEvent
        <4> QED
          BY <3>2, <4>1 DEF Owns, Unstarted
      <3> QED
        BY <1>5, <3>1, <3>2
    <2>3. Up /\ active /\ ~Closed
      BY <1>2, <2>2 DEF OwnerInv, OwnerKnown
    <2>4. Quiet(Prompt(t)) /\ (sub[t] = "starting" => Quiet(Send(t)))
      BY <1>0, <1>5 DEF EventOwners, PromptEvent, LockDiscipline
    <2> DEFINE Goal == image'.active /\ image'.turn = t
    <2>5. CASE ViewKept
      BY <2>1, <2>5 DEF ViewKept
    <2>6. ASSUME NEW th \in Threads, Apply(th) PROVE Goal
      BY <1>0, <2>1, <2>6, ApplyOf
    <2>7. ASSUME NEW th \in Threads, Record(th) PROVE Goal
      <3>1. ~Quiet(th)
        BY <1>0, <2>7, RecordOf
      <3>2. th # Prompt(t)
        BY <2>4, <3>1
      <3>3. th # Boot
        BY <1>0, <2>3, <3>1 DEF EventOwners, BootEvent, Up
      <3>4. \A u \in Turns : th # Send(u)
        <4>1. ASSUME NEW u \in Turns, th = Send(u) PROVE FALSE
          <5>1. sub[u] = "starting"
            BY <1>0, <2>7, <4>1, RecordOf
          <5>2. u = t
            BY <2>2, <5>1 DEF Owns, OwnerInv, OneOwner
          <5> QED
            BY <2>4, <3>1, <4>1, <5>1, <5>2
        <4> QED
          BY <4>1
      <3> QED
        BY <1>0, <2>1, <2>7, <3>2, <3>3, <3>4, TurnRecordKept
    <2>8. ASSUME NEW u \in Turns, SendIdle(u) \/ Fail(u) PROVE Goal
      BY <2>1, <2>8 DEF SendIdle, SendNow, Fail, FailSubmission
    <2>9. CASE DispatchHead
      BY <2>1, <2>9 DEF DispatchHead
    <2>10. ASSUME NEW c \in Callers, Close(c) \/ CloseFinish(c) PROVE Goal
      BY <2>1, <2>10 DEF Close, CloseSink, CloseFinish, FinishClose
    <2>11. ASSUME NEW c \in Callers, CloseLog(c) PROVE Goal
      BY <2>1, <2>11, CloseRecorded
    <2> QED
      BY <1>0, <1>1, <2>5, <2>6, <2>7, <2>8, <2>9, <2>10, <2>11, Views
  <1> QED
    BY <1>3, <1>4, <1>5

\* The journal never tells of an interaction without telling of a turn.
LEMMA PendingRecordedNext ==
    ASSUME Uninterrupted, JournalWorks, SafetyInv, OwnerInv, AskedOfOwner,
           PendingRecorded, Next
    PROVE  PendingRecorded'
  <1> USE NoneAssumption, ThreadNames, ThreadsDiffer
  <1>0. TypeOK /\ EventOwners /\ Closing /\ image \in Images
    BY DEF SafetyInv, OwnerInv, TypeOK, RuntimeTypeOK
  <1>1. CASE image' = image
    BY <1>1 DEF PendingRecorded
  <1>2. ASSUME NEW th \in Threads, Record(th) PROVE PendingRecorded'
    <2>1. ASSUME NEW t \in Turns, th = Prompt(t) PROVE PendingRecorded'
      <3>1. image' = RestoreTerminal(image, t)
        BY <1>0, <1>2, <2>1, RecordOf
      <3> QED
        BY <1>0, <3>1, TerminalRecorded DEF PendingRecorded
    <2>2. ASSUME NEW t \in Turns, th = Send(t) PROVE PendingRecorded'
      BY <1>0, <1>2, <2>2, RecordOf, StartRecorded DEF PendingRecorded
    <2>3. ASSUME NEW t \in Turns, th = Ask(t) PROVE PendingRecorded'
      <3>1. image.active
        BY <1>2, <2>3 DEF Record, AskedOfOwner
      <3> QED
        BY <1>0, <1>2, <2>3, <3>1, RecordOf, InteractionRecorded DEF PendingRecorded, MaybeTurn
    <2>4. ASSUME NEW x \in MaybeTurn, image' = RestoreResolved(image, x)
          PROVE  PendingRecorded'
      BY <1>0, <2>4, InteractionRecorded DEF PendingRecorded
    <2>5. ASSUME NEW x \in MaybeTurn, image' = RestoreTerminal(image, x)
          PROVE  PendingRecorded'
      BY <1>0, <2>5 DEF PendingRecorded, RestoreTerminal, Images
    <2> QED
      BY <1>0, <1>2, <2>1, <2>2, <2>3, <2>4, <2>5, RecordOf DEF Threads
  <1>3. ASSUME NEW c \in Callers, CloseLog(c) PROVE PendingRecorded'
    BY <1>3, CloseRecorded DEF PendingRecorded
  <1>4. ASSUME NEW th \in Threads, Apply(th) PROVE image' = image
    BY <1>0, <1>4, ApplyOf
  <1> QED
    BY <1>0, <1>1, <1>2, <1>3, <1>4, Views
       DEF ViewKept, SendIdle, SendNow, Fail, FailSubmission, DispatchHead,
           Close, CloseSink, CloseFinish, FinishClose, Crash, InsertRestored

-----------------------------------------------------------------------------
(* Restore.                                                                *)

\* While the host is down, only Restore's own goroutine does anything that
\* the session or its journal shows.
LEMMA DownSteps ==
    ASSUME Uninterrupted, SafetyInv, OwnerInv, Next, ~Up
    PROVE  \/ ViewKept /\ UNCHANGED <<phase, status>> /\ ev'[Boot] = ev[Boot]
           \/ DeliveryStep(Boot) \/ ReconcileFail \/ ReconcileDone \/ Crash
  <1> USE ThreadNames, ThreadsDiffer DEF SafetyInv, OwnerInv, TypeOK, SystemTypeOK
  <1>1. /\ queue = << >>
        /\ \A c \in Callers : cpc[c] = "idle"
        /\ \A th \in Threads : th # Boot => Quiet(th)
        /\ \A t \in Turns : ~Owns(t)
    BY DEF Closing, OwnerKnown
  <1>2. ASSUME NEW t \in Turns, TurnStep(t)
        PROVE  ViewKept /\ UNCHANGED <<phase, status>> /\ ev'[Boot] = ev[Boot]
    <2>1. /\ sub[t] \notin {"submit", "trylock", "locked", "starting", "failing"}
          /\ prompt[t] \notin {"running", "ending", "muted"} /\ cancelled = {}
      BY <1>1 DEF Owns, OwnerLocked, Closing
    <2>2. ~(SendIdle(t) \/ SendBusy(t) \/ SendRefuse(t))
      BY DEF SendIdle, SendBusy, SendRefuse
    <2>3. ~(Submit(t) \/ TryLock(t) \/ SelectionFails(t) \/ BeginTurn(t)
            \/ LaunchPrompt(t) \/ Fail(t))
      BY <2>1 DEF Submit, TryLock, SelectionFails, BeginTurn, LaunchPrompt, Fail
    <2>4. ~(PromptReturns(t) \/ PromptUnlocks(t) \/ AskHost(t))
      BY <2>1 DEF PromptReturns, FinishTurn, PromptUnlocks, ReleasePrompt, AskHost
    <2>5. CASE FinishSubmit(t) \/ FinishFail(t) \/ PromptOver(t) \/ AskAnswered(t)
      BY <2>5 DEF FinishSubmit, SubmitReturned, FinishFail, PromptOver,
                  AskAnswered, rtVars, sysVars, ViewKept, Closed
    <2> QED
      BY <1>2, <2>2, <2>3, <2>4, <2>5 DEF TurnStep
  <1>3. ASSUME NEW c \in Callers PROVE ~CallStep(c)
    BY <1>1 DEF CallStep, Step, Interrupt, InterruptActive, InterruptRead,
                InterruptCancel, InterruptTake, InterruptWait, InterruptCheck,
                Respond, RespondAdapter, RespondCheck, Close, CloseAdapter,
                CloseFinish, CloseLog, Return
  <1>4. ASSUME NEW th \in Threads, DeliveryStep(th) PROVE th = Boot
    BY <1>1, <1>4 DEF DeliveryStep, Deliver, Apply, Record, Quiet, NoEvent
  <1>5. ~(Block \/ Unblock \/ \E i \in 1..Len(queue) : RemoveQueuedTurn(i))
    BY DEF Block, Unblock, RemoveQueuedTurn
  <1>6. CASE DispatchQueued
    BY <1>1, <1>6 DEF DispatchQueued, DispatchHead, ReadyToDispatch,
                      DispatchNothing, rtVars, ViewKept, Closed
  <1> QED
    BY <1>2, <1>3, <1>4, <1>5, <1>6 DEF Next

\* Restore resolves what the journal left active, step by step.
LEMMA ReconcilingNext ==
    ASSUME Uninterrupted, JournalWorks, SafetyInv, NoTurnWhenIdle, OwnerInv,
           TurnsNamed, Reconciling, Next
    PROVE  Reconciling'
  <1> USE NoneAssumption, ThreadNames
  <1>0. /\ TypeOK /\ EventOwners /\ Closing
        /\ image \in Images /\ ev \in [Threads -> Events \cup {NoEvent}]
        /\ phase \in Phases
    BY DEF SafetyInv, OwnerInv, TypeOK, RuntimeTypeOK, SystemTypeOK
  <1>1. CASE Crash
    <2>1. /\ active' = image.active /\ activeTurn' = image.turn /\ ~dispatching'
          /\ image' = image
          /\ phase' = Reconcile(image).phase /\ ev'[Boot] = Reconcile(image).event
      BY <1>1 DEF Crash, InsertRestored
    <2>2. CASE ~image.active
      <3>1. phase' = "up"
        BY <2>1, <2>2 DEF Reconcile
      <3> QED
        BY <3>1 DEF Reconciling, Up
    <2>3. CASE image.active /\ image.pending # None
      <3>1. phase' = "resolve"
        BY <2>1, <2>3 DEF Reconcile
      <3> QED
        BY <2>1, <2>3, <3>1 DEF Reconciling
    <2>4. CASE image.active /\ image.pending = None
      <3>1. phase' = "fail" /\ ev'[Boot] = Emitted("terminal", image.turn)
        BY <2>1, <2>4 DEF Reconcile
      <3>2. /\ Delivering(Boot)' /\ ev'[Boot].turn = image.turn
            /\ ev'[Boot].pc = "raw" /\ ~Quiet(Boot)'
        BY <3>1 DEF Delivering, Emitted, Quiet, NoEvent
      <3> QED
        BY <2>1, <2>4, <3>1, <3>2 DEF Reconciling
    <2> QED
      BY <2>2, <2>3, <2>4
  <1>2. CASE Up /\ ~Crash
    <2>1. phase' = "up"
      BY <1>2, StaysUp DEF Up
    <2> QED
      BY <2>1 DEF Reconciling, Up
  <1>3. CASE ~Up
    <2>1. CASE ViewKept /\ UNCHANGED phase /\ ev'[Boot] = ev[Boot]
      BY <2>1 DEF ViewKept, Reconciling, Up, Delivering, Quiet
    <2>2. CASE Deliver(Boot)
      <3>1. UNCHANGED <<active, dispatching, activeTurn, pending, image, phase>>
        BY <2>2 DEF Deliver, rtVars
      <3>2. ~sinkClosed /\ ev[Boot] \in Events /\ Delivering(Boot) /\ ~Quiet(Boot)
        BY <1>0, <1>3, <2>2, InDelivery
           DEF Closing, Deliver, TypeOK, Delivering, Quiet, NoEvent
      <3>3. /\ ev'[Boot].pc = "handled"
            /\ ev[Boot].turn # None => ev'[Boot].turn = ev[Boot].turn
        BY <1>0, <2>2, <3>2 DEF Deliver, Events, StampedTurn
      <3>4. Delivering(Boot)' /\ ~Quiet(Boot)'
        BY <3>3 DEF Delivering, Quiet, NoEvent
      <3> QED
        BY <3>1, <3>2, <3>3, <3>4 DEF Reconciling, TurnsNamed, Up
    <2>3. CASE Apply(Boot)
      <3>1. /\ UNCHANGED <<phase, image>> /\ ev[Boot].pc = "handled" /\ ev[Boot] \in Events
            /\ ev'[Boot].pc = "applied" /\ ev'[Boot].turn = ev[Boot].turn
            /\ \/ phase = "resolve" /\ ApplyInteractionResolved(ev[Boot].turn)
               \/ phase = "fail" /\ ApplyTerminal(ev[Boot].turn)
        BY <1>0, <2>3, ApplyOf
      <3>2. ~Delivering(Boot)' /\ ~Quiet(Boot)' /\ Delivering(Boot)
        BY <3>1 DEF Delivering, Quiet, NoEvent
      <3>3. CASE phase = "resolve" /\ ApplyInteractionResolved(ev[Boot].turn)
        BY <1>3, <3>1, <3>2, <3>3 DEF ApplyInteractionResolved, Reconciling, Up
      <3>4. CASE phase = "fail" /\ ApplyTerminal(ev[Boot].turn)
        <4>1. ev[Boot].turn = activeTurn /\ image.active /\ image.turn = activeTurn
          BY <3>2, <3>4 DEF Reconciling
        <4>2. ~active' /\ ~dispatching' /\ pending' = None
          BY <3>4, <4>1 DEF ApplyTerminal, TerminalMatches
        <4> QED
          BY <3>1, <3>2, <3>4, <4>1, <4>2 DEF Reconciling, Up
      <3> QED
        BY <3>1, <3>3, <3>4
    <2>4. CASE Record(Boot)
      <3>1. /\ UNCHANGED <<phase, active, activeTurn, dispatching, pending>>
            /\ ev'[Boot] = NoEvent /\ ev[Boot].turn \in MaybeTurn
            /\ \/ /\ phase = "resolve"
                  /\ image' = RestoreResolved(image, ev[Boot].turn)
               \/ /\ phase = "fail"
                  /\ image' = RestoreTerminal(image, ev[Boot].turn)
        BY <1>0, <2>4, RecordOf
      <3>2. ~Delivering(Boot)' /\ Quiet(Boot)' /\ ev[Boot].pc = "applied" /\ ~Delivering(Boot)
        BY <2>4, <3>1 DEF Delivering, Quiet, NoEvent, Record
      <3>3. CASE phase = "resolve"
        <4>1. image'.active = image.active /\ image'.turn = image.turn
          BY <1>0, <3>1, <3>3, InteractionRecorded
        <4> QED
          BY <1>3, <3>1, <3>2, <3>3, <4>1 DEF Reconciling, Up
      <3>4. CASE phase = "fail"
        <4>1. image' = RestoreTerminal(image, image.turn)
          BY <3>1, <3>2, <3>4 DEF Reconciling
        <4>2. ~image'.active /\ image'.pending = None
          BY <1>0, <4>1 DEF RestoreTerminal, Images
        <4> QED
          BY <1>3, <3>1, <3>2, <3>4, <4>2 DEF Reconciling, Up, NoEvent
      <3> QED
        BY <3>1, <3>3, <3>4
    <2>5. CASE ReconcileFail
      <3>1. /\ UNCHANGED <<active, dispatching, activeTurn, pending, image>>
            /\ phase = "resolve" /\ phase' = "fail"
            /\ ev'[Boot] = Emitted("terminal", activeTurn)
        BY <1>0, <2>5 DEF ReconcileFail, rtVars
      <3>2. /\ Delivering(Boot)' /\ ev'[Boot].turn = activeTurn
            /\ ev'[Boot].pc = "raw" /\ ~Quiet(Boot)'
        BY <3>1 DEF Delivering, Emitted, Quiet, NoEvent
      <3> QED
        BY <1>3, <3>1, <3>2 DEF Reconciling, Up
    <2>6. CASE ReconcileDone
      BY <2>6 DEF ReconcileDone, Reconciling, Up
    <2> QED
      BY <1>1, <1>3, <2>1, <2>2, <2>3, <2>4, <2>5, <2>6, DownSteps DEF DeliveryStep
  <1> QED
    BY <1>1, <1>2, <1>3

-----------------------------------------------------------------------------
(* The pending interaction.                                                *)

\* An interaction stays pending no longer than its turn stays active.
LEMMA PendingNext ==
    ASSUME Uninterrupted, JournalWorks, SafetyInv, OwnerInv, AskedOfOwner,
           PendingRecorded, Reconciling, PendingHasTurn, Next
    PROVE  PendingHasTurn'
  <1> USE NoneAssumption, ThreadNames, ThreadsDiffer
  <1>0. TypeOK /\ EventOwners /\ Closing
    BY DEF SafetyInv, OwnerInv
  <1> SUFFICES ASSUME Up', ~Closed', pending' # None
               PROVE  active' /\ activeTurn' = pending'
    BY DEF PendingHasTurn
  <1> DEFINE Goal == active' /\ activeTurn' = pending'
  <1>1. ~Crash
    <2> SUFFICES ASSUME Crash PROVE FALSE
      OBVIOUS
    <2>1. status' = image.status /\ pending' = image.pending /\ phase' = Reconcile(image).phase
      BY DEF Crash, InsertRestored
    <2>2. image.active
      BY <2>1 DEF PendingRecorded, Closed
    <2> QED
      BY <2>1, <2>2 DEF Reconcile, Up
  <1>2. Up
    <2> SUFFICES ASSUME ~Up PROVE FALSE
      OBVIOUS
    <2>1. CASE ReconcileDone
      <3>1. phase = "fail" /\ Quiet(Boot) /\ pending' = pending
        BY <2>1 DEF ReconcileDone, rtVars
      <3>2. ~Delivering(Boot)
        BY <3>1 DEF Delivering, Quiet, NoEvent
      <3> QED
        BY <3>1, <3>2 DEF Reconciling
    <2>2. CASE DeliveryStep(Boot)
      BY <2>2 DEF DeliveryStep, Deliver, Apply, Record, Up
    <2>3. CASE ReconcileFail
      BY <2>3 DEF ReconcileFail, Up
    <2> QED
      BY <1>1, <2>1, <2>2, <2>3, DownSteps DEF Up
  <1>3. CASE ViewKept
    BY <1>2, <1>3 DEF ViewKept, PendingHasTurn
  <1>4. ASSUME NEW th \in Threads, Apply(th) PROVE Goal
    <2>1. ASSUME NEW t \in Turns, th = Prompt(t) PROVE Goal
      <3>1. ApplyTerminal(t)
        BY <1>0, <1>4, <2>1, ApplyOf
      <3> QED
        BY <1>2, <3>1 DEF ApplyTerminal, PendingHasTurn, Closed
    <2>2. ASSUME NEW t \in Turns, th = Send(t) PROVE Goal
      <3>1. ApplyTurnStarted(t) /\ sub[t] = "starting" /\ ev[Send(t)].pc = "handled"
        BY <1>0, <1>4, <2>2, ApplyOf
      <3>2. pending' = pending /\ ~Closed
        BY <3>1 DEF ApplyTurnStarted, Closed
      <3>3. ~active
        BY <3>1, <3>2 DEF OwnerInv, OwnerKnown, Owns, Unstarted, Delivering
      <3> QED
        BY <1>2, <3>2, <3>3 DEF PendingHasTurn
    <2>3. ASSUME NEW t \in Turns, th = Ask(t) PROVE Goal
      <3>1. ApplyInteractionRequested(t) /\ ev[Ask(t)].pc = "handled"
        BY <1>0, <1>4, <2>3, ApplyOf
      <3>2. ~Closed
        BY <3>1 DEF ApplyInteractionRequested, Closed
      <3>3. active /\ activeTurn = t
        BY <3>1, <3>2 DEF AskedOfOwner
      <3> QED
        BY <3>1, <3>3 DEF ApplyInteractionRequested
    <2>4. ASSUME NEW c \in Callers, th = Call(c) PROVE Goal
      <3>1. ApplyInteractionResolved(ev[th].turn)
        BY <1>0, <1>4, <2>4, ApplyOf
      <3> QED
        BY <1>2, <3>1 DEF ApplyInteractionResolved, PendingHasTurn, Closed
    <2>5. th # Boot
      BY <1>0, <1>2, <1>4, ApplyOf DEF Up
    <2> QED
      BY <2>1, <2>2, <2>3, <2>4, <2>5 DEF Threads
  <1>5. ASSUME NEW th \in Threads, Record(th) PROVE Goal
    <2>1. UNCHANGED <<active, activeTurn, pending, status>>
      BY <1>0, <1>5, RecordOf
    <2> QED
      BY <1>2, <2>1 DEF PendingHasTurn, Closed
  <1>6. ASSUME NEW t \in Turns, SendIdle(t) PROVE Goal
    BY <1>2, <1>6 DEF SendIdle, SendNow, Idle, PendingHasTurn
  <1>7. ASSUME NEW t \in Turns, Fail(t) PROVE Goal
    <2>1. sub[t] = "failing" /\ pending' = pending /\ ~Closed
      BY <1>7 DEF Fail, FailSubmission, Closed
    <2>2. ~active
      BY <2>1 DEF OwnerInv, OwnerKnown, Owns, Unstarted
    <2> QED
      BY <1>2, <2>1, <2>2 DEF PendingHasTurn
  <1>8. CASE DispatchHead
    BY <1>2, <1>8 DEF DispatchHead, ReadyToDispatch, Idle, PendingHasTurn
  <1>9. ASSUME NEW c \in Callers, Close(c) PROVE Goal
    BY <1>2, <1>9 DEF Close, CloseSink, PendingHasTurn
  <1>10. ASSUME NEW c \in Callers PROVE ~CloseFinish(c)
    BY DEF CloseFinish, FinishClose, Closed
  <1>11. ASSUME NEW c \in Callers, CloseLog(c) PROVE Goal
    BY <1>2, <1>11, CloseRecorded DEF PendingHasTurn, Closed
  <1> QED
    BY <1>0, <1>1, <1>3, <1>4, <1>5, <1>6, <1>7, <1>8, <1>9, <1>10, <1>11, Views

\* A new session has no turn, no event and an empty journal.
LEMMA InitAsk == Init => AskInv
  <1> SUFFICES ASSUME Init PROVE AskInv
    OBVIOUS
  <1> USE NoneAssumption, ThreadNames DEF Init
  <1>1. ~active /\ pending = None /\ image = EmptyImage
    BY DEF RuntimeInit
  <1>2. ~image.active /\ image.pending = None
    BY <1>1 DEF EmptyImage
  <1>3. \A t \in Turns : prompt[t] = "none" /\ t \notin cancelled
    BY DEF AcpxInit
  <1>4. \A th \in Threads : ev[th].pc = "none"
    BY DEF NoEvent
  <1>5. TurnsNamed /\ PendingRecorded /\ PendingHasTurn
    BY <1>1, <1>2 DEF TurnsNamed, PendingRecorded, PendingHasTurn
  <1>6. AskedInTurn /\ AskedOfOwner /\ Recorded
    BY <1>3, <1>4 DEF AskedInTurn, AskedOfOwner, Recorded
  <1>7. Reconciling
    BY DEF Reconciling, Up
  <1> QED
    BY <1>5, <1>6, <1>7 DEF AskInv

\* A step that changes nothing keeps it.
LEMMA StutterAsk == AskInv /\ UNCHANGED vars => AskInv'
  <1> SUFFICES ASSUME AskInv, UNCHANGED vars PROVE AskInv'
    OBVIOUS
  <1> USE DEF AskInv, vars, rtVars, acpxVars, sysVars, callVars
  <1>1. TurnsNamed' /\ PendingRecorded' /\ PendingHasTurn'
    BY DEF TurnsNamed, PendingRecorded, PendingHasTurn, Up, Closed
  <1>2. AskedInTurn' /\ Recorded'
    BY DEF AskedInTurn, Recorded, Quiet
  <1>3. AskedOfOwner'
    BY DEF AskedOfOwner, Owns, Delivering, Closed
  <1>4. Reconciling'
    BY DEF Reconciling, Up, Delivering, Quiet
  <1> QED
    BY <1>1, <1>2, <1>3, <1>4

\* Every step keeps it.
LEMMA NextAsk ==
    ASSUME Uninterrupted, JournalWorks, SafetyInv, DeliveryInv, OwnerInv, AskInv, Next
    PROVE  AskInv'
  BY NamedNext, AskedNext, AskOwnerNext, RecordedNext, PendingRecordedNext,
     ReconcilingNext, PendingNext DEF AskInv, DeliveryInv

\* The journal keeps up with the turn that asks, whatever crashes.
THEOREM AskInvariance ==
    ASSUME Uninterrupted, JournalWorks PROVE Spec => []AskInv
  <1>1. Init => AskInv
    BY InitAsk
  <1>2. SafetyInv /\ DeliveryInv /\ OwnerInv /\ AskInv /\ [Next]_vars => AskInv'
    BY NextAsk, StutterAsk
  <1> QED
    BY <1>1, <1>2, SafetyInvariance, DeliveryInvariance, OwnerInvariance, PTL DEF Spec

\* PendingHasTurn of TurnSystem: an open session that is up has an interaction
\* pending only while the turn that requested it is active, although the
\* request, the terminal event and the answer are delivered by goroutines of
\* their own and a crash may cut any of them short.
THEOREM InteractionHasTurn ==
    ASSUME Uninterrupted, JournalWorks PROVE Spec => []PendingHasTurn
  BY AskInvariance, PTL DEF AskInv

\* Restore comes back with nothing left over, in memory and in the journal.
LEMMA Restoring ==
    ASSUME Uninterrupted, JournalWorks, SafetyInv, OwnerInv, AskInv, Next,
           phase # "up", phase' = "up"
    PROVE  Idle' /\ pending' = None /\ ~image'.active
  <1> USE ThreadNames
  <1>0. Reconciling /\ phase \in Phases /\ ~Up
    BY DEF AskInv, SafetyInv, TypeOK, SystemTypeOK, Up
  <1>1. CASE Crash
    <2>1. /\ active' = image.active /\ ~dispatching' /\ image' = image
          /\ pending' = image.pending /\ phase' = Reconcile(image).phase
      BY <1>1 DEF Crash, InsertRestored
    <2>2. ~image.active
      BY <2>1 DEF Reconcile
    <2>3. phase = "fail" /\ ~Delivering(Boot)
      BY <1>0, <2>2 DEF Reconciling, Phases
    <2>4. ev[Boot].pc # "applied"
      BY <2>2, <2>3, <1>0 DEF Reconciling
    <2>5. Quiet(Boot)
      BY <2>3, <2>4 DEF SafetyInv, TypeOK, SystemTypeOK, Events, Quiet, Delivering
    <2> QED
      BY <1>0, <2>1, <2>2, <2>3, <2>5 DEF Reconciling, Idle
  <1>2. CASE ReconcileDone
    <2>1. /\ phase = "fail" /\ Quiet(Boot)
          /\ UNCHANGED <<active, dispatching, pending, image>>
      BY <1>2 DEF ReconcileDone, rtVars
    <2>2. ~Delivering(Boot)
      BY <2>1 DEF Delivering, Quiet, NoEvent
    <2> QED
      BY <1>0, <2>1, <2>2 DEF Reconciling, Idle
  <1>3. CASE DeliveryStep(Boot) \/ ReconcileFail
    BY <1>3 DEF DeliveryStep, Deliver, Apply, Record, ReconcileFail
  <1> QED
    BY <1>0, <1>1, <1>2, <1>3, DownSteps

\* ReconcileResolves of TurnSystem: when Restore returns, the session is idle
\* and waits for nothing, and a second restart would find no active turn, also
\* when the host died in the middle of an earlier Restore.
THEOREM RestoreResolves ==
    ASSUME Uninterrupted, JournalWorks PROVE Spec => ReconcileResolves
  <1>1. SafetyInv /\ OwnerInv /\ AskInv /\ [Next]_vars
          => [phase # "up" /\ phase' = "up" =>
                Idle' /\ pending' = None /\ ~image'.active]_vars
    BY Restoring DEF vars
  <1> QED
    BY <1>1, SafetyInvariance, OwnerInvariance, AskInvariance, PTL DEF Spec, ReconcileResolves

-----------------------------------------------------------------------------
(* The journal.                                                            *)

\* An event that changed the session and whose record is still to be appended.
Unrecorded(th, kind, t) ==
    ev[th].kind = kind /\ ev[th].pc = "applied" /\ ev[th].turn = t

\* Memory and journal differ by the record that is under way, and by no other.
JournalBehind ==
    /\ image.active =>
          \/ active /\ activeTurn = image.turn
          \/ \E th \in Threads : Unrecorded(th, "terminal", image.turn)
    /\ active =>
          \/ image.active /\ image.turn = activeTurn
          \/ \E th \in Threads : Unrecorded(th, "turn_started", activeTurn)
    /\ \A th \in Threads : ~Unrecorded(th, "terminal", activeTurn)

\* An event is applied, and gets its record, in a step of its own each: no
\* goroutine emits another before.
LEMMA AppliedSteps ==
    ASSUME Uninterrupted, SafetyInv, QuietThreads, OwnerInv, Next, ~Crash,
           NEW x \in Threads
    PROVE  /\ ev'[x].pc = "applied" => ev'[x] = ev[x] \/ Apply(x)
           /\ ev[x].pc = "applied" => ev'[x] = ev[x] \/ Record(x)
  <1> USE ThreadNames, ThreadsDiffer DEF SafetyInv, TypeOK, SystemTypeOK, Emitted
  <1>1. ev'[x] = ev[x] \/ ev'[x].pc = "raw" \/ DeliveryStep(x)
    BY EventSteps
  <1>2. ASSUME Deliver(x) PROVE ev'[x].pc # "applied" /\ ev[x].pc # "applied"
    <2>1. ev[x] \in Events /\ ev[x].pc = "raw"
      BY <1>2, InDelivery DEF Deliver
    <2> QED
      BY <1>2, <2>1 DEF Deliver, Events, NoEvent
  <1>3. ASSUME Record(x) PROVE ev'[x].pc # "applied"
    BY <1>3 DEF Record, NoEvent
  <1>4. ASSUME Apply(x) PROVE ev[x].pc # "applied"
    BY <1>4 DEF Apply
  <1>5. ASSUME ev[x].pc = "applied", ev'[x] # ev[x], ~DeliveryStep(x) PROVE FALSE
    <2>0. ~Quiet(x) /\ EventOwners /\ Closing
      BY <1>5 DEF Quiet, NoEvent, OwnerInv
    <2>1. ASSUME NEW t \in Turns, TurnStep(t) PROVE FALSE
      <3>1. CASE BeginTurn(t)
        BY <1>5, <2>0, <3>1 DEF BeginTurn, QuietThreads
      <3>2. CASE Fail(t)
        BY <1>5, <2>0, <3>2 DEF Fail, QuietThreads
      <3>3. CASE AskHost(t)
        BY <1>5, <2>0, <3>3 DEF AskHost, QuietThreads
      <3>4. CASE PromptUnlocks(t)
        BY <1>5, <2>0, <3>4 DEF PromptUnlocks, EventOwners, PromptEvent
      <3>5. CASE SendIdle(t) \/ SendBusy(t) \/ SendRefuse(t) \/ Submit(t)
                 \/ TryLock(t) \/ SelectionFails(t) \/ LaunchPrompt(t)
                 \/ FinishSubmit(t) \/ FinishFail(t) \/ PromptReturns(t)
                 \/ PromptOver(t) \/ AskAnswered(t)
        BY <1>5, <3>5 DEF SendIdle, SendBusy, SendRefuse, Submit, TryLock,
                    SelectionFails, LaunchPrompt, FinishSubmit, FinishFail,
                    PromptReturns, PromptOver, AskAnswered, sysVars
      <3> QED
        BY <2>1, <3>1, <3>2, <3>3, <3>4, <3>5 DEF TurnStep
    <2>2. ASSUME NEW c \in Callers, CallStep(c) PROVE FALSE
      <3>1. CASE RespondAdapter(c)
        BY <1>5, <2>0, <3>1 DEF RespondAdapter, Step, QuietThreads
      <3>2. CASE RespondCheck(c)
        BY <1>5, <2>0, <3>2 DEF RespondCheck
      <3>3. CASE (\E t \in Turns : Respond(c, t)) \/ Close(c) \/ CloseAdapter(c)
                 \/ CloseFinish(c) \/ CloseLog(c) \/ Return(c)
        BY <1>5, <3>3 DEF Respond, Close, CloseAdapter, CloseFinish, CloseLog, Return
      <3> QED
        BY <2>0, <2>2, <3>1, <3>2, <3>3, NotInterrupting DEF CallStep
    <2>3. ASSUME NEW th \in Threads, DeliveryStep(th) PROVE FALSE
      BY <1>5, <2>3 DEF DeliveryStep, Deliver, Apply, Record
    <2>4. CASE \E i \in 1..Len(queue) : RemoveQueuedTurn(i)
      BY <1>5, <2>4 DEF RemoveQueuedTurn
    <2>5. CASE Block \/ Unblock \/ DispatchQueued
      BY <1>5, <2>5 DEF Block, Unblock, DispatchQueued, sysVars
    <2>6. CASE ReconcileFail \/ ReconcileDone
      BY <1>5, <2>0, <2>6 DEF ReconcileFail, ReconcileDone
    <2> QED
      BY <2>1, <2>2, <2>3, <2>4, <2>5, <2>6 DEF Next
  <1> QED
    BY <1>1, <1>2, <1>3, <1>4, <1>5 DEF DeliveryStep

\* Who has a terminal record to append.
LEMMA TerminalOf ==
    ASSUME SafetyInv, OwnerInv, TurnsNamed, Reconciling, NEW th \in Threads,
           ev[th].kind = "terminal", ev[th].pc = "applied"
    PROVE  /\ ev[th].turn # None
           /\ \/ th = Boot /\ ~Up
              \/ \E t \in Turns : /\ th = Prompt(t) /\ ev[th].turn = t
                                  /\ prompt[t] = "emitting"
  <1> USE NoneAssumption, ThreadNames
  <1>1. ~Quiet(th) /\ EventOwners
    BY DEF Quiet, NoEvent, OwnerInv
  <1>2. CASE th = Boot
    <2>1. phase = "fail"
      BY <1>1, <1>2 DEF EventOwners, BootEvent
    <2>2. image.active /\ image.turn = ev[th].turn
      BY <1>2, <2>1 DEF Reconciling
    <2> QED
      BY <1>2, <2>1, <2>2 DEF TurnsNamed, Up
  <1>3. ASSUME NEW t \in Turns, th = Prompt(t)
        PROVE  ev[th].turn = t /\ prompt[t] = "emitting"
    BY <1>1, <1>3 DEF EventOwners, PromptEvent
  <1>4. ASSUME NEW t \in Turns PROVE th # Send(t) /\ th # Ask(t)
    BY <1>1 DEF EventOwners, SendEvent, AskEvent
  <1>5. ASSUME NEW c \in Callers PROVE th # Call(c)
    BY <1>1 DEF EventOwners, CallEvent
  <1> QED
    BY <1>2, <1>3, <1>4, <1>5 DEF Threads

\* A step that applies and records no event, and after which the session has
\* the turn it had, or none where it had none.
LEMMA BehindKept ==
    ASSUME JournalBehind, UNCHANGED <<active, image>>,
           activeTurn' = activeTurn \/ (~active /\ activeTurn' = None),
           \A th \in Threads :
              /\ ev'[th].pc = "applied" => ev'[th] = ev[th]
              /\ ev[th].pc = "applied" => ev'[th] = ev[th]
              /\ ev[th].pc = "applied" /\ ev[th].kind = "terminal" => ev[th].turn # None
    PROVE  JournalBehind'
  BY DEF JournalBehind, Unrecorded

\* Nor does an event of an interaction matter, applied or recorded.
LEMMA BehindUntouched ==
    ASSUME JournalBehind, UNCHANGED <<active, activeTurn>>,
           image'.active = image.active, image'.turn = image.turn,
           NEW x \in Threads,
           ev[x].kind \notin {"turn_started", "terminal"},
           ev'[x].kind \notin {"turn_started", "terminal"},
           \A th \in Threads : th # x => ev'[th] = ev[th]
    PROVE  JournalBehind'
  BY DEF JournalBehind, Unrecorded

\* What the session shows of an event's owner when events still reach it.
LEMMA OwnersView ==
    ASSUME SafetyInv, OwnerInv, ~sinkClosed, NEW t \in Turns
    PROVE  /\ sub[t] = "starting" => /\ Up /\ ~Closed
                                     /\ Delivering(Send(t)) => ~active
                                     /\ ~Delivering(Send(t)) => active /\ activeTurn = t
           /\ prompt[t] = "emitting" /\ Delivering(Prompt(t)) => active /\ activeTurn = t
  <1>1. CASE sub[t] = "starting"
    <2>1. Owns(t) /\ (Unstarted(t) <=> Delivering(Send(t))) /\ prompt[t] = "none"
      BY <1>1 DEF Owns, Unstarted, SafetyInv, LockDiscipline
    <2> QED
      BY <2>1 DEF OwnerInv, OwnerKnown
  <1>2. CASE prompt[t] = "emitting" /\ Delivering(Prompt(t))
    <2>1. Owns(t) /\ ~Unstarted(t)
      BY <1>2 DEF Owns, Unstarted, SafetyInv, LockDiscipline, OwnerInv, OwnerLocked
    <2> QED
      BY <1>2, <2>1 DEF OwnerInv, OwnerKnown, SafetyInv, LockDiscipline
  <1> QED
    BY <1>1, <1>2

\* An event that is applied makes the journal fall behind by its record.
LEMMA BehindApply ==
    ASSUME Uninterrupted, SafetyInv, OwnerInv, AskInv, ~sinkClosed, JournalBehind,
           NEW th \in Threads, Apply(th)
    PROVE  JournalBehind'
  <1> USE NoneAssumption, ThreadNames, ThreadsDiffer
  <1>0. EventOwners /\ TurnsNamed /\ Reconciling
    BY DEF OwnerInv, AskInv
  <1>1. /\ ev[th].pc = "handled" /\ ev'[th].pc = "applied" /\ ~Quiet(th)
        /\ ev'[th].kind = ev[th].kind /\ ev'[th].turn = ev[th].turn
        /\ \A x \in Threads : x # th => ev'[x] = ev[x]
        /\ image' = image
    BY <1>0, ApplyOf
  <1>2. \A x \in Threads : ev[x].kind = "terminal" /\ ev[x].pc = "applied" => ev[x].turn # None
    BY <1>0, TerminalOf
  <1>3. ASSUME ev[th].kind = "terminal", ev[th].turn # None, active, activeTurn = ev[th].turn,
               ApplyTerminal(ev[th].turn)
        PROVE  JournalBehind'
    <2>1. ~active' /\ activeTurn' = None
      BY <1>3 DEF ApplyTerminal, TerminalMatches
    <2>3. image.active => \E x \in Threads : Unrecorded(x, "terminal", image.turn)'
      BY <1>1, <1>3 DEF JournalBehind, Unrecorded
    <2>4. \A x \in Threads : ~Unrecorded(x, "terminal", None)'
      BY <1>1, <1>2, <1>3 DEF Unrecorded
    <2> QED
      BY <1>1, <2>1, <2>3, <2>4 DEF JournalBehind, Unrecorded
  <1>4. ASSUME NEW t \in Turns, th = Prompt(t) PROVE JournalBehind'
    <2>1. prompt[t] = "emitting" /\ ApplyTerminal(t)
      BY <1>0, <1>4, ApplyOf
    <2>2. ev[th].kind = "terminal" /\ ev[th].turn = t /\ Delivering(Prompt(t))
      BY <1>0, <1>1, <1>4 DEF EventOwners, PromptEvent, Delivering
    <2>3. active /\ activeTurn = t
      BY <2>1, <2>2, OwnersView
    <2> QED
      BY <1>3, <2>1, <2>2, <2>3
  <1>5. ASSUME NEW t \in Turns, th = Send(t) PROVE JournalBehind'
    <2>1. sub[t] = "starting" /\ ApplyTurnStarted(t) /\ Delivering(Send(t))
      BY <1>0, <1>1, <1>5, ApplyOf DEF Delivering
    <2>2. ev[th].kind = "turn_started" /\ ev[th].turn = t
      BY <1>0, <1>1, <1>5 DEF EventOwners, SendEvent
    <2>3. Up /\ ~active /\ prompt[t] = "none"
      BY <2>1, OwnersView DEF SafetyInv, LockDiscipline
    <2>4. active' /\ activeTurn' = t
      BY <2>1 DEF ApplyTurnStarted
    <2>5. Unrecorded(th, "turn_started", t)'
      BY <1>1, <2>2 DEF Unrecorded
    <2>6. image.active => \E x \in Threads : Unrecorded(x, "terminal", image.turn)'
      BY <1>1, <2>3 DEF JournalBehind, Unrecorded
    <2>7. ASSUME NEW x \in Threads PROVE ~Unrecorded(x, "terminal", t)'
      <3>1. CASE x = th
        BY <1>1, <2>2, <3>1 DEF Unrecorded
      <3>2. CASE x # th
        BY <1>0, <1>1, <2>3, <3>2, TerminalOf DEF Unrecorded
      <3> QED
        BY <3>1, <3>2
    <2> QED
      BY <1>1, <2>4, <2>5, <2>6, <2>7 DEF JournalBehind, Unrecorded
  <1>6. ASSUME NEW t \in Turns, th = Ask(t) PROVE JournalBehind'
    <2>1. ApplyInteractionRequested(t) /\ ev[th].kind = "interaction_requested"
      BY <1>0, <1>1, <1>6, ApplyOf DEF EventOwners, AskEvent
    <2> QED
      BY <1>1, <2>1, BehindUntouched DEF ApplyInteractionRequested
  <1>7. ASSUME ApplyInteractionResolved(ev[th].turn), ev[th].kind = "interaction_resolved"
        PROVE  JournalBehind'
    BY <1>1, <1>7, BehindUntouched DEF ApplyInteractionResolved
  <1>8. ASSUME NEW c \in Callers, th = Call(c) PROVE JournalBehind'
    BY <1>0, <1>1, <1>7, <1>8, ApplyOf DEF EventOwners, CallEvent
  <1>9. ASSUME th = Boot PROVE JournalBehind'
    <2>1. CASE phase = "resolve"
      BY <1>0, <1>1, <1>7, <1>9, <2>1, ApplyOf DEF EventOwners, BootEvent
    <2>2. CASE phase = "fail"
      <3>1. ApplyTerminal(ev[th].turn) /\ ev[th].kind = "terminal" /\ Delivering(Boot)
        BY <1>0, <1>1, <1>9, <2>2, ApplyOf DEF EventOwners, BootEvent, Delivering
      <3>2. active /\ activeTurn = ev[th].turn /\ ev[th].turn # None
        BY <1>0, <1>9, <2>2, <3>1 DEF Reconciling, TurnsNamed
      <3> QED
        BY <1>3, <3>1, <3>2
    <2> QED
      BY <1>0, <1>9, <2>1, <2>2, ApplyOf
  <1> QED
    BY <1>4, <1>5, <1>6, <1>8, <1>9 DEF Threads

\* A record that is appended makes up for it.
LEMMA BehindRecord ==
    ASSUME Uninterrupted, JournalWorks, SafetyInv, OwnerInv, AskInv, ~sinkClosed,
           JournalBehind, NEW th \in Threads, Record(th)
    PROVE  JournalBehind'
  <1> USE NoneAssumption, ThreadNames, ThreadsDiffer
  <1>0. EventOwners /\ TurnsNamed /\ Reconciling /\ image \in Images
    BY DEF OwnerInv, AskInv, SafetyInv, TypeOK, RuntimeTypeOK
  <1>1. /\ ~Quiet(th) /\ ev[th].pc = "applied" /\ ev[th].turn \in MaybeTurn
        /\ ev'[th] = NoEvent /\ \A x \in Threads : x # th => ev'[x] = ev[x]
        /\ UNCHANGED <<active, activeTurn>>
    BY <1>0, RecordOf DEF Record, SafetyInv, TypeOK, SystemTypeOK
  <1>2. NoEvent.kind = "none"
    BY DEF NoEvent
  <1>3. \A x \in Threads : ~Unrecorded(x, "terminal", activeTurn)'
    BY <1>1, <1>2 DEF JournalBehind, Unrecorded
  <1>4. ASSUME NEW t \in Turns, th = Prompt(t) PROVE JournalBehind'
    <2>1. image' = RestoreTerminal(image, t)
      BY <1>0, <1>4, RecordOf
    <2>2. ev[th].kind = "terminal" /\ ev[th].turn = t
      BY <1>0, <1>1, <1>4 DEF EventOwners, PromptEvent
    <2>3. activeTurn # t
      BY <1>1, <2>2 DEF JournalBehind, Unrecorded
    <2>4. CASE image.turn \in {None, t}
      <3>1. ~image'.active
        BY <1>0, <2>1, <2>4, TerminalRecorded
      <3>2. ASSUME active
            PROVE  \E x \in Threads : Unrecorded(x, "turn_started", activeTurn)'
        BY <1>0, <1>1, <2>2, <2>3, <2>4, <3>2 DEF JournalBehind, Unrecorded, TurnsNamed
      <3> QED
        BY <1>1, <1>3, <3>1, <3>2 DEF JournalBehind, Unrecorded
    <2>5. CASE image.turn \notin {None, t}
      <3>1. image' = image
        BY <1>0, <2>1, <2>5, TerminalRecorded
      <3> QED
        BY <1>1, <1>3, <2>2, <2>5, <3>1 DEF JournalBehind, Unrecorded
    <2> QED
      BY <2>4, <2>5
  <1>5. ASSUME NEW t \in Turns, th = Send(t) PROVE JournalBehind'
    <2>1. sub[t] = "starting" /\ image'.active /\ image'.turn = t
      BY <1>0, <1>5, RecordOf, StartRecorded
    <2>2. ~Delivering(Send(t))
      BY <1>1, <1>5 DEF Delivering
    <2>3. active /\ activeTurn = t
      BY <2>1, <2>2, OwnersView
    <2> QED
      BY <1>1, <1>3, <2>1, <2>3 DEF JournalBehind, Unrecorded
  <1>6. ASSUME ev[th].kind \notin {"turn_started", "terminal"},
               image'.active = image.active, image'.turn = image.turn
        PROVE  JournalBehind'
    BY <1>1, <1>2, <1>6, BehindUntouched
  <1>7. ASSUME NEW t \in Turns, th = Ask(t) PROVE JournalBehind'
    <2>1. image' = RestoreInteraction(image, t) /\ ev[th].kind = "interaction_requested"
      BY <1>0, <1>1, <1>7, RecordOf DEF EventOwners, AskEvent
    <2> QED
      BY <1>0, <1>6, <2>1, InteractionRecorded DEF MaybeTurn
  <1>8. ASSUME NEW c \in Callers, th = Call(c) PROVE JournalBehind'
    <2>1. image' = RestoreResolved(image, ev[th].turn) /\ ev[th].kind = "interaction_resolved"
      BY <1>0, <1>1, <1>8, RecordOf DEF EventOwners, CallEvent
    <2> QED
      BY <1>0, <1>1, <1>6, <2>1, InteractionRecorded
  <1>9. ASSUME th = Boot PROVE JournalBehind'
    <2>1. CASE phase = "resolve"
      <3>1. image' = RestoreResolved(image, ev[th].turn) /\ ev[th].kind = "interaction_resolved"
        BY <1>0, <1>1, <1>9, <2>1, RecordOf DEF EventOwners, BootEvent
      <3> QED
        BY <1>0, <1>1, <1>6, <3>1, InteractionRecorded
    <2>2. CASE phase = "fail"
      <3>1. image' = RestoreTerminal(image, ev[th].turn) /\ ~Delivering(Boot)
        BY <1>0, <1>1, <1>9, <2>2, RecordOf DEF Delivering
      <3>2. image.turn = ev[th].turn /\ ~active
        BY <1>0, <1>1, <1>9, <2>2, <3>1 DEF Reconciling
      <3>3. ~image'.active
        BY <1>0, <3>1, <3>2 DEF RestoreTerminal, Images
      <3> QED
        BY <1>1, <1>3, <3>2, <3>3 DEF JournalBehind
    <2> QED
      BY <1>0, <1>9, <2>1, <2>2, RecordOf
  <1> QED
    BY <1>4, <1>5, <1>7, <1>8, <1>9 DEF Threads

\* Every step of a session that nobody closes.
LEMMA BehindNext ==
    ASSUME Uninterrupted, JournalWorks, NeverClosed, SafetyInv, DeliveryInv,
           OwnerInv, AskInv, ~sinkClosed, JournalBehind, Next
    PROVE  JournalBehind'
  <1> USE NoneAssumption, ThreadNames
  <1>0. Closing /\ QuietThreads /\ TurnsNamed /\ Reconciling
    BY DEF OwnerInv, DeliveryInv, AskInv
  <1>1. CASE Crash
    <2>1. image' = image /\ active' = image.active /\ activeTurn' = image.turn
      BY <1>1 DEF Crash, InsertRestored
    <2>2. \A th \in Threads : ev'[th].pc # "applied"
      BY <1>1 DEF Crash, Reconcile, Emitted, NoEvent
    <2> QED
      BY <2>1, <2>2 DEF JournalBehind, Unrecorded
  <1>2. ASSUME NEW th \in Threads, Apply(th) PROVE JournalBehind'
    BY <1>2, BehindApply
  <1>3. ASSUME NEW th \in Threads, Record(th) PROVE JournalBehind'
    BY <1>3, BehindRecord
  <1>4. ASSUME ~Crash, \A th \in Threads : ~Apply(th) /\ ~Record(th)
        PROVE  JournalBehind'
    <2>1. \A th \in Threads :
             /\ ev'[th].pc = "applied" => ev'[th] = ev[th]
             /\ ev[th].pc = "applied" => ev'[th] = ev[th]
             /\ ev[th].pc = "applied" /\ ev[th].kind = "terminal" => ev[th].turn # None
      BY <1>0, <1>4, AppliedSteps, TerminalOf
    <2>2. CASE ViewKept
      BY <2>1, <2>2, BehindKept DEF ViewKept
    <2>3. ASSUME NEW t \in Turns, SendIdle(t) PROVE JournalBehind'
      <3>1. ~active /\ active' = FALSE /\ activeTurn' = None /\ image' = image
        BY <2>3 DEF SendIdle, SendNow, Idle
      <3> QED
        BY <2>1, <3>1 DEF JournalBehind, Unrecorded
    <2>4. CASE DispatchHead
      <3>1. ~active /\ active' = FALSE /\ activeTurn' = None /\ image' = image
        BY <2>4 DEF DispatchHead, ReadyToDispatch, Idle
      <3> QED
        BY <2>1, <3>1 DEF JournalBehind, Unrecorded
    <2>5. ASSUME NEW t \in Turns PROVE ~Fail(t)
      BY <1>0 DEF Fail, Closing
    <2>6. ASSUME NEW c \in Callers PROVE ~(Close(c) \/ CloseFinish(c) \/ CloseLog(c))
      BY <1>0 DEF Close, NeverClosed, CloseFinish, CloseLog, Step, Closing
    <2> QED
      BY <1>0, <1>4, <2>2, <2>3, <2>4, <2>5, <2>6, Views
  <1> QED
    BY <1>1, <1>2, <1>3, <1>4

\* JournalCurrent of TurnSystem: with no event in delivery, the journal of a
\* session that is not closed tells of the turn that is active and of no other,
\* although every record is appended after the session's lock was released.
THEOREM JournalTellsTheTurn ==
    ASSUME Uninterrupted, JournalWorks, NeverClosed
    PROVE  Spec => []JournalCurrent
  <1>1. Init => JournalBehind
    <2> SUFFICES ASSUME Init PROVE JournalBehind
      OBVIOUS
    <2>1. ~active /\ ~image.active
      BY DEF Init, RuntimeInit, EmptyImage
    <2>2. \A th \in Threads : ev[th].pc = "none"
      BY DEF Init, NoEvent
    <2> QED
      BY <2>1, <2>2 DEF JournalBehind, Unrecorded
  <1>2. JournalBehind /\ UNCHANGED vars => JournalBehind'
    BY DEF JournalBehind, Unrecorded, vars, rtVars, sysVars
  <1>3. SafetyInv /\ DeliveryInv /\ OwnerInv /\ AskInv /\ ~sinkClosed
        /\ JournalBehind /\ [Next]_vars => JournalBehind'
    BY <1>2, BehindNext
  <1>4. ASSUME SafetyInv, DeliveryInv, JournalBehind PROVE JournalCurrent
    <2> SUFFICES ASSUME \A th \in Threads : Quiet(th)
                 PROVE  image.active = active /\ image.turn = activeTurn
      BY DEF JournalCurrent
    <2>1. active \in BOOLEAN /\ image.active \in BOOLEAN
      BY <1>4 DEF SafetyInv, TypeOK, RuntimeTypeOK, Images
    <2>2. \A th \in Threads : ev[th].pc = "none"
      BY DEF Quiet, NoEvent
    <2>3. image.active <=> active
      BY <1>4, <2>2 DEF JournalBehind, Unrecorded
    <2>4. image.turn = activeTurn
      BY <1>4, <2>2, <2>3 DEF JournalBehind, Unrecorded, DeliveryInv, NoTurnWhenIdle
    <2> QED
      BY <2>1, <2>3, <2>4
  <1> QED
    BY <1>1, <1>3, <1>4, SafetyInvariance, DeliveryInvariance, OwnerInvariance,
       AskInvariance, SinkOpen, PTL DEF Spec

=============================================================================
