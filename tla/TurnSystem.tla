----------------------------- MODULE TurnSystem -----------------------------
(***************************************************************************)
(* A session at work: the runtime (SessionRuntime), the ACP adapter it     *)
(* drives (AcpxSession), and the goroutines that run through both.         *)
(*                                                                         *)
(*   <<"send", t>>    the goroutine that submits t: the caller of Send, or *)
(*                    dispatchQueued                                       *)
(*   <<"prompt", t>>  runPrompt of turn t                                  *)
(*   <<"ask", t>>     the handler of t's permission or elicitation request *)
(*   <<"call", c>>    a host goroutine in Interrupt, RespondInteraction or *)
(*                    Close                                                *)
(*   <<"boot", None>> the goroutine that reopens the host and runs Restore *)
(*                                                                         *)
(* An event is delivered by the goroutine that emits it, in three steps:   *)
(* deliver stamps it, deliverNow changes the session, and, the lock        *)
(* released, its record is appended and a dispatcher is started.           *)
(***************************************************************************)
EXTENDS SessionRuntime, AcpxSession

CONSTANTS Callers,        \* host goroutines that call in, besides the senders
          Ops,            \* which host operations and failures happen
          MaxDispatchers  \* bound: dispatchers that repeated Unblocks pile up

AllOps == {"sendNext", "remove", "block", "interrupt", "interruptActive",
           "ask", "close", "sendError", "closeError",
           "interruptError", "appendError", "closeLogError", "crash"}

ASSUME OpsAssumption == Ops \subseteq AllOps
ASSUME MaxDispatchersAssumption == MaxDispatchers \in Nat

VARIABLES phase,       \* "up", or what Restore is delivering
          sub,         \* [Turns -> where the request is]
          dequeued,    \* requests that dispatchQueued is submitting
          dispatchers, \* goroutines about to run dispatchQueued
          ask,         \* [Turns -> how far the turn's interaction is]
          ev,          \* [Threads -> the event the goroutine is delivering]
          cpc,         \* [Callers -> where the call is]
          cturn,       \* [Callers -> the turn the call is about, or None]
          cwait        \* [Callers -> the turn whose promptDone it awaits]

callVars == <<cpc, cturn, cwait>>
sysVars == <<phase, sub, dequeued, dispatchers, ask, ev, callVars>>
vars == <<rtVars, acpxVars, sysVars>>

Boot == <<"boot", None>>
Send(t) == <<"send", t>>
Prompt(t) == <<"prompt", t>>
Ask(t) == <<"ask", t>>
Call(c) == <<"call", c>>

Threads == {Boot} \cup {Send(t) : t \in Turns} \cup {Prompt(t) : t \in Turns}
           \cup {Ask(t) : t \in Turns} \cup {Call(c) : c \in Callers}

EventKinds == {"turn_started", "terminal", "interaction_requested",
               "interaction_resolved"}

\* An event on its way.  For the interaction events, turn is the interaction.
Events == [kind : EventKinds, turn : MaybeTurn,
           pc : {"raw", "handled", "applied"}, next : BOOLEAN]

NoEvent == [kind |-> "none", turn |-> None, pc |-> "none", next |-> FALSE]

Emitted(k, t) == [kind |-> k, turn |-> t, pc |-> "raw", next |-> FALSE]

Quiet(th) == ev[th] = NoEvent

Phases == {"up", "resolve", "fail"}

\* new: not sent yet; queued; submit, locked, starting, returning: on the way
\* through SendTurn; failing, failed: on the way through failSubmission; the
\* other four are final.
SubStages == {"new", "queued", "submit", "trylock", "locked", "starting",
              "returning", "failing", "failed",
              "sent", "rejected", "refused", "discarded"}

AskStages == {"none", "open", "over"}

CallStages == {"idle", "int_read", "int_cancel", "int_take", "int_wait",
               "int_check", "resp_call", "resp_check", "close_adapter",
               "close_finish", "close_log", "return"}

SystemTypeOK ==
    /\ phase \in Phases
    /\ sub \in [Turns -> SubStages]
    /\ dequeued \in SUBSET Turns
    /\ dispatchers \in Nat
    /\ ask \in [Turns -> AskStages]
    /\ ev \in [Threads -> Events \cup {NoEvent}]
    /\ cpc \in [Callers -> CallStages]
    /\ cturn \in [Callers -> MaybeTurn]
    /\ cwait \in [Callers -> MaybeTurn]

TypeOK == RuntimeTypeOK /\ AcpxTypeOK /\ SystemTypeOK

Init ==
    /\ RuntimeInit
    /\ AcpxInit
    /\ phase = "up"
    /\ sub = [t \in Turns |-> "new"]
    /\ dequeued = {}
    /\ dispatchers = 0
    /\ ask = [t \in Turns |-> "none"]
    /\ ev = [th \in Threads |-> NoEvent]
    /\ cpc = [c \in Callers |-> "idle"]
    /\ cturn = [c \in Callers |-> None]
    /\ cwait = [c \in Callers |-> None]

Up == phase = "up"

-----------------------------------------------------------------------------
(* Send, SendNext and the queue operations.                                *)

SendIdle(t) ==
    /\ Up /\ sub[t] = "new"
    /\ SendNow
    /\ sub' = [sub EXCEPT ![t] = "submit"]
    /\ UNCHANGED <<acpxVars, phase, dequeued, dispatchers, ask, ev, callVars>>

SendBusy(t) ==
    /\ Up /\ sub[t] = "new"
    /\ SendQueued(t, FALSE) \/ ("sendNext" \in Ops /\ SendQueued(t, TRUE))
    /\ sub' = [sub EXCEPT ![t] = "queued"]
    /\ UNCHANGED <<acpxVars, phase, dequeued, dispatchers, ask, ev, callVars>>

SendRefuse(t) ==
    /\ Up /\ sub[t] = "new"
    /\ SendRefused
    /\ sub' = [sub EXCEPT ![t] = "refused"]
    /\ UNCHANGED <<acpxVars, phase, dequeued, dispatchers, ask, ev, callVars>>

RemoveQueuedTurn(i) ==
    /\ Up /\ "remove" \in Ops
    /\ RemoveQueued(i)
    /\ sub' = [sub EXCEPT ![queue[i]] = "discarded"]
    /\ UNCHANGED <<acpxVars, phase, dequeued, dispatchers, ask, ev, callVars>>

Block ==
    /\ Up /\ "block" \in Ops
    /\ BlockDispatch
    /\ UNCHANGED <<acpxVars, sysVars>>

Unblock ==
    /\ Up /\ "block" \in Ops
    /\ dispatchers < MaxDispatchers
    /\ UnblockDispatch
    /\ dispatchers' = dispatchers + (IF ReadyToDispatch THEN 1 ELSE 0)
    /\ UNCHANGED <<acpxVars, phase, sub, dequeued, ask, ev, callVars>>

DispatchQueued ==
    /\ dispatchers > 0
    /\ dispatchers' = dispatchers - 1
    /\ \/ /\ DispatchNothing
          /\ UNCHANGED <<sub, dequeued>>
       \/ /\ DispatchHead
          /\ sub' = [sub EXCEPT ![Head(queue)] = "submit"]
          /\ dequeued' = dequeued \cup {Head(queue)}
    /\ UNCHANGED <<acpxVars, phase, ask, ev, callVars>>

-----------------------------------------------------------------------------
(* submitTurn and the adapter's SendTurn.                                  *)

\* The turnDispatched callback passes, and SendTurn looks the session up.
Submit(t) ==
    /\ sub[t] = "submit"
    /\ \/ registered /\ sub' = [sub EXCEPT ![t] = "trylock"]
       \/ /\ ~registered \/ "sendError" \in Ops
          /\ sub' = [sub EXCEPT ![t] = "failing"]
    /\ UNCHANGED <<rtVars, acpxVars, phase, dequeued, dispatchers, ask, ev, callVars>>

TryLock(t) ==
    /\ sub[t] = "trylock"
    /\ \/ LockPrompt(t) /\ sub' = [sub EXCEPT ![t] = "locked"]
       \/ PromptBusy /\ sub' = [sub EXCEPT ![t] = "failing"]
    /\ UNCHANGED <<rtVars, phase, dequeued, dispatchers, ask, ev, callVars>>

\* applySelections fails: SendTurn gives the lock back.
SelectionFails(t) ==
    /\ "sendError" \in Ops
    /\ sub[t] = "locked"
    /\ UnlockPrompt
    /\ sub' = [sub EXCEPT ![t] = "failing"]
    /\ UNCHANGED <<rtVars, phase, dequeued, dispatchers, ask, ev, callVars>>

BeginTurn(t) ==
    /\ sub[t] = "locked"
    /\ SetTurn(t)
    /\ sub' = [sub EXCEPT ![t] = "starting"]
    /\ ev' = [ev EXCEPT ![Send(t)] = Emitted("turn_started", t)]
    /\ UNCHANGED <<rtVars, phase, dequeued, dispatchers, ask, callVars>>

LaunchPrompt(t) ==
    /\ sub[t] = "starting" /\ Quiet(Send(t))
    /\ StartPrompt(t)
    /\ sub' = [sub EXCEPT ![t] = "returning"]
    /\ UNCHANGED <<rtVars, phase, dequeued, dispatchers, ask, ev, callVars>>

FinishSubmit(t) ==
    /\ sub[t] = "returning"
    /\ SubmitReturned(t)
    /\ sub' = [sub EXCEPT ![t] = "sent"]
    /\ dequeued' = dequeued \ {t}
    /\ UNCHANGED <<acpxVars, phase, dispatchers, ask, ev, callVars>>

Fail(t) ==
    /\ sub[t] = "failing"
    /\ FailSubmission
    /\ sub' = [sub EXCEPT ![t] = "failed"]
    /\ ev' = [ev EXCEPT ![Send(t)] = Emitted("terminal", None)]
    /\ UNCHANGED <<acpxVars, phase, dequeued, dispatchers, ask, callVars>>

\* Send returns the error; dispatchQueued goes on to the next entry.
FinishFail(t) ==
    /\ sub[t] = "failed" /\ Quiet(Send(t))
    /\ sub' = [sub EXCEPT ![t] = "rejected"]
    /\ dispatchers' = dispatchers + (IF t \in dequeued THEN 1 ELSE 0)
    /\ dequeued' = dequeued \ {t}
    /\ UNCHANGED <<rtVars, acpxVars, phase, ask, ev, callVars>>

-----------------------------------------------------------------------------
(* The provider's side of a turn.                                          *)

\* The agent waits for the answer to a request of its own, unless cancelled.
\* An agent that sends a session/update "error", for which observe emits a
\* turn_failed while the prompt goes on, is left out.
PromptReturns(t) ==
    /\ ask[t] # "open" \/ t \in cancelled
    /\ FinishTurn(t)
    /\ UNCHANGED <<rtVars, sysVars>>

PromptUnlocks(t) ==
    /\ ReleasePrompt(t)
    /\ ev' = IF prompt[t] = "ending"
             THEN [ev EXCEPT ![Prompt(t)] = Emitted("terminal", t)]
             ELSE ev
    /\ UNCHANGED <<rtVars, phase, sub, dequeued, dispatchers, ask, callVars>>

PromptOver(t) ==
    /\ Quiet(Prompt(t))
    /\ PromptDone(t)
    /\ UNCHANGED <<rtVars, sysVars>>

\* A request of the agent reaches its handler; after a cancellation it may do
\* so when the prompt has already returned.
AskHost(t) ==
    /\ "ask" \in Ops
    /\ ask[t] = "none"
    /\ prompt[t] = "running" \/ (t \in cancelled /\ prompt[t] # "none")
    /\ AwaitInteraction(t)
    /\ ask' = [ask EXCEPT ![t] = "open"]
    /\ ev' = [ev EXCEPT ![Ask(t)] = Emitted("interaction_requested", t)]
    /\ UNCHANGED <<rtVars, phase, sub, dequeued, dispatchers, callVars>>

\* The handler gets its answer, or sees the session stopped.
AskAnswered(t) ==
    /\ ask[t] = "open" /\ Quiet(Ask(t))
    /\ RemoveInteraction(t)
    /\ ask' = [ask EXCEPT ![t] = "over"]
    /\ UNCHANGED <<rtVars, phase, sub, dequeued, dispatchers, ev, callVars>>

-----------------------------------------------------------------------------
(* Event delivery.                                                         *)

\* deliver, and the coalescer, which drops every event once it is closed.
Deliver(th) ==
    /\ ev[th].pc = "raw"
    /\ ev' = [ev EXCEPT ![th] =
                IF sinkClosed THEN NoEvent
                ELSE [@ EXCEPT !.pc = "handled",
                               !.turn = StampedTurn(ev[th].turn)]]
    /\ UNCHANGED <<rtVars, acpxVars, phase, sub, dequeued, dispatchers, ask, callVars>>

\* deliverNow, up to the end of its locked block.
Apply(th) ==
    /\ ev[th].pc = "handled"
    /\ LET e == ev[th] IN
       /\ \/ e.kind = "turn_started" /\ ApplyTurnStarted(e.turn)
          \/ e.kind = "terminal" /\ ApplyTerminal(e.turn)
          \/ e.kind = "interaction_requested" /\ ApplyInteractionRequested(e.turn)
          \/ e.kind = "interaction_resolved" /\ ApplyInteractionResolved(e.turn)
       /\ ev' = [ev EXCEPT ![th] =
                   [@ EXCEPT !.pc = "applied",
                             !.next = e.kind = "terminal" /\ DispatchNext(e.turn)]]
    /\ UNCHANGED <<acpxVars, phase, sub, dequeued, dispatchers, ask, callVars>>

\* The rest of deliverNow: the journal record, the host's sink, and the
\* dispatcher.  An append that fails is reported in the event only.
Record(th) ==
    /\ ev[th].pc = "applied"
    /\ \/ AppendRecord(ev[th].kind, ev[th].turn)
       \/ "appendError" \in Ops /\ UNCHANGED rtVars
    /\ dispatchers' = dispatchers + (IF ev[th].next THEN 1 ELSE 0)
    /\ ev' = [ev EXCEPT ![th] = NoEvent]
    /\ UNCHANGED <<acpxVars, phase, sub, dequeued, ask, callVars>>

-----------------------------------------------------------------------------
(* Interrupt and InterruptActive.                                          *)

Step(c, from, to) == cpc[c] = from /\ cpc' = [cpc EXCEPT ![c] = to]

\* Interrupt: note whether a turn is active, and drop the queue.
Interrupt(c) ==
    /\ Up /\ "interrupt" \in Ops
    /\ Step(c, "idle", IF active THEN "int_read" ELSE "idle")
    /\ ClearQueue
    /\ sub' = [t \in Turns |-> IF sub[t] = "queued" THEN "discarded" ELSE sub[t]]
    /\ UNCHANGED <<acpxVars, phase, dequeued, dispatchers, ask, ev, cturn, cwait>>

InterruptActive(c) ==
    /\ Up /\ "interruptActive" \in Ops /\ active
    /\ Step(c, "idle", "int_read")
    /\ UNCHANGED <<rtVars, acpxVars, phase, sub, dequeued, dispatchers, ask, ev,
                   cturn, cwait>>

\* interruptActive reads the turn it is about to interrupt.
InterruptRead(c) ==
    /\ Step(c, "int_read", "int_cancel")
    /\ cturn' = [cturn EXCEPT ![c] = activeTurn]
    /\ UNCHANGED <<rtVars, acpxVars, phase, sub, dequeued, dispatchers, ask, ev,
                   cwait>>

\* The adapter's Interrupt; without a session it returns an error.
InterruptCancel(c) ==
    /\ \/ registered /\ Step(c, "int_cancel", "int_take") /\ CancelTurn
       \/ ~registered /\ Step(c, "int_cancel", "return") /\ UNCHANGED acpxVars
    /\ UNCHANGED <<rtVars, phase, sub, dequeued, dispatchers, ask, ev, cturn, cwait>>

\* takeTurn, and the turn_failed of the turn it took.
InterruptTake(c) ==
    /\ Step(c, "int_take", "int_wait")
    /\ TakeTurn
    /\ cwait' = [cwait EXCEPT ![c] = doneRef]
    /\ ev' = IF curTurn = None THEN ev
             ELSE [ev EXCEPT ![Call(c)] = Emitted("terminal", curTurn)]
    /\ UNCHANGED <<rtVars, phase, sub, dequeued, dispatchers, ask, cturn>>

\* Wait for promptDone.  When the agent could not be told to cancel, or the
\* caller's context ends first, Interrupt returns an error and interruptActive
\* runs no fallback.
InterruptWait(c) ==
    /\ Quiet(Call(c))
    /\ \/ /\ cwait[c] \in {None} \cup {t \in Turns : prompt[t] = "over"}
          /\ Step(c, "int_wait", "int_check")
       \/ "interruptError" \in Ops /\ Step(c, "int_wait", "return")
    /\ UNCHANGED <<rtVars, acpxVars, phase, sub, dequeued, dispatchers, ask, ev,
                   cturn, cwait>>

NeedsTerminal(c) == active /\ activeTurn = cturn[c]

\* The fallback: a turn_failed for a turn that is still active.
InterruptCheck(c) ==
    /\ Step(c, "int_check", "return")
    /\ ev' = IF NeedsTerminal(c)
             THEN [ev EXCEPT ![Call(c)] = Emitted("terminal", cturn[c])]
             ELSE ev
    /\ UNCHANGED <<rtVars, acpxVars, phase, sub, dequeued, dispatchers, ask,
                   cturn, cwait>>

-----------------------------------------------------------------------------
(* RespondInteraction and Close.                                           *)

\* The host answers interaction t, which it was shown or has polled.
Respond(c, t) ==
    /\ Up /\ ask[t] # "none" /\ ev[Ask(t)].pc \notin {"raw", "handled"}
    /\ Step(c, "idle", "resp_call")
    /\ BeginRespond
    /\ cturn' = [cturn EXCEPT ![c] = t]
    /\ cwait' = [cwait EXCEPT ![c] = IF pending = t THEN t ELSE None]
    /\ UNCHANGED <<acpxVars, phase, sub, dequeued, dispatchers, ask, ev>>

\* The adapter accepts the answer and emits interaction_resolved, or reports
\* that no such interaction waits.
RespondAdapter(c) ==
    /\ \/ /\ TakeInteraction(cturn[c])
          /\ Step(c, "resp_call", "resp_check")
          /\ ev' = [ev EXCEPT ![Call(c)] = Emitted("interaction_resolved", cturn[c])]
       \/ /\ RespondRejected(cturn[c])
          /\ Step(c, "resp_call", "return")
          /\ UNCHANGED ev
    /\ UNCHANGED <<rtVars, phase, sub, dequeued, dispatchers, ask, cturn, cwait>>

\* The runtime resolves an interaction that was pending and still is.
RespondCheck(c) ==
    /\ Quiet(Call(c))
    /\ Step(c, "resp_check", "return")
    /\ ev' = IF cwait[c] # None /\ pending = cturn[c]
             THEN [ev EXCEPT ![Call(c)] = Emitted("interaction_resolved", cturn[c])]
             ELSE ev
    /\ UNCHANGED <<rtVars, acpxVars, phase, sub, dequeued, dispatchers, ask,
                   cturn, cwait>>

Close(c) ==
    /\ Up /\ "close" \in Ops
    /\ Step(c, "idle", "close_adapter")
    /\ CloseSink
    /\ UNCHANGED <<acpxVars, phase, sub, dequeued, dispatchers, ask, ev, cturn,
                   cwait>>

\* CloseSession succeeds, or fails after it dropped the session.
CloseAdapter(c) ==
    /\ \/ Step(c, "close_adapter", "close_finish")
       \/ "closeError" \in Ops /\ registered /\ Step(c, "close_adapter", "idle")
    /\ IF registered THEN StopSession ELSE UNCHANGED acpxVars
    /\ UNCHANGED <<rtVars, phase, sub, dequeued, dispatchers, ask, ev, cturn, cwait>>

CloseFinish(c) ==
    /\ Step(c, "close_finish", "close_log")
    /\ FinishClose
    /\ sub' = [t \in Turns |-> IF sub[t] = "queued" /\ ~Closed
                               THEN "discarded" ELSE sub[t]]
    /\ UNCHANGED <<acpxVars, phase, dequeued, dispatchers, ask, ev, cturn, cwait>>

\* The record of the close.  When its append fails, Close returns the error
\* and the session is closed in memory only.
CloseLog(c) ==
    /\ Step(c, "close_log", "idle")
    /\ \/ AppendRecord("session_closed", None)
       \/ "closeLogError" \in Ops /\ UNCHANGED rtVars
    /\ UNCHANGED <<acpxVars, phase, sub, dequeued, dispatchers, ask, ev, cturn,
                   cwait>>

\* A call returns once the event it delivers is through; what it remembered
\* is forgotten with it.
Return(c) ==
    /\ Quiet(Call(c))
    /\ Step(c, "return", "idle")
    /\ cturn' = [cturn EXCEPT ![c] = None]
    /\ cwait' = [cwait EXCEPT ![c] = None]
    /\ UNCHANGED <<rtVars, acpxVars, phase, sub, dequeued, dispatchers, ask, ev>>

-----------------------------------------------------------------------------
(* The host dies and is started again.                                     *)

\* Mutated: cancels the interaction and leaves the turn active.
Reconcile_ResolvesOnly(img) ==
    CASE ~img.active ->
             [phase |-> "up", event |-> NoEvent]
      [] img.active /\ img.pending # None ->
             [phase |-> "fail",
              event |-> Emitted("interaction_resolved", img.pending)]
      [] OTHER ->
             [phase |-> "fail", event |-> Emitted("terminal", img.turn)]

\* How Restore goes on once it has inserted the session: the turn the journal
\* left active is failed, after the interaction it waited for was cancelled.
Reconcile(img) ==
    CASE ~img.active ->
             [phase |-> "up", event |-> NoEvent]
      [] img.active /\ img.pending # None ->
             [phase |-> "resolve",
              event |-> Emitted("interaction_resolved", img.pending)]
      [] OTHER ->
             [phase |-> "fail", event |-> Emitted("terminal", img.turn)]

\* The process dies with its goroutines and its queue; the journal keeps
\* every record that was appended.  A new process opens the home, Restore
\* inserts the session and Resume opens the provider session; nothing else
\* runs until Restore returns, so all of it is one step.
Crash ==
    /\ "crash" \in Ops
    /\ InsertRestored
    /\ Reopen(image.status # "closed")
    /\ phase' = Reconcile(image).phase
    /\ ev' = [th \in Threads |->
               IF th = Boot THEN Reconcile(image).event ELSE NoEvent]
    /\ sub' = [t \in Turns |->
                 IF sub[t] \in {"new", "refused", "rejected", "sent"}
                 THEN sub[t] ELSE "discarded"]
    /\ dispatchers' = 0
    /\ ask' = [t \in Turns |-> IF ask[t] = "none" THEN "none" ELSE "over"]
    /\ cpc' = [c \in Callers |-> "idle"]
    /\ cturn' = [c \in Callers |-> None]
    /\ cwait' = [c \in Callers |-> None]
    /\ dequeued' = {}

ReconcileFail ==
    /\ phase = "resolve" /\ Quiet(Boot)
    /\ phase' = "fail"
    /\ ev' = [ev EXCEPT ![Boot] = Emitted("terminal", activeTurn)]
    /\ UNCHANGED <<rtVars, acpxVars, sub, dequeued, dispatchers, ask, callVars>>

ReconcileDone ==
    /\ phase = "fail" /\ Quiet(Boot)
    /\ phase' = "up"
    /\ UNCHANGED <<rtVars, acpxVars, sub, dequeued, dispatchers, ask, ev, callVars>>

-----------------------------------------------------------------------------
TurnStep(t) ==
    \/ SendIdle(t) \/ SendBusy(t) \/ SendRefuse(t)
    \/ Submit(t) \/ TryLock(t) \/ SelectionFails(t) \/ BeginTurn(t)
    \/ LaunchPrompt(t) \/ FinishSubmit(t) \/ Fail(t) \/ FinishFail(t)
    \/ PromptReturns(t) \/ PromptUnlocks(t) \/ PromptOver(t)
    \/ AskHost(t) \/ AskAnswered(t)

CallStep(c) ==
    \/ Interrupt(c) \/ InterruptActive(c) \/ InterruptRead(c)
    \/ InterruptCancel(c) \/ InterruptTake(c) \/ InterruptWait(c)
    \/ InterruptCheck(c)
    \/ (\E t \in Turns : Respond(c, t)) \/ RespondAdapter(c) \/ RespondCheck(c)
    \/ Close(c) \/ CloseAdapter(c) \/ CloseFinish(c) \/ CloseLog(c)
    \/ Return(c)

DeliveryStep(th) == Deliver(th) \/ Apply(th) \/ Record(th)

Next ==
    \/ \E t \in Turns : TurnStep(t)
    \/ \E c \in Callers : CallStep(c)
    \/ \E th \in Threads : DeliveryStep(th)
    \/ \E i \in 1..Len(queue) : RemoveQueuedTurn(i)
    \/ Block \/ Unblock \/ DispatchQueued
    \/ Crash \/ ReconcileFail \/ ReconcileDone

Spec == Init /\ [][Next]_vars

-----------------------------------------------------------------------------
(* Fairness: a goroutine that can run does run, and the agent answers a    *)
(* prompt once nothing it asked the host for is open.  Nothing forces the  *)
(* host to call, the agent to ask, or anything to fail.                    *)

SubmitStep(t) ==
    Submit(t) \/ TryLock(t) \/ BeginTurn(t) \/ LaunchPrompt(t)
    \/ FinishSubmit(t) \/ Fail(t) \/ FinishFail(t)

PromptStep(t) == PromptReturns(t) \/ PromptUnlocks(t) \/ PromptOver(t)

CallContinues(c) ==
    \/ InterruptRead(c) \/ InterruptCancel(c) \/ InterruptTake(c)
    \/ InterruptWait(c) \/ InterruptCheck(c) \/ RespondAdapter(c)
    \/ RespondCheck(c) \/ CloseAdapter(c) \/ CloseFinish(c) \/ CloseLog(c)
    \/ Return(c)

Fairness ==
    /\ \A t \in Turns : WF_vars(SubmitStep(t))
    /\ \A t \in Turns : WF_vars(PromptStep(t))
    /\ \A t \in Turns : WF_vars(AskAnswered(t))
    /\ \A th \in Threads : WF_vars(DeliveryStep(th))
    /\ \A c \in Callers : WF_vars(CallContinues(c))
    /\ WF_vars(DispatchQueued)

FairSpec == Spec /\ Fairness

-----------------------------------------------------------------------------
(* Properties.                                                             *)

\* "Only one provider turn runs at a time in a session": when a request
\* reaches SendTurn's promptMu.TryLock, no other turn holds the lock, so the
\* runtime's dispatching and active flags alone keep the turns apart and no
\* request is rejected with "already has an active turn".
SubmitFindsFree == \A t \in Turns : sub[t] = "trylock" => promptMu = None

\* While a prompt runs the session knows it: it is active, with that turn's
\* ID, so Send queues, Restart refuses, and Interrupt finds its target.
RunningIsActive ==
    \A t \in Turns : prompt[t] = "running" => active /\ activeTurn = t

\* No lost wakeup: an idle session whose queue is not empty has a dispatcher
\* under way, or a terminal event in delivery that starts one.
NotStranded ==
    ReadyToDispatch /\ ~blocked /\ ~sinkClosed =>
        \/ dispatchers > 0
        \/ \E th \in Threads : ev[th].kind = "terminal"

\* An interaction of an open session is pending only while the turn that
\* requested it is active: a terminal event clears it, no late request event
\* brings it back, and a restart whose journal tells of an interaction and of
\* another turn (the terminal record between them was never appended) leaves
\* neither behind once Restore has returned.
PendingHasTurn ==
    Up /\ ~Closed /\ pending # None => active /\ activeTurn = pending

\* The journal tells the same story as memory although records are appended
\* after the lock was released, in whatever order the goroutines get there:
\* with no event in delivery, Restore would find the turn that is active.
JournalCurrent ==
    (\A th \in Threads : Quiet(th)) =>
        image.active = active /\ image.turn = activeTurn

\* Every accepted request is in one place: the queue holds exactly the
\* requests that wait, each once, whatever removes, dispatches or drops them.
QueueEntriesOnce ==
    /\ \A i, j \in 1..Len(queue) : queue[i] = queue[j] => i = j
    /\ \A t \in Turns :
          sub[t] = "queued" <=> \E i \in 1..Len(queue) : queue[i] = t

\* promptMu is held by whatever prompt has not returned, so no two prompts
\* ever run at the agent, even when interrupts and failed submissions have
\* made the runtime lose track of the turn.
PromptExclusion ==
    \A t \in Turns : prompt[t] \in {"running", "ending", "muted"} => promptMu = t

\* Restore "resolves any active turn left behind by the previous runtime
\* before returning": the session is idle, waits for nothing, and a second
\* restart would find no active turn in the journal.
ReconcileResolves ==
    [][phase # "up" /\ phase' = "up" =>
         Idle' /\ pending' = None /\ ~image'.active]_vars

\* Once the session.closed record is written the session stays closed, in
\* memory and in the journal, across late events and restarts.
ClosedIsFinal ==
    [][image.status = "closed" => image'.status = "closed" /\ Closed']_vars

\* `InterruptActive` "cancels only the active turn and preserves queued work":
\* no request taken from the queue fails to be submitted.
QueuedWorkSurvives ==
    \A t \in dequeued : sub[t] \notin {"failing", "failed"}

\* The session "cannot remain stuck as active": an active turn ends.
TurnsEnd == active ~> ~active

\* A queued request is dispatched, or removed, unless dispatch is blocked.
QueueDrains == queue # <<>> ~> queue = <<>> \/ blocked
=============================================================================
