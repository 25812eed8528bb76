---------------------------- MODULE AcpxSession ----------------------------
(***************************************************************************)
(* One managedSession of adapters/acpx/acpx.go: the lock that admits one   *)
(* prompt at a time, the current turn that Interrupt and the prompt's own  *)
(* goroutine compete for, and the interactions that wait for the host.     *)
(* Each operator is one critical section of turnMu, promptMu or            *)
(* interactionMu.                                                          *)
(***************************************************************************)
EXTENDS TurnNames

VARIABLES registered,  \* the adapter's session map still holds the session
          promptMu,    \* the turn whose submission holds promptMu, or None
          curTurn,     \* turnID
          doneRef,     \* promptDone: the turn whose channel it is, or None
          prompt,      \* [Turns -> how far the turn's runPrompt goroutine is]
          cancelled,   \* turns whose context was cancelled
          asks         \* interactions: turns with an interaction that waits

acpxVars == <<registered, promptMu, curTurn, doneRef, prompt, cancelled, asks>>

\* A prompt is running until the agent answers.  It then is "ending" or
\* "muted", as finishTurn found the turn to be still its own or not, until it
\* unlocks promptMu; "emitting" while it delivers its terminal event; "over"
\* once promptDone is closed.
PromptStages == {"none", "running", "ending", "muted", "emitting", "over"}

AcpxTypeOK ==
    /\ registered \in BOOLEAN
    /\ promptMu \in MaybeTurn
    /\ curTurn \in MaybeTurn
    /\ doneRef \in MaybeTurn
    /\ prompt \in [Turns -> PromptStages]
    /\ cancelled \in SUBSET Turns
    /\ asks \in SUBSET Turns

AcpxInit ==
    /\ registered = TRUE
    /\ promptMu = None
    /\ curTurn = None
    /\ doneRef = None
    /\ prompt = [t \in Turns |-> "none"]
    /\ cancelled = {}
    /\ asks = {}

-----------------------------------------------------------------------------
(* SendTurn and runPrompt.                                                 *)

\* promptMu.TryLock fails: SendTurn returns "already has an active turn".
PromptBusy ==
    /\ promptMu # None
    /\ UNCHANGED acpxVars

\* Mutated: asks whether a turn is current, not whether a prompt runs.
LockPrompt_CurrentTurn(t) ==
    /\ curTurn = None
    /\ promptMu' = t
    /\ UNCHANGED <<registered, curTurn, doneRef, prompt, cancelled, asks>>

LockPrompt(t) ==
    /\ promptMu = None
    /\ promptMu' = t
    /\ UNCHANGED <<registered, curTurn, doneRef, prompt, cancelled, asks>>

\* applySelections failed.
UnlockPrompt ==
    /\ promptMu' = None
    /\ UNCHANGED <<registered, curTurn, doneRef, prompt, cancelled, asks>>

SetTurn(t) ==
    /\ curTurn' = t
    /\ doneRef' = t
    /\ UNCHANGED <<registered, promptMu, prompt, cancelled, asks>>

\* The goroutine SendTurn starts once turn_started was delivered.
StartPrompt(t) ==
    /\ prompt' = [prompt EXCEPT ![t] = "running"]
    /\ UNCHANGED <<registered, promptMu, curTurn, doneRef, cancelled, asks>>

\* The agent answered, or the turn's context was cancelled: finishTurn.
FinishTurn(t) ==
    /\ prompt[t] = "running"
    /\ prompt' = [prompt EXCEPT ![t] = IF curTurn = t THEN "ending" ELSE "muted"]
    /\ curTurn' = IF curTurn = t THEN None ELSE curTurn
    /\ UNCHANGED <<registered, promptMu, doneRef, cancelled, asks>>

\* runPrompt unlocks promptMu before it emits the terminal event.
ReleasePrompt(t) ==
    /\ prompt[t] \in {"ending", "muted"}
    /\ promptMu' = None
    /\ prompt' = [prompt EXCEPT ![t] = IF @ = "ending" THEN "emitting" ELSE "over"]
    /\ UNCHANGED <<registered, curTurn, doneRef, cancelled, asks>>

\* close(promptDone), after the terminal event was delivered.
PromptDone(t) ==
    /\ prompt[t] = "emitting"
    /\ prompt' = [prompt EXCEPT ![t] = "over"]
    /\ UNCHANGED <<registered, promptMu, curTurn, doneRef, cancelled, asks>>

-----------------------------------------------------------------------------
(* Interactions.                                                           *)

\* awaitInteraction registers the request that the host must answer.
AwaitInteraction(t) ==
    /\ asks' = asks \cup {t}
    /\ UNCHANGED <<registered, promptMu, curTurn, doneRef, prompt, cancelled>>

\* RespondInteraction takes the waiting request.
TakeInteraction(t) ==
    /\ registered
    /\ t \in asks
    /\ asks' = asks \ {t}
    /\ UNCHANGED <<registered, promptMu, curTurn, doneRef, prompt, cancelled>>

\* The handler has its answer, or sees that the session was stopped, and
\* removes its interaction if it is still there.
RemoveInteraction(t) ==
    /\ t \notin asks \/ ~registered
    /\ asks' = asks \ {t}
    /\ UNCHANGED <<registered, promptMu, curTurn, doneRef, prompt, cancelled>>

RespondRejected(t) ==
    /\ ~registered \/ t \notin asks
    /\ UNCHANGED acpxVars

-----------------------------------------------------------------------------
(* Interrupt and CloseSession.                                             *)

\* cancelInteractions and cancelTurn.  The two touch disjoint state and the
\* waiters they wake look at neither, so they are one step.
CancelTurn ==
    /\ asks' = {}
    /\ cancelled' = IF curTurn = None THEN cancelled ELSE cancelled \cup {curTurn}
    /\ UNCHANGED <<registered, promptMu, curTurn, doneRef, prompt>>

TakeTurn ==
    /\ curTurn' = None
    /\ doneRef' = None
    /\ UNCHANGED <<registered, promptMu, prompt, cancelled, asks>>

\* CloseSession: the session leaves the map, stop cancels what is running.
StopSession ==
    /\ registered' = FALSE
    /\ asks' = {}
    /\ cancelled' = IF curTurn = None THEN cancelled ELSE cancelled \cup {curTurn}
    /\ UNCHANGED <<promptMu, curTurn, doneRef, prompt>>

\* A new process: no prompt survived, and StartSession opened the provider
\* session again when isOpen holds.
Reopen(isOpen) ==
    /\ registered' = isOpen
    /\ promptMu' = None
    /\ curTurn' = None
    /\ doneRef' = None
    /\ prompt' = [t \in Turns |-> IF prompt[t] = "none" THEN "none" ELSE "over"]
    /\ cancelled' = {}
    /\ asks' = {}
=============================================================================
