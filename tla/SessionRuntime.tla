--------------------------- MODULE SessionRuntime ---------------------------
(***************************************************************************)
(* One managedSession of runtime/runtime.go: the fields its mutex guards   *)
(* and every critical section that changes them.  Each operator below is   *)
(* one r.mu.Lock ... r.mu.Unlock block, so it is one atomic step; who runs *)
(* it, and what that thread does between two blocks, is in TurnSystem.     *)
(***************************************************************************)
EXTENDS TurnNames, Naturals, Sequences

CONSTANT MaxQueuedTurns  \* Config.MaxQueuedTurns

ASSUME MaxQueuedAssumption == MaxQueuedTurns \in Nat \ {0}

VARIABLES status,       \* session.Status
          dispatching,  \* a turn was handed to the adapter, not yet started
          active,       \* a turn_started was seen, its terminal event was not
          activeTurn,   \* activeTurnID
          blocked,      \* dispatchBlocked
          queue,        \* queued entries, head first
          pending,      \* pendingInteraction
          lastTurn,     \* session.BackendSession.TurnID
          sinkClosed,   \* the session's event coalescer was closed
          image         \* what Restore would rebuild from the journal so far

rtVars == <<status, dispatching, active, activeTurn, blocked, queue, pending,
            lastTurn, sinkClosed, image>>

Statuses == {"active", "running", "waiting_input", "closed"}

\* The part of a session that Restore reads off its journal.
Images == [status : Statuses, active : BOOLEAN, turn : MaybeTurn,
           pending : MaybeTurn]

EmptyImage ==
    [status |-> "active", active |-> FALSE, turn |-> None, pending |-> None]

RuntimeTypeOK ==
    /\ status \in Statuses
    /\ dispatching \in BOOLEAN
    /\ active \in BOOLEAN
    /\ activeTurn \in MaybeTurn
    /\ blocked \in BOOLEAN
    /\ queue \in Seq(Turns) /\ Len(queue) <= MaxQueuedTurns
    /\ pending \in MaybeTurn
    /\ lastTurn \in MaybeTurn
    /\ sinkClosed \in BOOLEAN
    /\ image \in Images

\* A session that Create registered and Start opened without a first prompt.
RuntimeInit ==
    /\ status = "active"
    /\ dispatching = FALSE
    /\ active = FALSE
    /\ activeTurn = None
    /\ blocked = FALSE
    /\ queue = << >>
    /\ pending = None
    /\ lastTurn = None
    /\ sinkClosed = FALSE
    /\ image = EmptyImage

Closed == status = "closed"

Idle == ~active /\ ~dispatching

-----------------------------------------------------------------------------
(* Host calls.                                                             *)

\* Mutated: looks at active alone.
SendNow_IgnoresDispatching ==
    /\ ~Closed /\ ~active /\ ~blocked
    /\ dispatching' = TRUE
    /\ active' = FALSE
    /\ activeTurn' = None
    /\ UNCHANGED <<status, blocked, queue, pending, lastTurn, sinkClosed, image>>

\* send, idle branch: the caller's own thread will submit the turn.
SendNow ==
    /\ ~Closed /\ Idle /\ ~blocked
    /\ dispatching' = TRUE
    /\ active' = FALSE
    /\ activeTurn' = None
    /\ UNCHANGED <<status, blocked, queue, pending, lastTurn, sinkClosed, image>>

MustQueue == active \/ dispatching \/ blocked

\* Mutated: one entry too many.
SendQueued_OffByOne(r, next) ==
    /\ ~Closed /\ MustQueue
    /\ Len(queue) <= MaxQueuedTurns
    /\ queue' = IF next THEN <<r>> \o queue ELSE Append(queue, r)
    /\ UNCHANGED <<status, dispatching, active, activeTurn, blocked, pending,
                   lastTurn, sinkClosed, image>>

\* send, busy branch: Send appends the entry, SendNext prepends it.
SendQueued(r, next) ==
    /\ ~Closed /\ MustQueue
    /\ Len(queue) < MaxQueuedTurns
    /\ queue' = IF next THEN <<r>> \o queue ELSE Append(queue, r)
    /\ UNCHANGED <<status, dispatching, active, activeTurn, blocked, pending,
                   lastTurn, sinkClosed, image>>

\* send refuses the request: the session is closed or its queue is full.
SendRefused ==
    /\ Closed \/ (MustQueue /\ Len(queue) >= MaxQueuedTurns)
    /\ UNCHANGED rtVars

\* Mutated: the slice ends one entry late.
RemoveQueued_OffByOne(i) ==
    /\ i \in 1..Len(queue)
    /\ queue' = SubSeq(queue, 1, i) \o SubSeq(queue, i + 1, Len(queue))
    /\ UNCHANGED <<status, dispatching, active, activeTurn, blocked, pending,
                   lastTurn, sinkClosed, image>>

\* RemoveQueuedTurn drops the i-th entry and keeps the order of the others.
RemoveQueued(i) ==
    /\ i \in 1..Len(queue)
    /\ queue' = SubSeq(queue, 1, i - 1) \o SubSeq(queue, i + 1, Len(queue))
    /\ UNCHANGED <<status, dispatching, active, activeTurn, blocked, pending,
                   lastTurn, sinkClosed, image>>

BlockDispatch ==
    /\ blocked' = TRUE
    /\ UNCHANGED <<status, dispatching, active, activeTurn, queue, pending,
                   lastTurn, sinkClosed, image>>

\* UnblockDispatch starts a dispatcher when ReadyToDispatch holds.
UnblockDispatch ==
    /\ blocked' = FALSE
    /\ UNCHANGED <<status, dispatching, active, activeTurn, queue, pending,
                   lastTurn, sinkClosed, image>>

ReadyToDispatch == Idle /\ queue # << >> /\ ~Closed

\* Interrupt discards the queue before it looks at the provider.
ClearQueue ==
    /\ queue' = << >>
    /\ UNCHANGED <<status, dispatching, active, activeTurn, blocked, pending,
                   lastTurn, sinkClosed, image>>

\* RespondInteraction leaves waiting_input before the adapter has accepted.
BeginRespond ==
    /\ status' = IF status = "waiting_input" THEN "running" ELSE status
    /\ UNCHANGED <<dispatching, active, activeTurn, blocked, queue, pending,
                   lastTurn, sinkClosed, image>>

\* Close shuts the coalescer first: every later event is dropped by it.
CloseSink ==
    /\ ~Closed
    /\ sinkClosed' = TRUE
    /\ UNCHANGED <<status, dispatching, active, activeTurn, blocked, queue,
                   pending, lastTurn, image>>

\* Close, after the adapter closed its session.
FinishClose ==
    /\ IF Closed
       THEN UNCHANGED <<status, dispatching, active, activeTurn, queue>>
       ELSE /\ status' = "closed"
            /\ dispatching' = FALSE
            /\ active' = FALSE
            /\ activeTurn' = None
            /\ queue' = << >>
    /\ UNCHANGED <<blocked, pending, lastTurn, sinkClosed, image>>

-----------------------------------------------------------------------------
(* Dispatch and submission.                                                *)

\* dispatchQueued finds nothing to do.
DispatchNothing ==
    /\ ~ReadyToDispatch \/ blocked
    /\ UNCHANGED rtVars

\* dispatchQueued takes the head of the queue.
DispatchHead ==
    /\ ReadyToDispatch /\ ~blocked
    /\ queue' = Tail(queue)
    /\ dispatching' = TRUE
    /\ active' = FALSE
    /\ activeTurn' = None
    /\ UNCHANGED <<status, blocked, pending, lastTurn, sinkClosed, image>>

\* submitTurn, after SendTurn returned: BackendSession = state.
SubmitReturned(t) ==
    /\ lastTurn' = t
    /\ UNCHANGED <<status, dispatching, active, activeTurn, blocked, queue,
                   pending, sinkClosed, image>>

\* failSubmission, before it delivers its turn_failed without a turn ID.
FailSubmission ==
    /\ dispatching' = FALSE
    /\ active' = FALSE
    /\ activeTurn' = None
    /\ status' = IF status = "running" THEN "active" ELSE status
    /\ UNCHANGED <<blocked, queue, pending, lastTurn, sinkClosed, image>>

-----------------------------------------------------------------------------
(* Event delivery.                                                         *)

\* deliver stamps an event that carries no turn ID.
StampedTurn(t) ==
    CASE t # None -> t
      [] t = None /\ activeTurn # None -> activeTurn
      [] t = None /\ activeTurn = None /\ Idle -> lastTurn
      [] OTHER -> None

\* Mutated: the turn ID is not noted.
ApplyTurnStarted_KeepsTurn(t) ==
    /\ dispatching' = FALSE
    /\ active' = TRUE
    /\ status' = IF status = "active" THEN "running" ELSE status
    /\ UNCHANGED <<activeTurn, blocked, queue, pending, lastTurn, sinkClosed, image>>

ApplyTurnStarted(t) ==
    /\ dispatching' = FALSE
    /\ active' = TRUE
    /\ activeTurn' = t
    /\ status' = IF status = "active" THEN "running" ELSE status
    /\ UNCHANGED <<blocked, queue, pending, lastTurn, sinkClosed, image>>

\* Mutated: compares with the last turn that SendTurn returned.
TerminalMatches_LastTurn(t) == t = None \/ activeTurn = None \/ t = lastTurn

\* Does a turn_complete or turn_failed of turn t end the current turn?
TerminalMatches(t) == t = None \/ activeTurn = None \/ t = activeTurn

\* Mutated: the pending interaction is left in place.
ApplyTerminal_KeepsPending(t) ==
    /\ IF TerminalMatches(t)
       THEN /\ dispatching' = FALSE
            /\ active' = FALSE
            /\ activeTurn' = None
            /\ status' = IF status \in {"running", "waiting_input"}
                         THEN "active" ELSE status
       ELSE UNCHANGED <<dispatching, active, activeTurn, status>>
    /\ UNCHANGED <<blocked, queue, pending, lastTurn, sinkClosed, image>>

ApplyTerminal(t) ==
    /\ IF TerminalMatches(t)
       THEN /\ dispatching' = FALSE
            /\ active' = FALSE
            /\ activeTurn' = None
            /\ pending' = None
            /\ status' = IF status \in {"running", "waiting_input"}
                         THEN "active" ELSE status
       ELSE UNCHANGED <<dispatching, active, activeTurn, pending, status>>
    /\ UNCHANGED <<blocked, queue, lastTurn, sinkClosed, image>>

\* Mutated: the last entry starts no dispatcher.
DispatchNext_OffByOne(t) == TerminalMatches(t) /\ Len(queue) > 1 /\ ~blocked

\* dispatchNext of the terminal event, decided in the same locked block.
DispatchNext(t) == TerminalMatches(t) /\ queue # << >> /\ ~blocked

ApplyInteractionRequested(t) ==
    /\ pending' = t
    /\ status' = IF status = "running" THEN "waiting_input" ELSE status
    /\ UNCHANGED <<dispatching, active, activeTurn, blocked, queue, lastTurn,
                   sinkClosed, image>>

ApplyInteractionResolved(t) ==
    /\ pending' = IF pending = t THEN None ELSE pending
    /\ UNCHANGED <<status, dispatching, active, activeTurn, blocked, queue,
                   lastTurn, sinkClosed, image>>

-----------------------------------------------------------------------------
(* The journal, as the state its records fold to.  Restore reads the whole *)
(* journal and applies one case per record; the model applies that case    *)
(* when the record is appended.                                            *)

\* Mutated: a late turn_started record reopens a closed session.
RestoreTurnStarted_Reopens(img, t) ==
    [img EXCEPT !.active = TRUE, !.turn = t, !.status = "running"]

RestoreTurnStarted(img, t) ==
    [img EXCEPT !.active = TRUE, !.turn = t,
                !.status = IF @ = "active" THEN "running" ELSE @]

\* Mutated: any terminal record ends the turn.
RestoreTerminal_AnyTurn(img, t) ==
    [img EXCEPT !.active = FALSE, !.turn = None, !.pending = None,
                !.status = IF @ \in {"running", "waiting_input"}
                           THEN "active" ELSE @]

RestoreTerminal(img, t) ==
    IF t = None \/ img.turn = None \/ t = img.turn
    THEN [img EXCEPT !.active = FALSE, !.turn = None, !.pending = None,
                     !.status = IF @ \in {"running", "waiting_input"}
                                THEN "active" ELSE @]
    ELSE img

RestoreInteraction(img, i) ==
    [img EXCEPT !.pending = i,
                !.status = IF @ = "running" THEN "waiting_input" ELSE @]

RestoreResolved(img, i) ==
    IF img.pending # None /\ i = img.pending
    THEN [img EXCEPT !.pending = None,
                     !.status = IF @ = "waiting_input" THEN "running" ELSE @]
    ELSE img

Restored(img, kind, t) ==
    CASE kind = "turn_started"          -> RestoreTurnStarted(img, t)
      [] kind = "terminal"              -> RestoreTerminal(img, t)
      [] kind = "interaction_requested" -> RestoreInteraction(img, t)
      [] kind = "interaction_resolved"  -> RestoreResolved(img, t)
      [] kind = "session_closed"        -> [img EXCEPT !.status = "closed"]

AppendRecord(kind, t) ==
    /\ image' = Restored(image, kind, t)
    /\ UNCHANGED <<status, dispatching, active, activeTurn, blocked, queue,
                   pending, lastTurn, sinkClosed>>

\* Restore of a session the new process does not hold yet.  Resume then opens
\* the provider session, which reports no turn ID of its own.
InsertRestored ==
    /\ status' = image.status
    /\ dispatching' = FALSE
    /\ active' = image.active
    /\ activeTurn' = image.turn
    /\ blocked' = FALSE
    /\ queue' = << >>
    /\ pending' = image.pending
    /\ lastTurn' = None
    /\ sinkClosed' = FALSE
    /\ UNCHANGED image
=============================================================================
