---------------------------- MODULE AgentProcess ----------------------------
(***************************************************************************)
(* A Process of transport/process.go: JSON-RPC calls to an agent           *)
(* subprocess over its stdin and stdout.  Callers wait for a reply, the    *)
(* end of their context, or the end of the process; the read loop, the     *)
(* goroutine in cmd.Wait and Close each release whoever waits.             *)
(*                                                                         *)
(* Message bodies are left out: a call or an inbound request is its ID.    *)
(* Notifications change nothing here.  The agent is external: it replies   *)
(* in any order and more than once, makes requests of its own, cancels     *)
(* them, and may stop reading or exit at any time.                         *)
(***************************************************************************)
EXTENDS Naturals, Sequences

CONSTANTS Calls,         \* outbound requests
          Requests,      \* the agent's requests
          PipeCapacity,  \* messages either pipe holds unread
          ObserverFails  \* whether spec.Observe may return an error

ASSUME CapacityAssumption == PipeCapacity \in Nat \ {0}
ASSUME ObserverAssumption == ObserverFails \in BOOLEAN

VARIABLES pc,         \* [Calls -> where Call is]
          ended,      \* calls whose context has ended
          pending,    \* p.pending
          replies,    \* [Calls -> the contents of the call's channel]
          handler,    \* [Requests -> where the request's goroutine is]
          inbound,    \* p.inbound
          cancelled,  \* requests whose context was cancelled
          done,       \* p.done is closed
          at,         \* [Actors -> where each caller of closePending is]
          stdinOpen,
          alive,      \* the agent process runs
          stdin,      \* messages written and not yet read by the agent
          stdout,     \* messages the agent wrote and readLoop has not read
          asked       \* calls the agent has read

callVars == <<pc, ended, pending, replies>>
handlerVars == <<handler, inbound, cancelled>>
procVars == <<done, at, stdinOpen>>
agentVars == <<alive, stdout, asked>>
vars == <<callVars, handlerVars, procVars, agentVars, stdin>>

\* readLoop, the goroutine in cmd.Wait, and Close.
Actors == {"reader", "waiter", "closer"}

Msg(k, id) == [kind |-> k, id |-> id]

\* A call's channel has room for one answer, so TypeOK also says that nobody
\* ever sends a second one: the send in closePending, made while holding mu,
\* and the one in readLoop would block for good.
TypeOK ==
    /\ pc \in [Calls -> {"new", "registered", "writing", "waiting",
                         "cancelling", "returned"}]
    /\ ended \in SUBSET Calls
    /\ pending \in SUBSET Calls
    /\ replies \in [Calls -> {<< >>, <<"reply">>, <<"exited">>}]
    /\ handler \in [Requests -> {"none", "running", "replying", "over"}]
    /\ inbound \in SUBSET Requests /\ cancelled \in SUBSET Requests
    /\ done \in BOOLEAN
    /\ at \in [Actors -> {"working", "close_done", "close_pending", "over"}]
    /\ stdinOpen \in BOOLEAN /\ alive \in BOOLEAN
    /\ stdin \in Seq([kind : {"call", "cancel", "reply"}, id : Calls \cup Requests])
    /\ stdout \in Seq([kind : {"reply", "request", "cancel"}, id : Calls \cup Requests])
    /\ asked \in SUBSET Calls

Init ==
    /\ pc = [c \in Calls |-> "new"]
    /\ ended = {} /\ pending = {}
    /\ replies = [c \in Calls |-> << >>]
    /\ handler = [r \in Requests |-> "none"]
    /\ inbound = {} /\ cancelled = {}
    /\ done = FALSE
    /\ at = [a \in Actors |-> "working"]
    /\ stdinOpen = TRUE /\ alive = TRUE
    /\ stdin = << >> /\ stdout = << >> /\ asked = {}

-----------------------------------------------------------------------------
(* writeMessage.  Its look at p.done is made on the way into the stages    *)
(* from which messages are written: a writer that passed it and waits for  *)
(* writeMu or for room in the pipe writes even if done is closed meanwhile.*)

WriteFails == done \/ ~stdinOpen \/ ~alive \/ ObserverFails

WriteSucceeds(k, id) ==
    /\ stdinOpen /\ alive
    /\ Len(stdin) < PipeCapacity
    /\ stdin' = Append(stdin, Msg(k, id))

-----------------------------------------------------------------------------
(* Call.                                                                   *)

Goes(c, stage) == pc' = [pc EXCEPT ![c] = stage]

Register(c) ==
    /\ pc[c] = "new"
    /\ Goes(c, "registered")
    /\ pending' = pending \cup {c}
    /\ UNCHANGED <<ended, replies, handlerVars, procVars, agentVars, stdin>>

\* The look at p.done that follows the registration.
CheckDone(c) ==
    /\ pc[c] = "registered"
    /\ \/ done /\ pending' = pending \ {c} /\ Goes(c, "returned")
       \/ ~done /\ Goes(c, "writing") /\ UNCHANGED pending
    /\ UNCHANGED <<ended, replies, handlerVars, procVars, agentVars, stdin>>

WriteCall(c) ==
    /\ pc[c] = "writing"
    /\ \/ WriteSucceeds("call", c) /\ Goes(c, "waiting") /\ UNCHANGED pending
       \/ WriteFails /\ pending' = pending \ {c} /\ Goes(c, "returned") /\ UNCHANGED stdin
    /\ UNCHANGED <<ended, replies, handlerVars, procVars, agentVars>>

\* The three-way select; any case that is ready may be taken.
GetsReply(c) ==
    /\ pc[c] = "waiting" /\ replies[c] # << >>
    /\ replies' = [replies EXCEPT ![c] = Tail(@)]
    /\ Goes(c, "returned")
    /\ UNCHANGED <<ended, pending, handlerVars, procVars, agentVars, stdin>>

GetsDone(c) ==
    /\ pc[c] = "waiting" /\ done
    /\ Goes(c, "returned")
    /\ UNCHANGED <<ended, pending, replies, handlerVars, procVars, agentVars, stdin>>

\* The agent is told to cancel unless an answer got there first.
GetsContext(c) ==
    /\ pc[c] = "waiting" /\ c \in ended
    /\ pending' = pending \ {c}
    /\ Goes(c, IF c \in pending /\ ~done THEN "cancelling" ELSE "returned")
    /\ UNCHANGED <<ended, replies, handlerVars, procVars, agentVars, stdin>>

SendCancel(c) ==
    /\ pc[c] = "cancelling"
    /\ WriteSucceeds("cancel", c) \/ (WriteFails /\ UNCHANGED stdin)
    /\ Goes(c, "returned")
    /\ UNCHANGED <<ended, pending, replies, handlerVars, procVars, agentVars>>

ContextEnds(c) ==
    /\ c \notin ended /\ pc[c] # "returned"
    /\ ended' = ended \cup {c}
    /\ UNCHANGED <<pc, pending, replies, handlerVars, procVars, agentVars, stdin>>

-----------------------------------------------------------------------------
(* readLoop, and the goroutines handleRequest starts.                      *)

Reads(k, id) ==
    /\ at["reader"] = "working"
    /\ stdout # << >> /\ Head(stdout) = Msg(k, id)
    /\ stdout' = Tail(stdout)
    /\ UNCHANGED <<pc, ended, procVars, alive, asked, stdin>>

\* Mutated: the waiter is looked up and stays registered.
ReadReply_KeepsPending(c) ==
    /\ Reads("reply", c)
    /\ replies' = IF c \in pending THEN [replies EXCEPT ![c] = Append(@, "reply")]
                                   ELSE replies
    /\ UNCHANGED <<pending, handlerVars>>

\* A reply for which nobody waits any longer is dropped.
ReadReply(c) ==
    /\ Reads("reply", c)
    /\ replies' = IF c \in pending THEN [replies EXCEPT ![c] = Append(@, "reply")]
                                   ELSE replies
    /\ pending' = pending \ {c}
    /\ UNCHANGED handlerVars

handleRequest(r) ==
    /\ Reads("request", r)
    /\ inbound' = inbound \cup {r}
    /\ handler' = [handler EXCEPT ![r] = "running"]
    /\ UNCHANGED <<pending, replies, cancelled>>

handleCancel(r) ==
    /\ Reads("cancel", r)
    /\ cancelled' = cancelled \cup ({r} \cap inbound)
    /\ UNCHANGED <<pending, replies, handler, inbound>>

\* Mutated: the read loop returns without closePending.
ReaderEnds_NoRelease ==
    /\ at["reader"] = "working"
    /\ \/ stdout = << >> /\ ~alive
       \/ at["waiter"] # "working"
       \/ ObserverFails /\ stdout # << >>
    /\ at' = [at EXCEPT !["reader"] = "over"]
    /\ UNCHANGED <<callVars, handlerVars, done, stdinOpen, agentVars, stdin>>

\* The end of the output; an error because cmd.Wait closed the pipe, unread
\* messages and all; or an observer that refuses a message.
ReaderEnds ==
    /\ at["reader"] = "working"
    /\ \/ stdout = << >> /\ ~alive
       \/ at["waiter"] # "working"
       \/ ObserverFails /\ stdout # << >>
    /\ at' = [at EXCEPT !["reader"] = "close_done"]
    /\ UNCHANGED <<callVars, handlerVars, done, stdinOpen, agentVars, stdin>>

\* A handler may need a cancelled context to return.
HandlerReturns(r) ==
    /\ handler[r] = "running"
    /\ inbound' = inbound \ {r}
    /\ handler' = [handler EXCEPT ![r] = IF done THEN "over" ELSE "replying"]
    /\ UNCHANGED <<callVars, cancelled, procVars, agentVars, stdin>>

writeResponse(r) ==
    /\ handler[r] = "replying"
    /\ WriteSucceeds("reply", r) \/ (WriteFails /\ UNCHANGED stdin)
    /\ handler' = [handler EXCEPT ![r] = "over"]
    /\ UNCHANGED <<callVars, inbound, cancelled, procVars, agentVars>>

-----------------------------------------------------------------------------
(* The end of the process, and closePending, which three actors call.      *)

WaitReturns ==
    /\ at["waiter"] = "working" /\ ~alive
    /\ at' = [at EXCEPT !["waiter"] = "close_done"]
    /\ UNCHANGED <<callVars, handlerVars, done, stdinOpen, agentVars, stdin>>

Close ==
    /\ at["closer"] = "working" /\ stdinOpen
    /\ stdinOpen' = FALSE
    /\ UNCHANGED <<callVars, handlerVars, done, at, agentVars, stdin>>

\* Mutated: an agent that outlives the grace period is left running.
Kill_Dropped ==
    /\ at["closer"] = "working" /\ ~stdinOpen /\ ~alive
    /\ UNCHANGED vars

\* processCloseGrace has passed.
Kill ==
    /\ at["closer"] = "working" /\ ~stdinOpen /\ alive
    /\ alive' = FALSE
    /\ UNCHANGED <<callVars, handlerVars, procVars, stdout, asked, stdin>>

\* stderrDone is closed once cmd.Wait has returned.
CloseSeesExit ==
    /\ at["closer"] = "working" /\ ~stdinOpen
    /\ at["waiter"] # "working"
    /\ at' = [at EXCEPT !["closer"] = "close_done"]
    /\ UNCHANGED <<callVars, handlerVars, done, stdinOpen, agentVars, stdin>>

\* Mutated: everything closePending does is done once.
CloseDone_Once(a) ==
    /\ at[a] = "close_done"
    /\ done' = TRUE
    /\ at' = [at EXCEPT ![a] = IF done THEN "over" ELSE "close_pending"]
    /\ UNCHANGED <<callVars, handlerVars, stdinOpen, agentVars, stdin>>

\* closePending up to p.mu.
CloseDone(a) ==
    /\ at[a] = "close_done"
    /\ done' = TRUE
    /\ at' = [at EXCEPT ![a] = "close_pending"]
    /\ UNCHANGED <<callVars, handlerVars, stdinOpen, agentVars, stdin>>

\* closePending under p.mu.
ReleaseAll(a) ==
    /\ at[a] = "close_pending"
    /\ cancelled' = cancelled \cup inbound
    /\ inbound' = {}
    /\ replies' = [c \in Calls |-> IF c \in pending THEN Append(replies[c], "exited")
                                                    ELSE replies[c]]
    /\ pending' = {}
    /\ at' = [at EXCEPT ![a] = "over"]
    /\ UNCHANGED <<pc, ended, handler, done, stdinOpen, agentVars, stdin>>

-----------------------------------------------------------------------------
(* The agent.                                                              *)

AgentReads ==
    /\ alive /\ stdin # << >>
    /\ stdin' = Tail(stdin)
    /\ asked' = IF Head(stdin).kind = "call" THEN asked \cup {Head(stdin).id} ELSE asked
    /\ UNCHANGED <<callVars, handlerVars, procVars, alive, stdout>>

AgentWrites(k, id) ==
    /\ alive /\ Len(stdout) < PipeCapacity
    /\ stdout' = Append(stdout, Msg(k, id))
    /\ UNCHANGED <<callVars, handlerVars, procVars, alive, asked, stdin>>

\* A request's ID is not used again.
AgentSends ==
    \/ \E c \in asked : AgentWrites("reply", c)
    \/ \E r \in Requests :
          /\ handler[r] = "none" /\ \A i \in DOMAIN stdout : stdout[i] # Msg("request", r)
          /\ AgentWrites("request", r)
    \/ \E r \in Requests : handler[r] # "none" /\ AgentWrites("cancel", r)

AgentExits ==
    /\ alive
    /\ alive' = FALSE
    /\ UNCHANGED <<callVars, handlerVars, procVars, stdout, asked, stdin>>

-----------------------------------------------------------------------------
Reader ==
    \/ \E c \in Calls : ReadReply(c)
    \/ \E r \in Requests : handleRequest(r) \/ handleCancel(r)
    \/ ReaderEnds

Select(c) == GetsReply(c) \/ GetsDone(c) \/ GetsContext(c)

Next ==
    \/ \E c \in Calls : Register(c) \/ CheckDone(c) \/ WriteCall(c) \/ Select(c)
                        \/ SendCancel(c) \/ ContextEnds(c)
    \/ Reader
    \/ \E r \in Requests : HandlerReturns(r) \/ writeResponse(r)
    \/ WaitReturns \/ Close \/ Kill \/ CloseSeesExit
    \/ \E a \in Actors : CloseDone(a) \/ ReleaseAll(a)
    \/ AgentReads \/ AgentSends \/ AgentExits

Spec == Init /\ [][Next]_vars

\* Goroutines that can run do; the grace timer fires.  Nothing is asked of
\* the agent, of the callers' contexts, or of the handlers.
FairSpec ==
    /\ Spec
    /\ \A c \in Calls : WF_vars(Select(c)) /\ WF_vars(CheckDone(c))
                        /\ WF_vars(WriteCall(c)) /\ WF_vars(SendCancel(c))
    /\ WF_vars(Reader) /\ WF_vars(WaitReturns) /\ WF_vars(Kill)
    /\ WF_vars(CloseSeesExit)
    /\ \A a \in Actors : WF_vars(CloseDone(a)) /\ WF_vars(ReleaseAll(a))

-----------------------------------------------------------------------------
(* Properties.                                                             *)

\* Once the read loop is through closePending nobody is left behind, whichever
\* of the three actors closed p.done: a call still in p.pending has its look at
\* p.done ahead of it, and every handler still running, the ones the read loop
\* started after another actor's closePending included, has had its context
\* cancelled (readLoop, handleRequest, closePending, Call).
AllReleased ==
    at["reader"] = "over" =>
        /\ \A c \in pending : pc[c] = "registered"
        /\ \A r \in Requests : handler[r] = "running" => r \in cancelled

\* Close returns, however stubborn the agent (the grace period and the kill).
CloseEnds == ~stdinOpen ~> at["closer"] = "over"

\* Calls come back.  One that waits for its reply does not wait for ever once
\* the read loop has stopped reading, whatever the agent does; and once the
\* agent has exited every call that was begun returns, also the ones that were
\* writing or sending a cancellation (Call's select, closePending).
CallsReturn ==
    \A c \in Calls :
        /\ (pc[c] = "waiting" /\ at["reader"] # "working") ~> pc[c] # "waiting"
        /\ (~alive /\ pc[c] # "new") ~> pc[c] = "returned"
=============================================================================
