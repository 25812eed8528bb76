----------------------------- MODULE Antigravity -----------------------------
(***************************************************************************)
(* The antigravity adapter (src/adapters/antigravity/antigravity.go) for   *)
(* one host session ID.  Every StartSession makes a new managedSession;    *)
(* the host's goroutines send turns, interrupt, answer permission          *)
(* requests, restart and close, and each turn runs its prompt in a         *)
(* goroutine of its own.  A step is what happens between two points where  *)
(* turnMu, interactionMu, the adapter's mu or a channel is taken.          *)
(*                                                                         *)
(* The agent behind a session is external: it takes a prompt, may ask for  *)
(* one permission on the way, and answers when it likes.                   *)
(***************************************************************************)
EXTENDS Naturals, FiniteSets

CONSTANTS
    MaxSessions,   \* managedSessions made for the ID
    MaxTurns,      \* turns of one managedSession
    MaxAgents      \* agents made by createAgent

ASSUME AntigravityAssumption ==
    MaxSessions \in Nat \ {0} /\ MaxTurns \in Nat \ {0} /\ MaxAgents \in Nat \ {0}

Sessions == 1..MaxSessions
Turns == Sessions \X (1..MaxTurns)
Agents == 1..MaxAgents

VARIABLES
    registered,    \* a.sessions[id]: a managedSession or 0
    made,          \* managedSessions made so far
    s,             \* the managedSessions
    agents,        \* agents made so far
    open,          \* agents with an open provider session
    prompt,        \* where each turn's runPrompt stands
    ends,          \* terminal events emitted for each turn
    answer,        \* each turn's permission channel: requested, holding an answer
    replaced,      \* history: the agents that a restart put another in place of
    starter, sender, interrupter, closer, restarter, responder  \* host goroutines

vars == <<registered, made, s, agents, open, replaced, prompt, ends, answer,
          starter, sender, interrupter, closer, restarter, responder>>
host == <<starter, sender, interrupter, closer, restarter, responder>>

\* ready: the channel StartSession closes; turnID is 0 when no turn is active;
\* agent is the current agent; waiting holds the turns in the interactions map.
NewSession == [ready |-> "no", turn |-> 0, turnID |-> 0, restarting |-> FALSE,
               done |-> FALSE, agent |-> 0, waiting |-> {}, cancelled |-> {}]
SessionStates ==
    [ready : {"no", "ok", "failed"}, turn : 0..MaxTurns, turnID : 0..MaxTurns,
     restarting : BOOLEAN, done : BOOLEAN, agent : 0..MaxAgents,
     waiting : SUBSET (1..MaxTurns), cancelled : SUBSET (1..MaxTurns)]

Prompts == {"none", "configuring", "atAgent", "asking", "returned", "over"}

\* A host goroutine: what it is about to do, to which session, with which
\* turn and agent.
At(pc, i, n, a) == [pc |-> pc, i |-> i, n |-> n, a |-> a]
Idle == At("idle", 0, 0, 0)
Goroutines(pcs) == [pc : pcs \cup {"idle"}, i : 0..MaxSessions, n : 0..MaxTurns, a : 0..MaxAgents]

TypeOK ==
    /\ registered \in 0..MaxSessions /\ made \in 0..MaxSessions
    /\ s \in [Sessions -> SessionStates]
    /\ agents \in 0..MaxAgents /\ open \subseteq Agents /\ replaced \subseteq 0..MaxAgents
    /\ prompt \in [Turns -> [pc : Prompts, agent : 0..MaxAgents]]
    /\ ends \in [Turns -> 0..2]
    /\ answer \in [Turns -> [full : BOOLEAN, asked : BOOLEAN]]
    /\ starter \in Goroutines({"open"})
    /\ sender \in Goroutines({"begin", "started"})
    /\ interrupter \in Goroutines({"take", "cancel", "emit"})
    /\ closer \in Goroutines({"ready", "stop", "close"})
    /\ restarter \in Goroutines({"begin", "resume", "replace", "discard", "finish"})
    /\ responder \in Goroutines({"claim", "send"})

Init ==
    /\ registered = 0 /\ made = 0 /\ agents = 0 /\ open = {} /\ replaced = {}
    /\ s = [i \in Sessions |-> NewSession]
    /\ prompt = [t \in Turns |-> [pc |-> "none", agent |-> 0]]
    /\ ends = [t \in Turns |-> 0]
    /\ answer = [t \in Turns |-> [full |-> FALSE, asked |-> FALSE]]
    /\ starter = Idle /\ sender = Idle /\ interrupter = Idle
    /\ closer = Idle /\ restarter = Idle /\ responder = Idle

-----------------------------------------------------------------------------
\* StartSession registers the session, then opens it at a new agent.
StartRegister ==
    /\ starter.pc = "idle" /\ registered = 0 /\ made < MaxSessions /\ agents < MaxAgents
    /\ made' = made + 1 /\ registered' = made + 1
    /\ agents' = agents + 1
    /\ s' = [s EXCEPT ![made + 1].agent = agents + 1]
    /\ starter' = At("open", made + 1, 0, agents + 1)
    /\ UNCHANGED <<open, replaced, prompt, ends, answer, sender, interrupter, closer, restarter, responder>>

\* NewSession or ResumeSession answers; a failure unregisters and stops the
\* session (finishStart, remove).
StartOpened(ok) ==
    LET i == starter.i
    IN  /\ starter.pc = "open"
        /\ IF ok
           THEN /\ s' = [s EXCEPT ![i].ready = "ok"]
                /\ open' = open \cup {starter.a}
                /\ UNCHANGED registered
           ELSE /\ s' = [s EXCEPT ![i] = [s[i] EXCEPT !.ready = "failed", !.done = TRUE]]
                /\ registered' = IF registered = i THEN 0 ELSE registered
                /\ UNCHANGED open
        /\ starter' = Idle
        /\ UNCHANGED <<made, agents, replaced, prompt, ends, answer, sender, interrupter, closer, restarter, responder>>

\* session(): the registered session, once it is ready; the goroutine keeps
\* it even if it is closed meanwhile.
Found(i) == i # 0 /\ i = registered

-----------------------------------------------------------------------------
\* SendTurn finds the session ...
SendFind ==
    /\ sender.pc = "idle" /\ Found(registered)
    /\ sender' = At("begin", registered, 0, 0)
    /\ UNCHANGED <<registered, made, s, agents, open, replaced, prompt, ends, answer, starter, interrupter, closer, restarter, responder>>

\* ... takes the turn under turnMu, unless one is active or the agent is
\* being replaced ...
SendTake ==
    LET i == sender.i
    IN  /\ sender.pc = "begin" /\ s[i].ready # "no"
        /\ IF s[i].ready = "failed" \/ s[i].turnID # 0 \/ s[i].restarting \/ s[i].turn = MaxTurns
           THEN sender' = Idle /\ UNCHANGED s
           ELSE /\ s' = [s EXCEPT ![i] = [s[i] EXCEPT !.turn = s[i].turn + 1, !.turnID = s[i].turn + 1]]
                /\ sender' = At("started", i, s[i].turn + 1, 0)
        /\ UNCHANGED <<registered, made, agents, open, replaced, prompt, ends, answer, starter, interrupter, closer, restarter, responder>>

\* ... emits turn_started and starts the prompt's goroutine.
SendStarted ==
    /\ sender.pc = "started"
    /\ prompt' = [prompt EXCEPT ![<<sender.i, sender.n>>].pc = "configuring"]
    /\ sender' = Idle
    /\ UNCHANGED <<registered, made, s, agents, open, replaced, ends, answer, starter, interrupter, closer, restarter, responder>>

-----------------------------------------------------------------------------
\* runPrompt: apply the selections and hand the prompt to the agent current
\* at that moment.
PromptSubmit(t) ==
    /\ prompt[t].pc = "configuring"
    /\ prompt' = [prompt EXCEPT ![t] = [pc |-> "atAgent", agent |-> s[t[1]].agent]]
    /\ UNCHANGED <<registered, made, s, agents, open, replaced, ends, answer, host>>

\* The agent asks for a permission: RequestPermission enters its channel in
\* the interactions map and waits.
Ask(t) ==
    /\ prompt[t].pc = "atAgent" /\ ~answer[t].asked
    /\ s' = [s EXCEPT ![t[1]].waiting = @ \cup {t[2]}]
    /\ answer' = [answer EXCEPT ![t].asked = TRUE]
    /\ prompt' = [prompt EXCEPT ![t].pc = "asking"]
    /\ UNCHANGED <<registered, made, agents, open, replaced, ends, host>>

\* It is answered, cancelled, released by the closed session or timed out,
\* and removes its entry.
AskReturns(t, timeout) ==
    /\ prompt[t].pc = "asking"
    /\ answer[t].full \/ s[t[1]].done \/ timeout
    /\ s' = [s EXCEPT ![t[1]].waiting = @ \ {t[2]}]
    /\ prompt' = [prompt EXCEPT ![t].pc = "atAgent"]
    /\ UNCHANGED <<registered, made, agents, open, replaced, ends, answer, host>>

PromptReturns(t) ==
    /\ prompt[t].pc = "atAgent"
    /\ prompt' = [prompt EXCEPT ![t].pc = "returned"]
    /\ UNCHANGED <<registered, made, s, agents, open, replaced, ends, answer, host>>

\* Mutant: the end of the prompt ends the turn whoever holds it.
PromptFinish_Unchecked(t) ==
    /\ prompt[t].pc = "returned"
    /\ s' = [s EXCEPT ![t[1]].turnID = 0]
    /\ ends' = [ends EXCEPT ![t] = @ + 1]
    /\ prompt' = [prompt EXCEPT ![t].pc = "over"]
    /\ UNCHANGED <<registered, made, agents, open, replaced, answer, host>>

\* Mutant: a prompt that fails leaves its turn taken.
PromptFinish_LeavesTurn(t) ==
    /\ prompt[t].pc = "returned"
    /\ \/ s' = IF s[t[1]].turnID = t[2] THEN [s EXCEPT ![t[1]].turnID = 0] ELSE s
       \/ UNCHANGED s
    /\ prompt' = [prompt EXCEPT ![t].pc = "over"]
    /\ UNCHANGED <<registered, made, agents, open, replaced, ends, answer, host>>

\* The rest of runPrompt: nothing once the turn was cancelled; otherwise
\* finishTurn claims the turn and its terminal event is emitted.
PromptFinish(t) ==
    LET i == t[1]  mine == t[2] \notin s[i].cancelled /\ s[i].turnID = t[2]
    IN  /\ prompt[t].pc = "returned"
        /\ s' = IF mine THEN [s EXCEPT ![i].turnID = 0] ELSE s
        /\ ends' = IF mine THEN [ends EXCEPT ![t] = @ + 1] ELSE ends
        /\ prompt' = [prompt EXCEPT ![t].pc = "over"]
        /\ UNCHANGED <<registered, made, agents, open, replaced, answer, host>>

-----------------------------------------------------------------------------
\* cancelInteractions: every waiting channel is taken out of the map and
\* sent a cancel if it has room.
Cancelled(i) ==
    [t \in Turns |-> IF t[1] = i /\ t[2] \in s[i].waiting /\ ~answer[t].full
                     THEN [answer[t] EXCEPT !.full = TRUE]
                     ELSE answer[t]]

InterruptFind ==
    /\ interrupter.pc = "idle" /\ Found(registered)
    /\ interrupter' = At("take", registered, 0, 0)
    /\ UNCHANGED <<registered, made, s, agents, open, replaced, prompt, ends, answer, starter, sender, closer, restarter, responder>>

\* takeTurn.
InterruptTake ==
    LET i == interrupter.i
    IN  /\ interrupter.pc = "take" /\ s[i].ready # "no"
        /\ interrupter' = IF s[i].ready = "failed" \/ s[i].turnID = 0 THEN Idle
                          ELSE At("cancel", i, s[i].turnID, 0)
        /\ s' = [s EXCEPT ![i].turnID = 0]
        /\ UNCHANGED <<registered, made, agents, open, replaced, prompt, ends, answer, starter, sender, closer, restarter, responder>>

\* agent.Cancel, the turn's context, the waiting permission requests.
InterruptCancel ==
    LET i == interrupter.i
    IN  /\ interrupter.pc = "cancel"
        /\ s' = [s EXCEPT ![i] = [s[i] EXCEPT !.cancelled = s[i].cancelled \cup {interrupter.n},
                                             !.waiting = {}]]
        /\ answer' = Cancelled(i)
        /\ interrupter' = [interrupter EXCEPT !.pc = "emit"]
        /\ UNCHANGED <<registered, made, agents, open, replaced, prompt, ends, starter, sender, closer, restarter, responder>>

InterruptEmit ==
    /\ interrupter.pc = "emit"
    /\ ends' = [ends EXCEPT ![<<interrupter.i, interrupter.n>>] = @ + 1]
    /\ interrupter' = Idle
    /\ UNCHANGED <<registered, made, s, agents, open, replaced, prompt, answer, starter, sender, closer, restarter, responder>>

-----------------------------------------------------------------------------
\* RespondInteraction takes the channel out of the map, then sends.
RespondFind ==
    /\ responder.pc = "idle" /\ Found(registered) /\ s[registered].waiting # {}
    /\ responder' = At("claim", registered, 0, 0)
    /\ UNCHANGED <<registered, made, s, agents, open, replaced, prompt, ends, answer, starter, sender, interrupter, closer, restarter>>

\* Mutant: the entry stays in the map until the waiter removes it.
RespondClaim_KeepsEntry ==
    LET i == responder.i
    IN  /\ responder.pc = "claim" /\ s[i].ready # "no"
        /\ IF s[i].waiting = {} THEN responder' = Idle
           ELSE \E n \in s[i].waiting : responder' = At("send", i, n, 0)
        /\ UNCHANGED <<registered, made, s, agents, open, replaced, prompt, ends, answer, starter, sender, interrupter, closer, restarter>>

RespondClaim ==
    LET i == responder.i
    IN  /\ responder.pc = "claim" /\ s[i].ready # "no"
        /\ IF s[i].waiting = {} THEN responder' = Idle /\ UNCHANGED s
           ELSE \E n \in s[i].waiting :
                   /\ responder' = At("send", i, n, 0)
                   /\ s' = [s EXCEPT ![i].waiting = @ \ {n}]
        /\ UNCHANGED <<registered, made, agents, open, replaced, prompt, ends, answer, starter, sender, interrupter, closer, restarter>>

RespondSend ==
    LET t == <<responder.i, responder.n>>
    IN  /\ responder.pc = "send"
        /\ \/ ~answer[t].full /\ answer' = [answer EXCEPT ![t].full = TRUE]
           \/ s[t[1]].done /\ UNCHANGED answer
        /\ responder' = Idle
        /\ UNCHANGED <<registered, made, s, agents, open, replaced, prompt, ends, starter, sender, interrupter, closer, restarter>>

-----------------------------------------------------------------------------
\* CloseSession unregisters the session, waits until it is ready, stops it
\* and closes the agent current by then.
CloseUnregister ==
    /\ closer.pc = "idle" /\ registered # 0
    /\ closer' = At("ready", registered, 0, 0) /\ registered' = 0
    /\ UNCHANGED <<made, s, agents, open, replaced, prompt, ends, answer, starter, sender, interrupter, restarter, responder>>

\* Mutant: the waiting requests are forgotten and done is never closed.
CloseStop_NoDone ==
    LET i == closer.i
    IN  /\ closer.pc = "ready" /\ s[i].ready # "no"
        /\ s' = [s EXCEPT ![i].turnID = 0, ![i].waiting = {}]
        /\ closer' = [closer EXCEPT !.pc = "close"]
        /\ UNCHANGED <<registered, made, agents, open, replaced, prompt, ends, answer, starter, sender, interrupter, restarter, responder>>

\* stop(): once.
CloseStop ==
    LET i == closer.i
    IN  /\ closer.pc = "ready" /\ s[i].ready # "no"
        /\ IF s[i].done THEN UNCHANGED <<s, answer>>
           ELSE /\ s' = [s EXCEPT ![i] =
                           [s[i] EXCEPT !.done = TRUE, !.turnID = 0, !.waiting = {},
                                        !.cancelled = s[i].cancelled \cup ({s[i].turnID} \ {0})]]
                /\ answer' = Cancelled(i)
        /\ closer' = [closer EXCEPT !.pc = "close"]
        /\ UNCHANGED <<registered, made, agents, open, replaced, prompt, ends, starter, sender, interrupter, restarter, responder>>

CloseAgent ==
    /\ closer.pc = "close"
    /\ open' = open \ {s[closer.i].agent}
    /\ closer' = Idle
    /\ UNCHANGED <<registered, made, s, agents, replaced, prompt, ends, answer, starter, sender, interrupter, restarter, responder>>

-----------------------------------------------------------------------------
\* RestartSession: refuse during a turn, mark the session, make and resume a
\* new agent, and put it in place if the session is still the registered one.
RestartFind ==
    /\ restarter.pc = "idle" /\ Found(registered) /\ agents < MaxAgents
    /\ restarter' = At("begin", registered, 0, 0)
    /\ UNCHANGED <<registered, made, s, agents, open, replaced, prompt, ends, answer, starter, sender, interrupter, closer, responder>>

RestartBegin ==
    LET i == restarter.i
    IN  /\ restarter.pc = "begin" /\ s[i].ready # "no"
        /\ IF s[i].ready = "failed" \/ s[i].turnID # 0 \/ s[i].restarting \/ agents = MaxAgents
           THEN restarter' = Idle /\ UNCHANGED <<s, agents>>
           ELSE /\ s' = [s EXCEPT ![i].restarting = TRUE]
                /\ agents' = agents + 1
                /\ restarter' = At("resume", i, 0, agents + 1)
        /\ UNCHANGED <<registered, made, open, replaced, prompt, ends, answer, starter, sender, interrupter, closer, responder>>

\* ResumeSession at the new agent.
RestartResume(ok) ==
    /\ restarter.pc = "resume"
    /\ open' = IF ok THEN open \cup {restarter.a} ELSE open
    /\ restarter' = [restarter EXCEPT !.pc = IF ok THEN "replace" ELSE "finish"]
    /\ UNCHANGED <<registered, made, s, agents, replaced, prompt, ends, answer, starter, sender, interrupter, closer, responder>>

\* Mutant: the new agent is put in place without looking whether the session
\* was closed.
RestartReplace_Unchecked ==
    LET i == restarter.i
    IN  /\ restarter.pc = "replace"
        /\ s' = [s EXCEPT ![i].agent = restarter.a] /\ replaced' = replaced \cup {s[i].agent}
        /\ restarter' = [restarter EXCEPT !.pc = "finish"]
        /\ UNCHANGED <<registered, made, agents, open, prompt, ends, answer, starter, sender, interrupter, closer, responder>>

\* Under the adapter's mu, which CloseSession unregisters under.  Nothing
\* closes the agent that is replaced.
RestartReplace ==
    LET i == restarter.i
    IN  /\ restarter.pc = "replace"
        /\ IF registered = i
           THEN /\ s' = [s EXCEPT ![i].agent = restarter.a] /\ replaced' = replaced \cup {s[i].agent}
                /\ restarter' = [restarter EXCEPT !.pc = "finish"]
           ELSE restarter' = [restarter EXCEPT !.pc = "discard"] /\ UNCHANGED <<s, replaced>>
        /\ UNCHANGED <<registered, made, agents, open, prompt, ends, answer, starter, sender, interrupter, closer, responder>>

RestartDiscard ==
    /\ restarter.pc = "discard"
    /\ open' = open \ {restarter.a}
    /\ restarter' = [restarter EXCEPT !.pc = "finish"]
    /\ UNCHANGED <<registered, made, s, agents, replaced, prompt, ends, answer, starter, sender, interrupter, closer, responder>>

RestartFinish ==
    /\ restarter.pc = "finish"
    /\ s' = [s EXCEPT ![restarter.i].restarting = FALSE]
    /\ restarter' = Idle
    /\ UNCHANGED <<registered, made, agents, open, replaced, prompt, ends, answer, starter, sender, interrupter, closer, responder>>

-----------------------------------------------------------------------------
Start == StartRegister \/ \E ok \in BOOLEAN : StartOpened(ok)
Send == SendFind \/ SendTake \/ SendStarted
Interrupt == InterruptFind \/ InterruptTake \/ InterruptCancel \/ InterruptEmit
Respond == RespondFind \/ RespondClaim \/ RespondSend
Close == CloseUnregister \/ CloseStop \/ CloseAgent
Restart == RestartFind \/ RestartBegin \/ (\E ok \in BOOLEAN : RestartResume(ok))
           \/ RestartReplace \/ RestartDiscard \/ RestartFinish
Run(t) == \/ PromptSubmit(t) \/ Ask(t) \/ PromptReturns(t) \/ PromptFinish(t)
          \/ \E timeout \in BOOLEAN : AskReturns(t, timeout)

Next == Start \/ Send \/ Interrupt \/ Respond \/ Close \/ Restart \/ \E t \in Turns : Run(t)

\* Goroutines that have begun go on; the agent answers a prompt in the end.
\* Nothing makes the host call, and nothing makes the 5-minute timer fire.
Fairness ==
    /\ WF_vars(\E ok \in BOOLEAN : StartOpened(ok))
    /\ WF_vars(SendTake \/ SendStarted)
    /\ WF_vars(InterruptTake \/ InterruptCancel \/ InterruptEmit)
    /\ WF_vars(RespondClaim \/ RespondSend)
    /\ WF_vars(CloseStop \/ CloseAgent)
    /\ \A t \in Turns : WF_vars(PromptSubmit(t) \/ PromptReturns(t) \/ PromptFinish(t) \/ AskReturns(t, FALSE))

Spec == Init /\ [][Next]_vars /\ Fairness

-----------------------------------------------------------------------------
(* Properties *)

\* A turn ends at most once: the prompt's own end, an Interrupt and a
\* CloseSession may all come together, and only the one that took turnID may
\* emit; CloseSession emits nothing.
OneEnd == \A t \in Turns : ends[t] <= 1

\* No restart happens under a running turn: the prompt of the active turn is
\* at the session's current agent.  The turn and the restart exclude each
\* other through turnID and restarting, checked by both under turnMu.
PromptAtCurrentAgent ==
    \A i \in Sessions : LET t == <<i, s[i].turnID>> IN
        (s[i].turnID # 0 /\ prompt[t].pc \in {"atAgent", "asking"}) => prompt[t].agent = s[i].agent

\* RespondInteraction never blocks: the channel it is about to send on has
\* room, because the answer, the Interrupt's cancel and the CloseSession's
\* each take the entry out of the map before they send.
ResponderHasRoom ==
    responder.pc = "send" =>
        ~answer[<<responder.i, responder.n>>].full \/ s[responder.i].done

\* Every agent that is open can still be closed: it is the current agent of a
\* session that CloseSession has not finished with, or in the hands of a
\* restart, which hands it over before CloseSession looks or closes it itself.
\* The agents that a restart replaced are the exception: the adapter forgets
\* them, and they stay open when their session is closed.
Closed(i) == registered # i /\ starter.i # i /\ closer.i # i
OpenAgentsAreHeld ==
    \A a \in open \ replaced :
        \/ \E i \in 1..made : s[i].agent = a /\ ~Closed(i)
        \/ restarter.a = a /\ restarter.pc \in {"replace", "discard"}

\* A restart, which replaces the agent under a lock that neither prompts nor
\* CloseSession hold, leaves no turn at an agent that was replaced, and its
\* race with CloseSession leaves no agent open that nobody will close, but
\* for the one it replaced.
RestartIsClean == PromptAtCurrentAgent /\ OpenAgentsAreHeld

Asking(i) == {n \in 1..MaxTurns : prompt[<<i, n>>].pc = "asking"}

\* Closing a session releases the permission requests that wait in it, also
\* the ones that begin to wait after it was stopped.
CloseReleases ==
    \A i \in Sessions : (i <= made /\ Closed(i) /\ Asking(i) # {}) ~> (Asking(i) = {})

\* A turn that was taken is given back: the prompt ends it, or an Interrupt
\* or a CloseSession took it before.  While a permission is asked for, that
\* is up to the host.
TurnsEnd ==
    \A i \in Sessions : (s[i].turnID # 0) ~>
        (s[i].turnID = 0 \/ prompt[<<i, s[i].turnID>>].pc = "asking")

=============================================================================
