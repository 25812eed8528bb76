-------------------------- MODULE AntigravityProofs --------------------------
(***************************************************************************)
(* What the antigravity adapter promises of its turns, its permission      *)
(* requests and its agents, for any number of sessions, turns and agents.  *)
(***************************************************************************)
EXTENDS Antigravity, TLAPS

Started == 1..made

\* A goroutine that is at work is at work on a session that was made.
Placed(g) == IF g.pc = "idle" THEN g.i = 0 ELSE g.i \in Started

Places ==
    /\ registered \in 0..made
    /\ Placed(starter) /\ Placed(sender) /\ Placed(interrupter)
    /\ Placed(closer) /\ Placed(restarter) /\ Placed(responder)
    /\ sender.pc = "started" => sender.n \in 1..s[sender.i].turn
    /\ interrupter.pc \in {"cancel", "emit"} => interrupter.n \in 1..s[interrupter.i].turn
    /\ responder.pc = "send" => responder.n \in 1..MaxTurns

\* The turn that Interrupt took and has not reported yet.
Taken(i, n) ==
    interrupter.pc \in {"cancel", "emit"} /\ interrupter.i = i /\ interrupter.n = n

\* A turn is active, taken by an Interrupt, or over, one after the other.
TurnsOnce ==
    \A i \in Sessions :
        /\ s[i].turnID <= s[i].turn
        /\ i > made => s[i].turn = 0
        /\ \A n \in 1..MaxTurns :
              /\ ends[<<i, n>>] <= 1
              /\ n > s[i].turn => ends[<<i, n>>] = 0 /\ prompt[<<i, n>>].pc = "none"
              /\ s[i].turnID = n => ends[<<i, n>>] = 0
              /\ Taken(i, n) => ends[<<i, n>>] = 0 /\ s[i].turnID # n

\* A permission channel that is in the map, or that RespondInteraction took
\* out of it, has room for an answer.
Channels ==
    /\ \A i \in Sessions : \A n \in 1..MaxTurns :
          /\ n \in s[i].waiting => answer[<<i, n>>].asked /\ ~answer[<<i, n>>].full
          /\ ~answer[<<i, n>>].asked => ~answer[<<i, n>>].full
    /\ responder.pc = "send" =>
          LET t == <<responder.i, responder.n>> IN
          /\ answer[t].asked /\ ~answer[t].full
          /\ responder.n \notin s[responder.i].waiting

\* RestartSession has marked the session.
Marked == restarter.pc \in {"resume", "replace", "discard", "finish"}

\* A session that is being restarted has no turn.
Restarts ==
    /\ \A i \in Sessions : s[i].restarting => s[i].turnID = 0
    /\ Marked => s[restarter.i].restarting /\ s[restarter.i].ready # "no"

\* Every agent belongs to one session, or to the restart that made it.
Owned ==
    /\ \A i \in Started : s[i].agent \in 1..agents
    /\ \A i, j \in Started : s[i].agent = s[j].agent => i = j
    /\ open \subseteq 1..agents
    /\ restarter.pc \in {"resume", "replace", "discard"} =>
          /\ restarter.a \in 1..agents
          /\ \A i \in Started : s[i].agent # restarter.a

\* StartSession opens the agent of a session that nobody else gets past yet.
Opening ==
    /\ \A i \in Sessions : i > made => s[i].ready = "no"
    /\ starter.pc = "open" =>
          /\ s[starter.i].ready = "no" /\ s[starter.i].agent = starter.a
          /\ starter.a \notin open
          /\ registered = starter.i \/ (closer.pc = "ready" /\ closer.i = starter.i)

Inv ==
    /\ TypeOK /\ Places /\ TurnsOnce /\ Channels /\ Restarts /\ Owned
    /\ Opening /\ OpenAgentsAreHeld /\ PromptAtCurrentAgent

-----------------------------------------------------------------------------
(* Types.                                                                  *)

\* The turns of a session.
LEMMA TurnPairs ==
    /\ \A i \in Sessions, n \in 1..MaxTurns : <<i, n>> \in Turns
    /\ \A t \in Turns : /\ t[1] \in Sessions /\ t[2] \in 1..MaxTurns
                        /\ t = <<t[1], t[2]>>
  BY DEF Turns

\* cancelInteractions fills channels and does nothing else.
LEMMA CancelledTyped ==
    ASSUME TypeOK, NEW i \in Sessions
    PROVE  /\ Cancelled(i) \in [Turns -> [full : BOOLEAN, asked : BOOLEAN]]
           /\ \A t \in Turns : Cancelled(i)[t].asked = answer[t].asked
           /\ \A t \in Turns :
                 t[1] # i \/ t[2] \notin s[i].waiting => Cancelled(i)[t] = answer[t]
  BY DEF TypeOK, Cancelled

\* The goroutines that are at work name a session.
LEMMA AtWork ==
    ASSUME TypeOK, Places
    PROVE  /\ Started \subseteq Sessions
           /\ registered # 0 => registered \in Started
           /\ starter.pc # "idle" => starter.i \in Started
           /\ sender.pc # "idle" => sender.i \in Started
           /\ interrupter.pc # "idle" => interrupter.i \in Started
           /\ closer.pc # "idle" => closer.i \in Started
           /\ restarter.pc # "idle" => restarter.i \in Started
           /\ responder.pc # "idle" => responder.i \in Started
  BY AntigravityAssumption DEF TypeOK, Places, Placed, Started, Sessions

-----------------------------------------------------------------------------
(* What a step does to a session.                                          *)

SameTurn(q, r) == q.turn = r.turn /\ q.turnID = r.turnID
SameRest(q, r) == q.ready = r.ready /\ q.restarting = r.restarting /\ q.agent = r.agent

\* A step that updates one session.
OnlyAt(i) == /\ s' \in [Sessions -> SessionStates]
             /\ \A j \in Sessions : j # i => s'[j] = s[j]

\* The updates of one field.
LEMMA AgentSet ==
    ASSUME TypeOK, NEW i \in Sessions, NEW x \in 0..MaxAgents,
           s' = [s EXCEPT ![i].agent = x]
    PROVE  /\ OnlyAt(i) /\ s'[i].agent = x /\ SameTurn(s'[i], s[i])
           /\ s'[i].waiting = s[i].waiting /\ s'[i].ready = s[i].ready
           /\ s'[i].restarting = s[i].restarting
  BY ZenonT(60) DEF TypeOK, OnlyAt, SessionStates, SameTurn

\* The mark that RestartSession sets and clears.
LEMMA MarkSet ==
    ASSUME TypeOK, NEW i \in Sessions, NEW x \in BOOLEAN,
           s' = [s EXCEPT ![i].restarting = x]
    PROVE  /\ OnlyAt(i) /\ s'[i].restarting = x /\ SameTurn(s'[i], s[i])
           /\ s'[i].waiting = s[i].waiting /\ s'[i].ready = s[i].ready
           /\ s'[i].agent = s[i].agent
  BY ZenonT(60) DEF TypeOK, OnlyAt, SessionStates, SameTurn

\* The ready channel.
LEMMA ReadySet ==
    ASSUME TypeOK, NEW i \in Sessions, s' = [s EXCEPT ![i].ready = "ok"]
    PROVE  /\ OnlyAt(i) /\ s'[i].ready = "ok" /\ SameTurn(s'[i], s[i])
           /\ s'[i].waiting = s[i].waiting /\ s'[i].agent = s[i].agent
           /\ s'[i].restarting = s[i].restarting
  BY ZenonT(60) DEF TypeOK, OnlyAt, SessionStates, SameTurn

\* The turn that is given up.
LEMMA TurnIDSet ==
    ASSUME TypeOK, NEW i \in Sessions, NEW x \in 0..MaxTurns, s' = [s EXCEPT ![i].turnID = x]
    PROVE  /\ OnlyAt(i) /\ s'[i].turn = s[i].turn /\ s'[i].turnID = x
           /\ s'[i].waiting = s[i].waiting /\ SameRest(s'[i], s[i])
  BY SMTT(60) DEF TypeOK, OnlyAt, SessionStates, SameRest

LEMMA TurnCleared ==
    ASSUME TypeOK, NEW i \in Sessions, s' = [s EXCEPT ![i].turnID = 0]
    PROVE  /\ OnlyAt(i) /\ s'[i].turn = s[i].turn /\ s'[i].turnID = 0
           /\ s'[i].waiting = s[i].waiting /\ SameRest(s'[i], s[i])
  <1>1. 0 \in 0..MaxTurns
    BY AntigravityAssumption
  <1> QED
    BY <1>1, TurnIDSet

\* The interactions map.
LEMMA WaitingSet ==
    ASSUME TypeOK, NEW i \in Sessions, NEW x \in SUBSET (1..MaxTurns),
           s' = [s EXCEPT ![i].waiting = x]
    PROVE  /\ OnlyAt(i) /\ SameTurn(s'[i], s[i]) /\ SameRest(s'[i], s[i])
           /\ s'[i].waiting = x
  BY ZenonT(60) DEF TypeOK, OnlyAt, SessionStates, SameTurn, SameRest

\* SendTake's update.
LEMMA TurnSet ==
    ASSUME TypeOK, NEW i \in Sessions, NEW x \in 0..MaxTurns,
           s' = [s EXCEPT ![i] = [s[i] EXCEPT !.turn = x, !.turnID = x]]
    PROVE  /\ OnlyAt(i) /\ s'[i].turn = x /\ s'[i].turnID = x
           /\ s'[i].waiting = s[i].waiting /\ SameRest(s'[i], s[i])
  BY ZenonT(60) DEF TypeOK, OnlyAt, SessionStates, SameRest

\* finishStart's, when the start failed.
LEMMA FailSet ==
    ASSUME TypeOK, NEW i \in Sessions,
           s' = [s EXCEPT ![i] = [s[i] EXCEPT !.ready = "failed", !.done = TRUE]]
    PROVE  /\ OnlyAt(i) /\ s'[i].ready = "failed" /\ SameTurn(s'[i], s[i])
           /\ s'[i].waiting = s[i].waiting /\ s'[i].agent = s[i].agent
           /\ s'[i].restarting = s[i].restarting
  BY ZenonT(60) DEF TypeOK, OnlyAt, SessionStates, SameTurn

\* Interrupt's, when it cancels the turn.
LEMMA CancelSet ==
    ASSUME TypeOK, NEW i \in Sessions, NEW x \in SUBSET (1..MaxTurns),
           s' = [s EXCEPT ![i] = [s[i] EXCEPT !.cancelled = x, !.waiting = {}]]
    PROVE  /\ OnlyAt(i) /\ SameTurn(s'[i], s[i]) /\ SameRest(s'[i], s[i])
           /\ s'[i].waiting = {}
  <1>1. s \in [Sessions -> SessionStates] /\ s[i] \in SessionStates
    BY DEF TypeOK
  <1>2. ASSUME NEW r \in SessionStates, NEW w \in SUBSET (1..MaxTurns), NEW q,
               q = [r EXCEPT !.cancelled = x, !.waiting = w]
        PROVE  /\ q \in SessionStates /\ SameTurn(q, r) /\ SameRest(q, r)
               /\ q.waiting = w
    BY <1>2 DEF SessionStates, SameRest, SameTurn
  <1>3. s'[i] = [s[i] EXCEPT !.cancelled = x, !.waiting = {}]
    BY <1>1
  <1>4. /\ s'[i] \in SessionStates /\ SameTurn(s'[i], s[i])
        /\ SameRest(s'[i], s[i]) /\ s'[i].waiting = {}
    BY <1>1, <1>2, <1>3
  <1>5. OnlyAt(i)
    BY <1>1, <1>3, <1>4 DEF OnlyAt
  <1> QED
    BY <1>4, <1>5

\* stop()'s.
LEMMA StopSet ==
    ASSUME TypeOK, NEW i \in Sessions, NEW x \in SUBSET (1..MaxTurns),
           s' = [s EXCEPT ![i] = [s[i] EXCEPT !.done = TRUE, !.turnID = 0,
                                              !.waiting = {}, !.cancelled = x]]
    PROVE  /\ OnlyAt(i) /\ s'[i].turn = s[i].turn /\ s'[i].turnID = 0
           /\ s'[i].waiting = {} /\ SameRest(s'[i], s[i])
  <1>1. s \in [Sessions -> SessionStates] /\ s[i] \in SessionStates
    BY DEF TypeOK
  <1>2. 0 \in 0..MaxTurns /\ {} \in SUBSET (1..MaxTurns) /\ TRUE \in BOOLEAN
    BY AntigravityAssumption
  <1>3. ASSUME NEW r \in SessionStates, NEW n \in 0..MaxTurns,
               NEW w \in SUBSET (1..MaxTurns), NEW d \in BOOLEAN, NEW q,
               q = [r EXCEPT !.done = d, !.turnID = n, !.waiting = w, !.cancelled = x]
        PROVE  /\ q \in SessionStates /\ q.turn = r.turn /\ q.turnID = n
               /\ q.waiting = w /\ SameRest(q, r)
    BY <1>3 DEF SessionStates, SameRest
  <1>4. s'[i] = [s[i] EXCEPT !.done = TRUE, !.turnID = 0, !.waiting = {}, !.cancelled = x]
    BY <1>1
  <1>5. /\ s'[i] \in SessionStates /\ s'[i].turn = s[i].turn /\ s'[i].turnID = 0
        /\ s'[i].waiting = {} /\ SameRest(s'[i], s[i])
    BY <1>1, <1>2, <1>3, <1>4
  <1>6. OnlyAt(i)
    BY <1>1, <1>4, <1>5 DEF OnlyAt
  <1> QED
    BY <1>5, <1>6

-----------------------------------------------------------------------------
(* What each step that changes a session does to it.                       *)

\* StartSession.
LEMMA StartSteps ==
    ASSUME TypeOK, Places
    PROVE  /\ StartRegister =>
                LET i == made + 1 IN
                /\ i \in Sessions /\ OnlyAt(i) /\ s'[i].agent = agents + 1
                /\ SameTurn(s'[i], s[i]) /\ s'[i].waiting = s[i].waiting
                /\ s'[i].ready = s[i].ready /\ s'[i].restarting = s[i].restarting
           /\ \A ok \in BOOLEAN : StartOpened(ok) =>
                LET i == starter.i IN
                /\ i \in Sessions /\ OnlyAt(i) /\ s'[i].ready # "no"
                /\ SameTurn(s'[i], s[i]) /\ s'[i].waiting = s[i].waiting
                /\ s'[i].agent = s[i].agent /\ s'[i].restarting = s[i].restarting
  <1>1. ASSUME StartRegister
        PROVE  LET i == made + 1 IN
               /\ i \in Sessions /\ OnlyAt(i) /\ s'[i].agent = agents + 1
               /\ SameTurn(s'[i], s[i]) /\ s'[i].waiting = s[i].waiting
               /\ s'[i].ready = s[i].ready /\ s'[i].restarting = s[i].restarting
    <2>1. made + 1 \in Sessions /\ agents + 1 \in 0..MaxAgents
      BY <1>1, AntigravityAssumption DEF StartRegister, TypeOK, Sessions
    <2> QED
      BY <1>1, <2>1, AgentSet DEF StartRegister
  <1>2. ASSUME NEW ok \in BOOLEAN, StartOpened(ok)
        PROVE  LET i == starter.i IN
               /\ i \in Sessions /\ OnlyAt(i) /\ s'[i].ready # "no"
               /\ SameTurn(s'[i], s[i]) /\ s'[i].waiting = s[i].waiting
               /\ s'[i].agent = s[i].agent /\ s'[i].restarting = s[i].restarting
    <2>1. starter.i \in Sessions
      BY <1>2, AtWork DEF StartOpened
    <2>2. CASE ok
      BY <1>2, <2>1, <2>2, ReadySet DEF StartOpened
    <2>3. CASE ~ok
      BY <1>2, <2>1, <2>3, FailSet DEF StartOpened
    <2> QED
      BY <2>2, <2>3
  <1> QED
    BY <1>1, <1>2

\* The steps that take a turn or give it back.
LEMMA TurnSteps ==
    ASSUME TypeOK, Places
    PROVE  /\ SendTake =>
                LET i == sender.i IN
                /\ i \in Sessions
                /\ \/ s' = s /\ sender' = Idle
                   \/ /\ s[i].turnID = 0 /\ ~s[i].restarting /\ s[i].turn + 1 \in 1..MaxTurns
                      /\ sender' = At("started", i, s[i].turn + 1, 0)
                      /\ OnlyAt(i) /\ SameRest(s'[i], s[i]) /\ s'[i].waiting = s[i].waiting
                      /\ s'[i].turn = s[i].turn + 1 /\ s'[i].turnID = s[i].turn + 1
           /\ \A t \in Turns : PromptFinish(t) =>
                \/ s' = s /\ ends' = ends
                \/ /\ s[t[1]].turnID = t[2] /\ ends' = [ends EXCEPT ![t] = @ + 1]
                   /\ OnlyAt(t[1]) /\ s'[t[1]].turn = s[t[1]].turn /\ s'[t[1]].turnID = 0
                   /\ s'[t[1]].waiting = s[t[1]].waiting /\ SameRest(s'[t[1]], s[t[1]])
           /\ InterruptTake =>
                LET i == interrupter.i IN
                /\ i \in Sessions
                /\ OnlyAt(i) /\ s'[i].turn = s[i].turn /\ s'[i].turnID = 0
                /\ s'[i].waiting = s[i].waiting /\ SameRest(s'[i], s[i])
  <1>1. ASSUME SendTake
        PROVE  LET i == sender.i IN
               /\ i \in Sessions
               /\ \/ s' = s /\ sender' = Idle
                  \/ /\ s[i].turnID = 0 /\ ~s[i].restarting /\ s[i].turn + 1 \in 1..MaxTurns
                     /\ sender' = At("started", i, s[i].turn + 1, 0)
                     /\ OnlyAt(i) /\ SameRest(s'[i], s[i]) /\ s'[i].waiting = s[i].waiting
                     /\ s'[i].turn = s[i].turn + 1 /\ s'[i].turnID = s[i].turn + 1
    <2>1. sender.i \in Sessions
      BY <1>1, AtWork DEF SendTake
    <2>2. s[sender.i] \in SessionStates
      BY <2>1 DEF TypeOK
    <2>3. s[sender.i].turn \in 0..MaxTurns
      BY <2>2 DEF SessionStates
    <2>4. CASE s[sender.i].ready = "failed" \/ s[sender.i].turnID # 0
               \/ s[sender.i].restarting \/ s[sender.i].turn = MaxTurns
      BY <1>1, <2>1, <2>4 DEF SendTake
    <2>5. CASE ~(s[sender.i].ready = "failed" \/ s[sender.i].turnID # 0
                 \/ s[sender.i].restarting \/ s[sender.i].turn = MaxTurns)
      <3>1. s[sender.i].turn + 1 \in 1..MaxTurns /\ s[sender.i].turn + 1 \in 0..MaxTurns
        BY <2>3, <2>5, AntigravityAssumption
      <3>2. /\ s' = [s EXCEPT ![sender.i] =
                       [s[sender.i] EXCEPT !.turn = s[sender.i].turn + 1,
                                           !.turnID = s[sender.i].turn + 1]]
            /\ sender' = At("started", sender.i, s[sender.i].turn + 1, 0)
        BY <1>1, <2>5 DEF SendTake
      <3> QED
        BY <2>1, <2>5, <3>1, <3>2, TurnSet
    <2> QED
      BY <2>4, <2>5
  <1>2. ASSUME NEW t \in Turns, PromptFinish(t)
        PROVE  \/ s' = s /\ ends' = ends
               \/ /\ s[t[1]].turnID = t[2] /\ ends' = [ends EXCEPT ![t] = @ + 1]
                  /\ OnlyAt(t[1]) /\ s'[t[1]].turn = s[t[1]].turn /\ s'[t[1]].turnID = 0
                  /\ s'[t[1]].waiting = s[t[1]].waiting /\ SameRest(s'[t[1]], s[t[1]])
    BY <1>2, TurnPairs, TurnCleared DEF PromptFinish
  <1>3. ASSUME InterruptTake
        PROVE  LET i == interrupter.i IN
               /\ i \in Sessions
               /\ OnlyAt(i) /\ s'[i].turn = s[i].turn /\ s'[i].turnID = 0
               /\ s'[i].waiting = s[i].waiting /\ SameRest(s'[i], s[i])
    BY <1>3, AtWork, TurnCleared DEF InterruptTake
  <1> QED
    BY <1>1, <1>2, <1>3

\* The steps that open, claim or close a permission channel.
LEMMA ChannelSteps ==
    ASSUME TypeOK, Places
    PROVE  /\ \A t \in Turns : Ask(t) =>
                /\ OnlyAt(t[1]) /\ SameTurn(s'[t[1]], s[t[1]]) /\ SameRest(s'[t[1]], s[t[1]])
                /\ s'[t[1]].waiting = s[t[1]].waiting \cup {t[2]}
           /\ \A t \in Turns, timeout \in BOOLEAN : AskReturns(t, timeout) =>
                /\ OnlyAt(t[1]) /\ SameTurn(s'[t[1]], s[t[1]]) /\ SameRest(s'[t[1]], s[t[1]])
                /\ s'[t[1]].waiting = s[t[1]].waiting \ {t[2]}
           /\ RespondClaim =>
                LET i == responder.i IN
                /\ i \in Sessions
                /\ \/ s' = s /\ responder' = Idle
                   \/ \E n \in s[i].waiting :
                         /\ n \in 1..MaxTurns /\ responder' = At("send", i, n, 0)
                         /\ OnlyAt(i) /\ SameTurn(s'[i], s[i]) /\ SameRest(s'[i], s[i])
                         /\ s'[i].waiting = s[i].waiting \ {n}
           /\ InterruptCancel =>
                LET i == interrupter.i IN
                /\ i \in Sessions
                /\ OnlyAt(i) /\ SameTurn(s'[i], s[i]) /\ SameRest(s'[i], s[i])
                /\ s'[i].waiting = {}
           /\ CloseStop =>
                LET i == closer.i IN
                /\ i \in Sessions
                /\ \/ s' = s /\ answer' = answer
                   \/ /\ OnlyAt(i) /\ s'[i].turn = s[i].turn /\ s'[i].turnID = 0
                      /\ s'[i].waiting = {} /\ SameRest(s'[i], s[i])
                      /\ answer' = Cancelled(i)
  <1>0. \A i \in Sessions : /\ s[i] \in SessionStates /\ s[i].waiting \in SUBSET (1..MaxTurns)
                            /\ s[i].cancelled \in SUBSET (1..MaxTurns)
                            /\ s[i].turnID \in 0..MaxTurns /\ s[i].turn \in 0..MaxTurns
    BY DEF TypeOK, SessionStates
  <1>1. ASSUME NEW t \in Turns, Ask(t)
        PROVE  /\ OnlyAt(t[1]) /\ SameTurn(s'[t[1]], s[t[1]]) /\ SameRest(s'[t[1]], s[t[1]])
               /\ s'[t[1]].waiting = s[t[1]].waiting \cup {t[2]}
    <2>1. t[1] \in Sessions /\ s[t[1]].waiting \cup {t[2]} \in SUBSET (1..MaxTurns)
      BY <1>0, TurnPairs
    <2> QED
      BY <1>1, <2>1, WaitingSet, ZenonT(60) DEF Ask
  <1>2. ASSUME NEW t \in Turns, NEW timeout \in BOOLEAN, AskReturns(t, timeout)
        PROVE  /\ OnlyAt(t[1]) /\ SameTurn(s'[t[1]], s[t[1]]) /\ SameRest(s'[t[1]], s[t[1]])
               /\ s'[t[1]].waiting = s[t[1]].waiting \ {t[2]}
    <2>1. t[1] \in Sessions /\ s[t[1]].waiting \ {t[2]} \in SUBSET (1..MaxTurns)
      BY <1>0, TurnPairs
    <2> QED
      BY <1>2, <2>1, WaitingSet DEF AskReturns
  <1>3. ASSUME RespondClaim
        PROVE  LET i == responder.i IN
               /\ i \in Sessions
               /\ \/ s' = s /\ responder' = Idle
                  \/ \E n \in s[i].waiting :
                        /\ n \in 1..MaxTurns /\ responder' = At("send", i, n, 0)
                        /\ OnlyAt(i) /\ SameTurn(s'[i], s[i]) /\ SameRest(s'[i], s[i])
                        /\ s'[i].waiting = s[i].waiting \ {n}
    <2>1. responder.i \in Sessions
      BY <1>3, AtWork DEF RespondClaim
    <2>2. ASSUME NEW n \in s[responder.i].waiting,
                 responder' = At("send", responder.i, n, 0),
                 s' = [s EXCEPT ![responder.i].waiting = @ \ {n}]
          PROVE  /\ n \in 1..MaxTurns /\ OnlyAt(responder.i)
                 /\ SameTurn(s'[responder.i], s[responder.i])
                 /\ SameRest(s'[responder.i], s[responder.i])
                 /\ s'[responder.i].waiting = s[responder.i].waiting \ {n}
      <3>1. n \in 1..MaxTurns /\ s[responder.i].waiting \ {n} \in SUBSET (1..MaxTurns)
        BY <1>0, <2>1
      <3> DEFINE i == responder.i
                 x == s[i].waiting \ {n}
      <3>2. i \in Sessions /\ x \in SUBSET (1..MaxTurns) /\ s' = [s EXCEPT ![i].waiting = x]
        BY <2>1, <2>2, <3>1
      <3> HIDE DEF x, i
      <3>3. /\ OnlyAt(i) /\ SameTurn(s'[i], s[i]) /\ SameRest(s'[i], s[i])
            /\ s'[i].waiting = x
        BY <3>2, WaitingSet
      <3> QED
        BY <3>1, <3>3 DEF i, x
    <2>3. \/ s' = s /\ responder' = Idle
          \/ \E n \in s[responder.i].waiting :
                /\ responder' = At("send", responder.i, n, 0)
                /\ s' = [s EXCEPT ![responder.i].waiting = @ \ {n}]
      BY <1>3 DEF RespondClaim
    <2> QED
      BY <2>1, <2>2, <2>3
  <1>4. ASSUME InterruptCancel
        PROVE  LET i == interrupter.i IN
               /\ i \in Sessions
               /\ OnlyAt(i) /\ SameTurn(s'[i], s[i]) /\ SameRest(s'[i], s[i])
               /\ s'[i].waiting = {}
    <2>1. interrupter.i \in Sessions /\ interrupter.n \in 1..s[interrupter.i].turn
      BY <1>4, AtWork DEF InterruptCancel, Places
    <2>2. s[interrupter.i].cancelled \cup {interrupter.n} \in SUBSET (1..MaxTurns)
      BY <1>0, <2>1, AntigravityAssumption
    <2> QED
      BY <1>4, <2>1, <2>2, CancelSet DEF InterruptCancel
  <1>5. ASSUME CloseStop
        PROVE  LET i == closer.i IN
               /\ i \in Sessions
               /\ \/ s' = s /\ answer' = answer
                  \/ /\ OnlyAt(i) /\ s'[i].turn = s[i].turn /\ s'[i].turnID = 0
                     /\ s'[i].waiting = {} /\ SameRest(s'[i], s[i])
                     /\ answer' = Cancelled(i)
    <2>1. closer.i \in Sessions
      BY <1>5, AtWork DEF CloseStop
    <2>2. s[closer.i].cancelled \cup ({s[closer.i].turnID} \ {0}) \in SUBSET (1..MaxTurns)
      BY <1>0, <2>1, AntigravityAssumption
    <2> QED
      BY <1>5, <2>1, <2>2, StopSet, ZenonT(60) DEF CloseStop
  <1> QED
    BY <1>1, <1>2, <1>3, <1>4, <1>5

\* RestartSession.
LEMMA RestartSteps ==
    ASSUME TypeOK, Places
    PROVE  /\ RestartBegin =>
                LET i == restarter.i IN
                /\ i \in Sessions
                /\ \/ s' = s /\ agents' = agents /\ restarter' = Idle
                   \/ /\ s[i].turnID = 0 /\ agents + 1 \in 0..MaxAgents /\ s[i].ready # "no"
                      /\ agents' = agents + 1 /\ restarter' = At("resume", i, 0, agents + 1)
                      /\ OnlyAt(i) /\ s'[i].restarting /\ SameTurn(s'[i], s[i])
                      /\ s'[i].waiting = s[i].waiting /\ s'[i].ready = s[i].ready
                      /\ s'[i].agent = s[i].agent
           /\ RestartReplace =>
                LET i == restarter.i IN
                /\ i \in Sessions
                /\ \/ s' = s /\ restarter' = [restarter EXCEPT !.pc = "discard"]
                   \/ /\ registered = i /\ restarter' = [restarter EXCEPT !.pc = "finish"]
                      /\ OnlyAt(i) /\ s'[i].agent = restarter.a /\ SameTurn(s'[i], s[i])
                      /\ s'[i].waiting = s[i].waiting /\ s'[i].ready = s[i].ready
                      /\ s'[i].restarting = s[i].restarting
           /\ RestartFinish =>
                LET i == restarter.i IN
                /\ i \in Sessions
                /\ OnlyAt(i) /\ ~s'[i].restarting /\ SameTurn(s'[i], s[i])
                /\ s'[i].waiting = s[i].waiting /\ s'[i].ready = s[i].ready
                /\ s'[i].agent = s[i].agent
  <1>1. ASSUME RestartBegin
        PROVE  LET i == restarter.i IN
               /\ i \in Sessions
               /\ \/ s' = s /\ agents' = agents /\ restarter' = Idle
                  \/ /\ s[i].turnID = 0 /\ agents + 1 \in 0..MaxAgents /\ s[i].ready # "no"
                     /\ agents' = agents + 1 /\ restarter' = At("resume", i, 0, agents + 1)
                     /\ OnlyAt(i) /\ s'[i].restarting /\ SameTurn(s'[i], s[i])
                     /\ s'[i].waiting = s[i].waiting /\ s'[i].ready = s[i].ready
                     /\ s'[i].agent = s[i].agent
    <2>1. restarter.i \in Sessions
      BY <1>1, AtWork DEF RestartBegin
    <2>2. agents # MaxAgents => agents + 1 \in 0..MaxAgents
      BY AntigravityAssumption DEF TypeOK
    <2> QED
      BY <1>1, <2>1, <2>2, MarkSet DEF RestartBegin
  <1>2. ASSUME RestartReplace
        PROVE  LET i == restarter.i IN
               /\ i \in Sessions
               /\ \/ s' = s /\ restarter' = [restarter EXCEPT !.pc = "discard"]
                  \/ /\ registered = i /\ restarter' = [restarter EXCEPT !.pc = "finish"]
                     /\ OnlyAt(i) /\ s'[i].agent = restarter.a /\ SameTurn(s'[i], s[i])
                     /\ s'[i].waiting = s[i].waiting /\ s'[i].ready = s[i].ready
                     /\ s'[i].restarting = s[i].restarting
    <2>1. restarter.i \in Sessions /\ restarter.a \in 0..MaxAgents
      BY <1>2, AtWork DEF RestartReplace, TypeOK, Goroutines
    <2> QED
      BY <1>2, <2>1, AgentSet DEF RestartReplace
  <1>3. ASSUME RestartFinish
        PROVE  LET i == restarter.i IN
               /\ i \in Sessions
               /\ OnlyAt(i) /\ ~s'[i].restarting /\ SameTurn(s'[i], s[i])
               /\ s'[i].waiting = s[i].waiting /\ s'[i].ready = s[i].ready
               /\ s'[i].agent = s[i].agent
    <2>1. restarter.i \in Sessions
      BY <1>3, AtWork DEF RestartFinish
    <2> QED
      BY <1>3, <2>1, MarkSet DEF RestartFinish
  <1> QED
    BY <1>1, <1>2, <1>3

-----------------------------------------------------------------------------
(* Types and places.                                                       *)

\* Where a goroutine goes.
LEMMA AtTyped ==
    ASSUME NEW P, NEW pc \in P, NEW i \in Sessions, NEW n \in 0..MaxTurns,
           NEW a \in 0..MaxAgents
    PROVE  At(pc, i, n, a) \in Goroutines(P)
  BY AntigravityAssumption DEF At, Goroutines, Sessions

\* Every step keeps the types.
LEMMA TypeNext ==
    ASSUME TypeOK, Places, TurnsOnce, Owned, Opening, Next
    PROVE  TypeOK'
  <1> USE AntigravityAssumption
  <1>0. \A P : Idle \in Goroutines(P)
    BY DEF Idle, At, Goroutines
  <1>a. /\ registered \in 0..MaxSessions
        /\ \A i \in Sessions : s[i] \in SessionStates
        /\ \A i \in Sessions : s[i].agent \in 0..MaxAgents
    BY DEF TypeOK, SessionStates
  <1>b. 0 \in 0..MaxTurns /\ 0 \in 0..MaxAgents /\ agents \in 0..MaxAgents
    BY DEF TypeOK
  <1>1. CASE StartRegister
    <2>1. s' \in [Sessions -> SessionStates]
      BY <1>1, StartSteps DEF OnlyAt
    <2> QED
      BY <1>1, <2>1 DEF StartRegister, TypeOK, Goroutines, At
  <1>2. ASSUME NEW ok \in BOOLEAN, StartOpened(ok) PROVE TypeOK'
    <2>1. s' \in [Sessions -> SessionStates]
      BY <1>2, StartSteps DEF OnlyAt
    <2>2. starter.a \in Agents \/ ~ok
      BY <1>2, <1>b, AtWork DEF StartOpened, Opening, Owned, Agents
    <2> QED
      BY <1>0, <1>2, <2>1, <2>2 DEF StartOpened, TypeOK
  <1>3. CASE SendFind \/ InterruptFind \/ RespondFind \/ RestartFind \/ CloseUnregister
    <2>1. CASE SendFind
      BY <2>1, SMTT(30) DEF SendFind, TypeOK, Goroutines, At
    <2>2. CASE InterruptFind
      BY <2>2, SMTT(30) DEF InterruptFind, TypeOK, Goroutines, At
    <2>3. CASE RespondFind
      BY <2>3, SMTT(30) DEF RespondFind, TypeOK, Goroutines, At
    <2>4. CASE RestartFind
      BY <2>4, SMTT(30) DEF RestartFind, TypeOK, Goroutines, At
    <2>5. CASE CloseUnregister
      BY <2>5, SMTT(30) DEF CloseUnregister, TypeOK, Goroutines, At
    <2> QED
      BY <1>3, <2>1, <2>2, <2>3, <2>4, <2>5
  <1>4. CASE SendTake
    <2>1. s' \in [Sessions -> SessionStates] /\ sender' \in Goroutines({"begin", "started"})
      <3>1. CASE s' = s /\ sender' = Idle
        BY <1>0, <3>1 DEF TypeOK
      <3>2. CASE ~(s' = s /\ sender' = Idle)
        <4>1. /\ s[sender.i].turn + 1 \in 1..MaxTurns /\ sender.i \in Sessions /\ OnlyAt(sender.i)
              /\ sender' = At("started", sender.i, s[sender.i].turn + 1, 0)
          BY <1>4, <3>2, TurnSteps
        <4>2. s[sender.i].turn + 1 \in 0..MaxTurns
          BY <4>1
        <4> QED
          BY <1>b, <4>1, <4>2, AtTyped DEF OnlyAt
      <3> QED
        BY <3>1, <3>2
    <2> QED
      BY <1>4, <2>1 DEF SendTake, TypeOK
  <1>5. CASE SendStarted
    <2>1. prompt' \in [Turns -> [pc : Prompts, agent : 0..MaxAgents]]
      BY <1>5 DEF SendStarted, TypeOK, Prompts
    <2> QED
      BY <1>0, <1>5, <2>1 DEF SendStarted, TypeOK
  <1>6. ASSUME NEW t \in Turns, PromptSubmit(t) \/ PromptReturns(t) PROVE TypeOK'
    <2>1. prompt' \in [Turns -> [pc : Prompts, agent : 0..MaxAgents]]
      <3>1. CASE PromptSubmit(t)
        BY <1>a, <3>1, TurnPairs DEF PromptSubmit, TypeOK, Prompts
      <3>2. CASE PromptReturns(t)
        BY <3>2 DEF PromptReturns, TypeOK, Prompts
      <3> QED
        BY <1>6, <3>1, <3>2
    <2> QED
      BY <1>6, <2>1 DEF PromptSubmit, PromptReturns, TypeOK, host
  <1>7. ASSUME NEW t \in Turns, Ask(t) PROVE TypeOK'
    <2>1. prompt' \in [Turns -> [pc : Prompts, agent : 0..MaxAgents]]
      BY <1>7 DEF Ask, TypeOK, Prompts
    <2>2. answer' \in [Turns -> [full : BOOLEAN, asked : BOOLEAN]]
      BY <1>7 DEF Ask, TypeOK
    <2>3. s' \in [Sessions -> SessionStates]
      BY <1>7, ChannelSteps DEF OnlyAt
    <2> QED
      BY <1>7, <2>1, <2>2, <2>3 DEF Ask, TypeOK, host
  <1>8. ASSUME NEW t \in Turns, NEW timeout \in BOOLEAN, AskReturns(t, timeout) PROVE TypeOK'
    <2>1. prompt' \in [Turns -> [pc : Prompts, agent : 0..MaxAgents]]
      BY <1>8 DEF AskReturns, TypeOK, Prompts
    <2>3. s' \in [Sessions -> SessionStates]
      BY <1>8, ChannelSteps DEF OnlyAt
    <2> QED
      BY <1>8, <2>1, <2>3 DEF AskReturns, TypeOK, host
  <1>9. ASSUME NEW t \in Turns, PromptFinish(t) PROVE TypeOK'
    <2>1. prompt' \in [Turns -> [pc : Prompts, agent : 0..MaxAgents]]
      BY <1>9 DEF PromptFinish, TypeOK, Prompts
    <2>2. s' \in [Sessions -> SessionStates]
      BY <1>9, TurnSteps DEF OnlyAt, TypeOK
    <2>3. ends' \in [Turns -> 0..2]
      <3>1. s[t[1]].turnID = t[2] => ends[t] = 0
        BY TurnPairs DEF TurnsOnce
      <3> QED
        BY <1>9, <3>1, TurnSteps DEF TypeOK
    <2> QED
      BY <1>9, <2>1, <2>2, <2>3 DEF PromptFinish, TypeOK, host
  <1>10. CASE InterruptTake
    <2>1. s' \in [Sessions -> SessionStates]
      BY <1>10, TurnSteps DEF OnlyAt
    <2>2. interrupter.i \in Sessions /\ s[interrupter.i].turnID \in 0..MaxTurns
      BY <1>10, TurnSteps DEF TypeOK, SessionStates
    <2>3. interrupter' \in Goroutines({"take", "cancel", "emit"})
      BY <1>0, <1>b, <1>10, <2>2, AtTyped DEF InterruptTake
    <2> QED
      BY <1>10, <2>1, <2>3 DEF InterruptTake, TypeOK
  <1>11. CASE InterruptCancel
    <2>1. s' \in [Sessions -> SessionStates] /\ interrupter.i \in Sessions
      BY <1>11, ChannelSteps DEF OnlyAt
    <2>2. answer' \in [Turns -> [full : BOOLEAN, asked : BOOLEAN]]
      BY <1>11, <2>1, CancelledTyped DEF InterruptCancel
    <2>3. interrupter' \in Goroutines({"take", "cancel", "emit"})
      BY <1>11 DEF InterruptCancel, Goroutines, TypeOK
    <2> QED
      BY <1>11, <2>1, <2>2, <2>3 DEF InterruptCancel, TypeOK
  <1>12. CASE InterruptEmit
    <2>1. interrupter.i \in Sessions /\ interrupter.n \in 1..MaxTurns
      BY <1>12, AtWork DEF InterruptEmit, Places, TypeOK, SessionStates
    <2>2. ends[<<interrupter.i, interrupter.n>>] = 0 /\ <<interrupter.i, interrupter.n>> \in Turns
      BY <1>12, <2>1, TurnPairs DEF InterruptEmit, TurnsOnce, Taken
    <2>3. ends' \in [Turns -> 0..2]
      BY <1>12, <2>2 DEF InterruptEmit, TypeOK
    <2> QED
      BY <1>0, <1>12, <2>3 DEF InterruptEmit, TypeOK
  <1>13. CASE RespondClaim
    <2>1. s' \in [Sessions -> SessionStates] /\ responder' \in Goroutines({"claim", "send"})
      <3>1. CASE s' = s /\ responder' = Idle
        BY <1>0, <3>1 DEF TypeOK
      <3>2. CASE ~(s' = s /\ responder' = Idle)
        <4>1. PICK n \in 1..MaxTurns :
                 responder' = At("send", responder.i, n, 0) /\ OnlyAt(responder.i)
          BY <1>13, <3>2, ChannelSteps
        <4>2. responder.i \in Sessions /\ n \in 0..MaxTurns
          BY <1>13, ChannelSteps
        <4> QED
          BY <1>b, <4>1, <4>2, AtTyped DEF OnlyAt
      <3> QED
        BY <3>1, <3>2
    <2> QED
      BY <1>13, <2>1 DEF RespondClaim, TypeOK
  <1>14. CASE RespondSend
    <2>1. answer' \in [Turns -> [full : BOOLEAN, asked : BOOLEAN]]
      BY <1>14, ZenonT(60) DEF RespondSend, TypeOK
    <2> QED
      BY <1>0, <1>14, <2>1 DEF RespondSend, TypeOK
  <1>15. CASE CloseStop
    <2>1. s' \in [Sessions -> SessionStates] /\ closer.i \in Sessions
      BY <1>15, ChannelSteps DEF OnlyAt, TypeOK
    <2>2. answer' \in [Turns -> [full : BOOLEAN, asked : BOOLEAN]]
      BY <1>15, <2>1, ChannelSteps, CancelledTyped DEF TypeOK
    <2>3. closer' \in Goroutines({"ready", "stop", "close"})
      BY <1>15 DEF CloseStop, Goroutines, TypeOK
    <2> QED
      BY <1>15, <2>1, <2>2, <2>3 DEF CloseStop, TypeOK
  <1>16. CASE CloseAgent
    BY <1>0, <1>16 DEF CloseAgent, TypeOK
  <1>17. CASE RestartBegin
    <2>1. /\ s' \in [Sessions -> SessionStates] /\ agents' \in 0..MaxAgents
          /\ restarter' \in Goroutines({"begin", "resume", "replace", "discard", "finish"})
      <3>1. CASE s' = s /\ agents' = agents /\ restarter' = Idle
        BY <1>0, <3>1 DEF TypeOK
      <3>2. CASE ~(s' = s /\ agents' = agents /\ restarter' = Idle)
        <4>1. /\ restarter.i \in Sessions /\ OnlyAt(restarter.i) /\ agents' = agents + 1
              /\ agents + 1 \in 0..MaxAgents
              /\ restarter' = At("resume", restarter.i, 0, agents + 1)
          BY <1>17, <3>2, RestartSteps
        <4> QED
          BY <1>b, <4>1, AtTyped DEF OnlyAt
      <3> QED
        BY <3>1, <3>2
    <2> QED
      BY <1>17, <2>1 DEF RestartBegin, TypeOK
  <1>18. ASSUME NEW ok \in BOOLEAN, RestartResume(ok) PROVE TypeOK'
    <2>1. ok => restarter.a \in Agents
      BY <1>18, <1>b DEF RestartResume, Owned, Agents
    <2>2. restarter' \in Goroutines({"begin", "resume", "replace", "discard", "finish"})
      BY <1>18 DEF RestartResume, Goroutines, TypeOK
    <2> QED
      BY <1>18, <2>1, <2>2 DEF RestartResume, TypeOK
  <1>19. CASE RestartReplace
    <2>1. s' \in [Sessions -> SessionStates]
      BY <1>19, RestartSteps DEF OnlyAt, TypeOK
    <2>2. restarter' \in Goroutines({"begin", "resume", "replace", "discard", "finish"})
      BY <1>19, RestartSteps, ZenonT(60) DEF Goroutines, TypeOK
    <2>3. replaced' \subseteq 0..MaxAgents
      <3>1. restarter.i \in Sessions
        BY <1>19, AtWork DEF RestartReplace
      <3>2. s[restarter.i].agent \in 0..MaxAgents
        BY <3>1 DEF TypeOK, SessionStates
      <3> QED
        BY <1>19, <3>2 DEF RestartReplace, TypeOK
    <2> QED
      BY <1>19, <2>1, <2>2, <2>3 DEF RestartReplace, TypeOK
  <1>20. CASE RestartDiscard
    <2>2. restarter' \in Goroutines({"begin", "resume", "replace", "discard", "finish"})
      BY <1>20 DEF RestartDiscard, Goroutines, TypeOK
    <2> QED
      BY <1>20, <2>2 DEF RestartDiscard, TypeOK
  <1>21. CASE RestartFinish
    <2>1. s' \in [Sessions -> SessionStates]
      BY <1>21, RestartSteps DEF OnlyAt
    <2> QED
      BY <1>0, <1>21, <2>1 DEF RestartFinish, TypeOK
  <1> QED
    BY <1>1, <1>2, <1>3, <1>4, <1>5, <1>6, <1>7, <1>8, <1>9, <1>10, <1>11, <1>12,
       <1>13, <1>14, <1>15, <1>16, <1>17, <1>18, <1>19, <1>20, <1>21
       DEF Next, Start, Send, Interrupt, Respond, Close, Restart, Run

\* The steps that change no session.
LEMMA OtherSteps ==
    /\ SendFind \/ SendStarted \/ InterruptFind \/ InterruptEmit => s' = s
    /\ RespondFind \/ RespondSend \/ CloseUnregister \/ CloseAgent => s' = s
    /\ RestartFind \/ RestartDiscard \/ (\E ok \in BOOLEAN : RestartResume(ok)) => s' = s
    /\ \A t \in Turns : PromptSubmit(t) \/ PromptReturns(t) => s' = s
  BY DEF SendFind, SendStarted, InterruptFind, InterruptEmit, RespondFind,
         RespondSend, CloseUnregister, CloseAgent, RestartFind, RestartDiscard,
         RestartResume, PromptSubmit, PromptReturns

\* SendTurn takes the turn.
TurnTaken(j) ==
    /\ SendTake /\ j = sender.i
    /\ s[j].turnID = 0 /\ ~s[j].restarting /\ s[j].turn + 1 \in 1..MaxTurns
    /\ s'[j].turn = s[j].turn + 1 /\ s'[j].turnID = s[j].turn + 1
    /\ sender' = At("started", j, s[j].turn + 1, 0)

\* All that ever happens to a session.
LEMMA SessionSteps ==
    ASSUME TypeOK, Places, Next, NEW j \in Sessions
    PROVE  /\ \/ s'[j].turn = s[j].turn /\ s'[j].turnID \in {0, s[j].turnID}
              \/ TurnTaken(j)
           /\ s'[j].restarting => s[j].restarting \/ (s[j].turnID = 0 /\ SameTurn(s'[j], s[j]))
           /\ s[j].restarting => s'[j].restarting \/ (RestartFinish /\ j = restarter.i)
           /\ s[j].ready # "no" => s'[j].ready # "no"
           /\ s'[j].ready # "no" =>
                s[j].ready # "no" \/ (j = starter.i /\ \E ok \in BOOLEAN : StartOpened(ok))
           /\ \/ s'[j].agent = s[j].agent
              \/ StartRegister /\ j = made + 1 /\ s'[j].agent = agents + 1
              \/ /\ RestartReplace /\ j = restarter.i /\ j = registered
                 /\ s'[j].agent = restarter.a /\ restarter'.pc = "finish"
  <1> DEFINE Goal ==
        /\ \/ s'[j].turn = s[j].turn /\ s'[j].turnID \in {0, s[j].turnID}
           \/ TurnTaken(j)
        /\ s'[j].restarting => s[j].restarting \/ (s[j].turnID = 0 /\ SameTurn(s'[j], s[j]))
        /\ s[j].restarting => s'[j].restarting \/ (RestartFinish /\ j = restarter.i)
        /\ s[j].ready # "no" => s'[j].ready # "no"
        /\ s'[j].ready # "no" =>
             s[j].ready # "no" \/ (j = starter.i /\ \E ok \in BOOLEAN : StartOpened(ok))
        /\ \/ s'[j].agent = s[j].agent
           \/ StartRegister /\ j = made + 1 /\ s'[j].agent = agents + 1
           \/ /\ RestartReplace /\ j = restarter.i /\ j = registered
              /\ s'[j].agent = restarter.a /\ restarter'.pc = "finish"
  <1> SUFFICES Goal
    OBVIOUS
  <1>0. CASE s'[j] = s[j]
    BY <1>0
  <1>1. CASE StartRegister
    BY <1>0, <1>1, StartSteps DEF OnlyAt, SameTurn
  <1>2. ASSUME NEW ok \in BOOLEAN, StartOpened(ok) PROVE Goal
    BY <1>0, <1>2, StartSteps DEF OnlyAt, SameTurn
  <1>3. CASE SendTake
    BY <1>0, <1>3, TurnSteps DEF OnlyAt, SameRest, TurnTaken
  <1>4. ASSUME NEW t \in Turns, PromptFinish(t) PROVE Goal
    BY <1>0, <1>4, TurnSteps DEF OnlyAt, SameRest
  <1>5. CASE InterruptTake
    BY <1>0, <1>5, TurnSteps DEF OnlyAt, SameRest
  <1>6. ASSUME NEW t \in Turns, Ask(t) PROVE Goal
    BY <1>0, <1>6, ChannelSteps DEF OnlyAt, SameRest, SameTurn
  <1>7. ASSUME NEW t \in Turns, NEW timeout \in BOOLEAN, AskReturns(t, timeout) PROVE Goal
    BY <1>0, <1>7, ChannelSteps DEF OnlyAt, SameRest, SameTurn
  <1>8. CASE RespondClaim
    BY <1>0, <1>8, ChannelSteps DEF OnlyAt, SameRest, SameTurn
  <1>9. CASE InterruptCancel
    BY <1>0, <1>9, ChannelSteps DEF OnlyAt, SameRest, SameTurn
  <1>10. CASE CloseStop
    BY <1>0, <1>10, ChannelSteps DEF OnlyAt, SameRest
  <1>11. CASE RestartBegin
    BY <1>0, <1>11, RestartSteps DEF OnlyAt, SameTurn
  <1>12. CASE RestartReplace
    <2>1. restarter' = [restarter EXCEPT !.pc = "finish"] => restarter'.pc = "finish"
      BY DEF TypeOK, Goroutines
    <2> QED
      BY <1>0, <1>12, <2>1, RestartSteps DEF OnlyAt, SameTurn
  <1>13. CASE RestartFinish
    BY <1>0, <1>13, RestartSteps DEF OnlyAt, SameTurn
  <1>14. CASE s' = s
    BY <1>0, <1>14
  <1> HIDE DEF Goal
  <1> QED
    BY <1>1, <1>2, <1>3, <1>4, <1>5, <1>6, <1>7, <1>8, <1>9, <1>10, <1>11, <1>12,
       <1>13, <1>14, OtherSteps
       DEF Next, Start, Send, Interrupt, Respond, Close, Restart, Run

\* Every step leaves the goroutines that are at work with a session.
LEMMA PlacesNext ==
    ASSUME TypeOK, Places, TurnsOnce, Next
    PROVE  Places'
  <1> USE AntigravityAssumption
  <1>0. /\ made \in 0..MaxSessions /\ Started \subseteq Sessions
        /\ \A j \in Sessions : s[j].turn \in 0..MaxTurns /\ s[j].turnID \in 0..MaxTurns
    BY AtWork DEF TypeOK, SessionStates
  <1>1. \A j \in Sessions : s'[j].turn = s[j].turn \/ s'[j].turn = s[j].turn + 1
    BY SessionSteps DEF TurnTaken
  <1>2. Idle.pc = "idle" /\ Idle.i = 0
    BY DEF Idle, At
  <1>3. \A j \in Sessions : \A n \in 1..s[j].turn : n \in 1..s'[j].turn
    BY <1>0, <1>1
  <1>4. \A pc, i, n, a : LET g == At(pc, i, n, a) IN g.pc = pc /\ g.i = i /\ g.n = n
    BY DEF At
  \* What the goroutines that do not move keep.
  <1> DEFINE Stays(m) ==
        /\ made' = made /\ registered' \in {registered, 0}
        /\ m # "starter" => starter' = starter
        /\ m # "sender" => sender' = sender
        /\ m # "interrupter" => interrupter' = interrupter
        /\ m # "closer" => closer' = closer
        /\ m # "restarter" => restarter' = restarter
        /\ m # "responder" => responder' = responder
  <1>5. ASSUME NEW m, Stays(m),
               m = "starter" => Placed(starter)',
               m = "sender" => /\ Placed(sender)'
                               /\ sender'.pc = "started" => sender'.n \in 1..s'[sender'.i].turn,
               m = "interrupter" =>
                  /\ Placed(interrupter)'
                  /\ interrupter'.pc \in {"cancel", "emit"} =>
                        interrupter'.n \in 1..s'[interrupter'.i].turn,
               m = "closer" => Placed(closer)',
               m = "restarter" => Placed(restarter)',
               m = "responder" => /\ Placed(responder)'
                                  /\ responder'.pc = "send" => responder'.n \in 1..MaxTurns
        PROVE  Places'
    <2>1. registered' \in 0..made'
      BY <1>0, <1>5 DEF Places
    <2>2. Placed(starter)' /\ Placed(sender)' /\ Placed(interrupter)'
      BY <1>5 DEF Places, Placed, Started
    <2>3. Placed(closer)' /\ Placed(restarter)' /\ Placed(responder)'
      BY <1>5 DEF Places, Placed, Started
    <2>4. sender'.pc = "started" => sender'.n \in 1..s'[sender'.i].turn
      BY <1>0, <1>3, <1>5, AtWork DEF Places
    <2>5. interrupter'.pc \in {"cancel", "emit"} =>
            interrupter'.n \in 1..s'[interrupter'.i].turn
      BY <1>0, <1>3, <1>5, AtWork DEF Places
    <2>6. responder'.pc = "send" => responder'.n \in 1..MaxTurns
      BY <1>5 DEF Places
    <2> QED
      BY <2>1, <2>2, <2>3, <2>4, <2>5, <2>6 DEF Places
  <1>6. CASE StartRegister
    <2>1. /\ made' = made + 1 /\ registered' = made + 1
          /\ starter'.pc = "open" /\ starter'.i = made + 1
          /\ UNCHANGED <<sender, interrupter, closer, restarter, responder>>
      BY <1>4, <1>6 DEF StartRegister
    <2>2. \A i \in Started : i \in Started'
      BY <1>0, <2>1 DEF Started
    <2>3. made + 1 \in Started' /\ registered' \in 0..made'
      BY <1>0, <2>1 DEF Started
    <2>4. Placed(starter)' /\ Placed(sender)' /\ Placed(interrupter)'
      BY <2>1, <2>2, <2>3 DEF Places, Placed
    <2>5. Placed(closer)' /\ Placed(restarter)' /\ Placed(responder)'
      BY <2>1, <2>2 DEF Places, Placed
    <2>6. sender'.pc = "started" => sender'.n \in 1..s'[sender'.i].turn
      BY <1>0, <1>3, <2>1, AtWork DEF Places
    <2>7. interrupter'.pc \in {"cancel", "emit"} =>
            interrupter'.n \in 1..s'[interrupter'.i].turn
      BY <1>0, <1>3, <2>1, AtWork DEF Places
    <2> QED
      BY <2>1, <2>3, <2>4, <2>5, <2>6, <2>7 DEF Places
  <1>7. ASSUME NEW ok \in BOOLEAN, StartOpened(ok) PROVE Places'
    <2>1. Stays("starter") /\ Placed(starter)'
      BY <1>2, <1>7 DEF StartOpened, Placed
    <2> QED
      BY <1>5, <2>1
  <1>8. CASE SendFind
    <2>1. Stays("sender") /\ sender'.pc = "begin" /\ sender'.i \in Started
      BY <1>4, <1>8, AtWork DEF SendFind, Found
    <2>2. Placed(sender)'
      BY <2>1 DEF Placed, Started
    <2> QED
      BY <1>5, <2>1, <2>2
  <1>9. CASE SendTake
    <2>1. Stays("sender") /\ sender.i \in Started
      BY <1>9, AtWork DEF SendTake
    <2>2. /\ Placed(sender)'
          /\ sender'.pc = "started" => sender'.n \in 1..s'[sender'.i].turn
      <3>1. CASE sender' = Idle
        BY <1>2, <3>1 DEF Placed
      <3>2. CASE sender' # Idle
        <4>1. /\ sender'.pc = "started" /\ sender'.i = sender.i
              /\ sender'.n = s[sender.i].turn + 1 /\ s'[sender.i].turn = s[sender.i].turn + 1
          BY <1>4, <1>9, <3>2, TurnSteps
        <4> QED
          BY <1>0, <2>1, <4>1 DEF Placed, Started
      <3> QED
        BY <3>1, <3>2
    <2> QED
      BY <1>5, <2>1, <2>2
  <1>10. CASE SendStarted
    <2>1. Stays("sender") /\ sender'.pc = "idle" /\ Placed(sender)'
      BY <1>2, <1>10 DEF SendStarted, Placed
    <2> QED
      BY <1>5, <2>1
  <1>11. ASSUME NEW t \in Turns, Run(t) PROVE Places'
    <2>1. Stays("none")
      BY <1>11 DEF Run, PromptSubmit, Ask, AskReturns, PromptReturns, PromptFinish, host
    <2> QED
      BY <1>5, <2>1
  <1>12. CASE InterruptFind
    <2>1. Stays("interrupter") /\ interrupter'.pc = "take" /\ interrupter'.i \in Started
      BY <1>4, <1>12, AtWork DEF InterruptFind, Found
    <2>2. Placed(interrupter)'
      BY <2>1 DEF Placed, Started
    <2> QED
      BY <1>5, <2>1, <2>2
  <1>13. CASE InterruptTake
    <2>1. Stays("interrupter") /\ interrupter.i \in Started
      BY <1>13, AtWork DEF InterruptTake
    <2>2. /\ Placed(interrupter)'
          /\ interrupter'.pc \in {"cancel", "emit"} =>
               interrupter'.n \in 1..s'[interrupter'.i].turn
      <3>1. CASE interrupter' = Idle
        BY <1>2, <3>1 DEF Placed
      <3>2. CASE interrupter' # Idle
        <4>1. /\ interrupter'.pc = "cancel" /\ interrupter'.i = interrupter.i
              /\ interrupter'.n = s[interrupter.i].turnID /\ s[interrupter.i].turnID # 0
          BY <1>4, <1>13, <3>2 DEF InterruptTake
        <4>2. s'[interrupter.i].turn = s[interrupter.i].turn
          BY <1>13, TurnSteps
        <4>3. s[interrupter.i].turnID \in 1..s[interrupter.i].turn
          BY <1>0, <2>1, <4>1 DEF TurnsOnce
        <4> QED
          BY <2>1, <4>1, <4>2, <4>3 DEF Placed, Started
      <3> QED
        BY <3>1, <3>2
    <2> QED
      BY <1>5, <2>1, <2>2
  <1>14. CASE InterruptCancel
    <2>1. Stays("interrupter") /\ interrupter.i \in Started
      BY <1>14, AtWork DEF InterruptCancel
    <2>2. interrupter'.pc = "emit" /\ interrupter'.i = interrupter.i /\ interrupter'.n = interrupter.n
      BY <1>14 DEF InterruptCancel, TypeOK, Goroutines
    <2>3. interrupter.n \in 1..s'[interrupter.i].turn
      BY <1>0, <1>3, <1>14, <2>1 DEF InterruptCancel, Places
    <2>4. Placed(interrupter)'
      BY <2>1, <2>2 DEF Placed, Started
    <2> QED
      BY <1>5, <2>1, <2>2, <2>3, <2>4
  <1>15. CASE InterruptEmit
    <2>1. Stays("interrupter") /\ interrupter'.pc = "idle" /\ Placed(interrupter)'
      BY <1>2, <1>15 DEF InterruptEmit, Placed
    <2> QED
      BY <1>5, <2>1
  <1>16. CASE RespondFind
    <2>1. Stays("responder") /\ responder'.pc = "claim" /\ responder'.i \in Started
      BY <1>4, <1>16, AtWork DEF RespondFind, Found
    <2>2. Placed(responder)'
      BY <2>1 DEF Placed, Started
    <2> QED
      BY <1>5, <2>1, <2>2
  <1>17. CASE RespondClaim
    <2>1. Stays("responder") /\ responder.i \in Started
      BY <1>17, AtWork DEF RespondClaim
    <2>2. /\ Placed(responder)'
          /\ responder'.pc = "send" => responder'.n \in 1..MaxTurns
      <3>1. CASE responder' = Idle
        BY <1>2, <3>1 DEF Placed
      <3>2. CASE responder' # Idle
        <4>1. PICK n \in 1..MaxTurns : responder' = At("send", responder.i, n, 0)
          BY <1>17, <3>2, ChannelSteps
        <4> QED
          BY <1>4, <2>1, <4>1 DEF Placed, Started
      <3> QED
        BY <3>1, <3>2
    <2> QED
      BY <1>5, <2>1, <2>2
  <1>18. CASE RespondSend
    <2>1. Stays("responder") /\ responder'.pc = "idle" /\ Placed(responder)'
      BY <1>2, <1>18 DEF RespondSend, Placed
    <2> QED
      BY <1>5, <2>1
  <1>19. CASE CloseUnregister
    <2>1. Stays("closer") /\ closer'.pc = "ready" /\ closer'.i \in Started
      BY <1>4, <1>19, AtWork DEF CloseUnregister
    <2>2. Placed(closer)'
      BY <2>1 DEF Placed, Started
    <2> QED
      BY <1>5, <2>1, <2>2
  <1>20. CASE CloseStop
    <2>1. Stays("closer") /\ closer.i \in Started
      BY <1>20, AtWork DEF CloseStop
    <2>2. closer'.pc = "close" /\ closer'.i = closer.i
      BY <1>20 DEF CloseStop, TypeOK, Goroutines
    <2>3. Placed(closer)'
      BY <2>1, <2>2 DEF Placed, Started
    <2> QED
      BY <1>5, <2>1, <2>3
  <1>21. CASE CloseAgent
    <2>1. Stays("closer") /\ Placed(closer)'
      BY <1>2, <1>21 DEF CloseAgent, Placed
    <2> QED
      BY <1>5, <2>1
  <1>22. CASE RestartFind
    <2>1. Stays("restarter") /\ restarter'.pc = "begin" /\ restarter'.i \in Started
      BY <1>4, <1>22, AtWork DEF RestartFind, Found
    <2>2. Placed(restarter)'
      BY <2>1 DEF Placed, Started
    <2> QED
      BY <1>5, <2>1, <2>2
  <1>23. CASE RestartBegin
    <2>1. Stays("restarter") /\ restarter.i \in Started
      BY <1>23, AtWork DEF RestartBegin
    <2>2. Placed(restarter)'
      <3>1. CASE restarter' = Idle
        BY <1>2, <3>1 DEF Placed
      <3>2. CASE restarter' # Idle
        BY <1>4, <1>23, <2>1, <3>2, RestartSteps DEF Placed, Started
      <3> QED
        BY <3>1, <3>2
    <2> QED
      BY <1>5, <2>1, <2>2
  <1>24. CASE (\E ok \in BOOLEAN : RestartResume(ok)) \/ RestartReplace \/ RestartDiscard
    <2>1. Stays("restarter") /\ restarter.i \in Started
      BY <1>24, AtWork DEF RestartResume, RestartReplace, RestartDiscard
    <2>2. restarter'.pc \in {"replace", "finish", "discard"} /\ restarter'.i = restarter.i
      BY <1>24 DEF RestartResume, RestartReplace, RestartDiscard, TypeOK, Goroutines
    <2>3. Placed(restarter)'
      BY <2>1, <2>2 DEF Placed, Started
    <2> QED
      BY <1>5, <2>1, <2>3
  <1>25. CASE RestartFinish
    <2>1. Stays("restarter") /\ Placed(restarter)'
      BY <1>2, <1>25 DEF RestartFinish, Placed
    <2> QED
      BY <1>5, <2>1
  <1> QED
    BY <1>6, <1>7, <1>8, <1>9, <1>10, <1>11, <1>12, <1>13, <1>14, <1>15, <1>16,
       <1>17, <1>18, <1>19, <1>20, <1>21, <1>22, <1>23, <1>24, <1>25
       DEF Next, Start, Send, Interrupt, Respond, Close, Restart

-----------------------------------------------------------------------------
(* Turns.                                                                  *)

\* Where a prompt begins, and which prompts go on.
LEMMA PromptSteps ==
    ASSUME TypeOK, Places, Next, NEW t \in Turns
    PROVE  \/ prompt'[t] = prompt[t]
           \/ SendStarted /\ t = <<sender.i, sender.n>> /\ prompt'[t].pc = "configuring"
           \/ PromptSubmit(t)
           \/ prompt[t].pc # "none" /\ prompt'[t].agent = prompt[t].agent
              /\ (prompt'[t].pc \in {"atAgent", "asking"} => prompt[t].pc \in {"atAgent", "asking"})
  <1> USE DEF TypeOK
  <1> DEFINE Goal ==
           \/ prompt'[t] = prompt[t]
           \/ SendStarted /\ t = <<sender.i, sender.n>> /\ prompt'[t].pc = "configuring"
           \/ PromptSubmit(t)
           \/ prompt[t].pc # "none" /\ prompt'[t].agent = prompt[t].agent
              /\ (prompt'[t].pc \in {"atAgent", "asking"} => prompt[t].pc \in {"atAgent", "asking"})
  <1> SUFFICES Goal
    OBVIOUS
  <1>1. CASE SendStarted
    BY <1>1 DEF SendStarted
  <1>2. ASSUME NEW u \in Turns, PromptSubmit(u) PROVE Goal
    BY <1>2 DEF PromptSubmit
  <1>3. ASSUME NEW u \in Turns, Ask(u) PROVE Goal
    BY <1>3 DEF Ask
  <1>4. ASSUME NEW u \in Turns, NEW timeout \in BOOLEAN, AskReturns(u, timeout) PROVE Goal
    BY <1>4 DEF AskReturns
  <1>5. ASSUME NEW u \in Turns, PromptReturns(u) PROVE Goal
    BY <1>5 DEF PromptReturns
  <1>6. ASSUME NEW u \in Turns, PromptFinish(u) PROVE Goal
    BY <1>6 DEF PromptFinish
  <1>7. CASE prompt' = prompt
    BY <1>7
  <1>8. CASE Start \/ SendFind \/ SendTake \/ Interrupt
    BY <1>7, <1>8 DEF Start, StartRegister, StartOpened, SendFind, SendTake, Interrupt,
                InterruptFind, InterruptTake, InterruptCancel, InterruptEmit
  <1>9. CASE Respond \/ Close
    BY <1>7, <1>9 DEF Respond, RespondFind, RespondClaim, RespondSend, Close,
                CloseUnregister, CloseStop, CloseAgent
  <1>10. CASE Restart
    BY <1>7, <1>10 DEF Restart, RestartFind, RestartBegin, RestartResume,
                RestartReplace, RestartDiscard, RestartFinish
  <1> HIDE DEF Goal
  <1> QED
    BY <1>1, <1>2, <1>3, <1>4, <1>5, <1>6, <1>8, <1>9, <1>10 DEF Next, Send, Run

\* Who ends a turn.
LEMMA EndSteps ==
    ASSUME TypeOK, Places, Next, NEW t \in Turns
    PROVE  \/ ends'[t] = ends[t]
           \/ /\ ends'[t] = ends[t] + 1 /\ s[t[1]].turnID = t[2] /\ s'[t[1]].turnID = 0
              /\ UNCHANGED <<interrupter, made>>
           \/ /\ ends'[t] = ends[t] + 1 /\ Taken(t[1], t[2]) /\ s' = s
              /\ interrupter'.pc = "idle"
  <1> USE DEF TypeOK
  <1> DEFINE Goal ==
           \/ ends'[t] = ends[t]
           \/ /\ ends'[t] = ends[t] + 1 /\ s[t[1]].turnID = t[2] /\ s'[t[1]].turnID = 0
              /\ UNCHANGED <<interrupter, made>>
           \/ /\ ends'[t] = ends[t] + 1 /\ Taken(t[1], t[2]) /\ s' = s
              /\ interrupter'.pc = "idle"
  <1> SUFFICES Goal
    OBVIOUS
  <1>1. ASSUME NEW u \in Turns, PromptFinish(u) PROVE Goal
    <2>1. UNCHANGED <<interrupter, made>>
      BY <1>1 DEF PromptFinish, host
    <2> QED
      BY <1>1, <2>1, TurnSteps
  <1>2. CASE InterruptEmit
    <2>1. /\ ends' = [ends EXCEPT ![<<interrupter.i, interrupter.n>>] = @ + 1] /\ s' = s
          /\ interrupter.pc = "emit" /\ interrupter'.pc = "idle"
      BY <1>2 DEF InterruptEmit, Idle, At
    <2>2. CASE t = <<interrupter.i, interrupter.n>>
      <3>1. t[1] = interrupter.i /\ t[2] = interrupter.n
        BY <2>2
      <3>2. ends'[t] = ends[t] + 1
        BY <2>1, <2>2
      <3> QED
        BY <2>1, <3>1, <3>2 DEF Taken
    <2>3. CASE t # <<interrupter.i, interrupter.n>>
      BY <2>1, <2>3
    <2> QED
      BY <2>2, <2>3
  <1>3. CASE ends' = ends
    BY <1>3
  <1>4. CASE Start \/ Send \/ InterruptFind \/ InterruptTake \/ InterruptCancel
    BY <1>3, <1>4 DEF Start, StartRegister, StartOpened, Send, SendFind, SendTake,
                SendStarted, InterruptFind, InterruptTake, InterruptCancel
  <1>5. CASE Respond \/ Close
    BY <1>3, <1>5 DEF Respond, RespondFind, RespondClaim, RespondSend, Close,
                CloseUnregister, CloseStop, CloseAgent
  <1>6. CASE Restart
    BY <1>3, <1>6 DEF Restart, RestartFind, RestartBegin, RestartResume,
                RestartReplace, RestartDiscard, RestartFinish
  <1>7. ASSUME NEW u \in Turns, Run(u), ~PromptFinish(u) PROVE Goal
    BY <1>3, <1>7 DEF Run, PromptSubmit, Ask, AskReturns, PromptReturns
  <1> HIDE DEF Goal
  <1> QED
    BY <1>1, <1>2, <1>4, <1>5, <1>6, <1>7 DEF Next, Interrupt

\* Interrupt takes the turn that is active, and takes it away.
LEMMA TakenSteps ==
    ASSUME TypeOK, Places, Next, NEW i \in Sessions, NEW n \in 1..MaxTurns, Taken(i, n)'
    PROVE  Taken(i, n) \/ (s[i].turnID = n /\ s'[i].turnID = 0 /\ ends' = ends)
  <1> USE DEF TypeOK
  <1>1. CASE InterruptTake
    <2>1. interrupter' # Idle
      BY DEF Taken, Idle, At
    <2>2. /\ interrupter' = At("cancel", interrupter.i, s[interrupter.i].turnID, 0)
          /\ ends' = ends
      BY <1>1, <2>1 DEF InterruptTake
    <2>3. interrupter.i = i /\ s[i].turnID = n
      BY <2>2 DEF Taken, At
    <2> QED
      BY <1>1, <2>2, <2>3, TurnSteps
  <1>2. CASE InterruptCancel
    BY <1>2 DEF InterruptCancel, Taken, Goroutines
  <1>3. CASE InterruptFind \/ InterruptEmit
    BY <1>3 DEF InterruptFind, InterruptEmit, Taken, Idle, At
  <1>4. CASE interrupter' = interrupter
    BY <1>4 DEF Taken
  <1>5. CASE Start \/ Send \/ Respond
    BY <1>4, <1>5 DEF Start, StartRegister, StartOpened, Send, SendFind, SendTake,
                SendStarted, Respond, RespondFind, RespondClaim, RespondSend
  <1>6. CASE Close \/ Restart
    BY <1>4, <1>6 DEF Close, CloseUnregister, CloseStop, CloseAgent, Restart,
                RestartFind, RestartBegin, RestartResume, RestartReplace,
                RestartDiscard, RestartFinish
  <1>7. ASSUME NEW u \in Turns, Run(u) PROVE interrupter' = interrupter
    BY <1>7 DEF Run, PromptSubmit, Ask, AskReturns, PromptReturns, PromptFinish, host
  <1> QED
    BY <1>1, <1>2, <1>3, <1>4, <1>5, <1>6, <1>7 DEF Next, Interrupt

\* Sessions are made one after the other.
LEMMA MadeSteps ==
    ASSUME TypeOK, Next
    PROVE  made' = made \/ (StartRegister /\ made' = made + 1)
  <1>1. CASE Start \/ Send \/ Interrupt
    BY <1>1 DEF Start, StartRegister, StartOpened, Send, SendFind, SendTake,
                SendStarted, Interrupt, InterruptFind, InterruptTake,
                InterruptCancel, InterruptEmit
  <1>2. CASE Respond \/ Close \/ Restart
    BY <1>2 DEF Respond, RespondFind, RespondClaim, RespondSend, Close,
                CloseUnregister, CloseStop, CloseAgent, Restart,
                RestartFind, RestartBegin, RestartResume, RestartReplace,
                RestartDiscard, RestartFinish
  <1>3. ASSUME NEW u \in Turns, Run(u) PROVE made' = made
    BY <1>3 DEF Run, PromptSubmit, Ask, AskReturns, PromptReturns, PromptFinish
  <1> QED
    BY <1>1, <1>2, <1>3 DEF Next

\* Every step leaves a turn with at most one end, and with none while it is
\* active or taken.
LEMMA TurnsNext ==
    ASSUME TypeOK, Places, TurnsOnce, Next
    PROVE  TurnsOnce'
  <1> USE AntigravityAssumption
  <1> SUFFICES ASSUME NEW i \in Sessions
               PROVE  /\ s'[i].turnID <= s'[i].turn
                      /\ i > made' => s'[i].turn = 0
                      /\ \A n \in 1..MaxTurns :
                            /\ ends'[<<i, n>>] <= 1
                            /\ n > s'[i].turn => /\ ends'[<<i, n>>] = 0
                                                 /\ prompt'[<<i, n>>].pc = "none"
                            /\ s'[i].turnID = n => ends'[<<i, n>>] = 0
                            /\ Taken(i, n)' => ends'[<<i, n>>] = 0 /\ s'[i].turnID # n
    BY DEF TurnsOnce
  <1>0. /\ s[i].turn \in 0..MaxTurns /\ s[i].turnID \in 0..MaxTurns /\ s[i].turnID <= s[i].turn
        /\ made \in 0..MaxSessions /\ i \in Nat /\ (i > made => s[i].turn = 0)
    BY DEF TypeOK, SessionStates, TurnsOnce, Sessions
  <1>1. \/ s'[i].turn = s[i].turn /\ s'[i].turnID \in {0, s[i].turnID}
        \/ TurnTaken(i)
    BY SessionSteps
  <1>2. s'[i].turnID <= s'[i].turn /\ s[i].turn <= s'[i].turn
    BY <1>0, <1>1 DEF TurnTaken
  <1>3. i > made' => s'[i].turn = 0
    <2>1. i > made' => i > made
      BY <1>0, MadeSteps
    <2>2. TurnTaken(i) => i <= made
      BY <1>0, AtWork DEF TurnTaken, SendTake, Started
    <2> QED
      BY <1>0, <1>1, <2>1, <2>2
  <1>4. ASSUME NEW n \in 1..MaxTurns
        PROVE  /\ ends'[<<i, n>>] <= 1
               /\ n > s'[i].turn => ends'[<<i, n>>] = 0 /\ prompt'[<<i, n>>].pc = "none"
               /\ s'[i].turnID = n => ends'[<<i, n>>] = 0
               /\ Taken(i, n)' => ends'[<<i, n>>] = 0 /\ s'[i].turnID # n
    <2> DEFINE t == <<i, n>>
    <2>0. t \in Turns /\ t[1] = i /\ t[2] = n /\ ends[t] \in 0..2
      BY TurnPairs DEF TypeOK
    <2>1. /\ ends[t] <= 1
          /\ n > s[i].turn => ends[t] = 0 /\ prompt[t].pc = "none"
          /\ s[i].turnID = n => ends[t] = 0
          /\ Taken(i, n) => ends[t] = 0 /\ s[i].turnID # n /\ n <= s[i].turn
      BY <1>0 DEF TurnsOnce, Taken, Places
    <2>2. \/ ends'[t] = ends[t]
          \/ /\ ends'[t] = ends[t] + 1 /\ s[i].turnID = n /\ s'[i].turnID = 0
             /\ UNCHANGED <<interrupter, made>>
          \/ /\ ends'[t] = ends[t] + 1 /\ Taken(i, n) /\ s' = s
             /\ interrupter'.pc = "idle"
      BY <2>0, EndSteps
    <2>3. Taken(i, n)' => Taken(i, n) \/ (s[i].turnID = n /\ s'[i].turnID = 0 /\ ends' = ends)
      BY TakenSteps
    <2>4. n > s'[i].turn => prompt'[t].pc = "none"
      <3>1. ASSUME n > s'[i].turn PROVE prompt'[t].pc = "none"
        <4>1. n > s[i].turn
          BY <1>0, <1>1, <1>2, <3>1 DEF TurnTaken
        <4>2. prompt[t].pc = "none"
          BY <2>1, <4>1
        <4>3. ~(SendStarted /\ t = <<sender.i, sender.n>>)
          BY <1>0, <4>1 DEF SendStarted, Places
        <4>4. ~PromptSubmit(t)
          BY <4>2 DEF PromptSubmit
        <4> QED
          BY <2>0, <4>2, <4>3, <4>4, PromptSteps
      <3> QED
        BY <3>1
    <2> HIDE DEF t
    <2>5. ends'[t] <= 1
      BY <2>0, <2>1, <2>2
    <2>6. n > s'[i].turn => ends'[t] = 0
      BY <1>0, <1>1, <2>0, <2>1, <2>2 DEF TurnTaken
    <2>7. s'[i].turnID = n => ends'[t] = 0
      <3>1. CASE TurnTaken(i)
        <4>1. ends' = ends
          BY <3>1 DEF TurnTaken, SendTake
        <4> QED
          BY <1>0, <2>1, <3>1, <4>1 DEF TurnTaken
      <3>2. CASE s'[i].turnID \in {0, s[i].turnID}
        BY <1>0, <2>0, <2>1, <2>2, <3>2
      <3> QED
        BY <1>1, <3>1, <3>2
    <2>8. Taken(i, n)' => ends'[t] = 0 /\ s'[i].turnID # n
      <3>1. ASSUME Taken(i, n)', Taken(i, n) PROVE ends'[t] = 0 /\ s'[i].turnID # n
        <4>1. ends'[t] = ends[t]
          BY <2>1, <2>2, <3>1 DEF Taken
        <4>2. s'[i].turnID # n
          BY <1>0, <1>1, <2>1, <3>1 DEF TurnTaken
        <4> QED
          BY <2>1, <3>1, <4>1, <4>2
      <3> QED
        BY <1>0, <2>1, <2>3, <3>1
    <2> QED
      BY <2>4, <2>5, <2>6, <2>7, <2>8 DEF t
  <1> QED
    BY <1>2, <1>3, <1>4

-----------------------------------------------------------------------------
(* Permission requests.                                                    *)

\* A step that takes entries out of the maps, and leaves the channels and the
\* goroutine that answers.
LEMMA ChannelsKept ==
    ASSUME TypeOK, Channels, UNCHANGED <<answer, responder>>,
           responder.pc = "send" => responder.i \in Sessions,
           \A i \in Sessions : s'[i].waiting \subseteq s[i].waiting
    PROVE  Channels'
  BY DEF Channels

\* cancelInteractions fills the channels of a session that are in the map,
\* and empties the map.
LEMMA ChannelsCancelled ==
    ASSUME TypeOK, Places, Channels, NEW i \in Sessions, OnlyAt(i), s'[i].waiting = {},
           answer' = Cancelled(i), responder' = responder
    PROVE  Channels'
  <1>1. \A t \in Turns : /\ answer'[t].asked = answer[t].asked
                         /\ t[1] # i \/ t[2] \notin s[i].waiting => answer'[t] = answer[t]
    BY CancelledTyped
  <1>2. ASSUME NEW j \in Sessions, NEW n \in 1..MaxTurns
        PROVE  /\ n \in s'[j].waiting =>
                     answer'[<<j, n>>].asked /\ ~answer'[<<j, n>>].full
               /\ ~answer'[<<j, n>>].asked => ~answer'[<<j, n>>].full
    <2>1. <<j, n>> \in Turns
      BY TurnPairs
    <2>2. /\ answer'[<<j, n>>].asked = answer[<<j, n>>].asked
          /\ j # i \/ n \notin s[i].waiting => answer'[<<j, n>>] = answer[<<j, n>>]
      BY <1>1, <2>1
    <2>3. /\ n \in s[j].waiting => answer[<<j, n>>].asked /\ ~answer[<<j, n>>].full
          /\ ~answer[<<j, n>>].asked => ~answer[<<j, n>>].full
      BY DEF Channels
    <2>4. j # i => s'[j] = s[j]
      BY DEF OnlyAt
    <2> QED
      BY <2>2, <2>3, <2>4
  <1>3. responder'.pc = "send" =>
          LET t == <<responder'.i, responder'.n>> IN
          /\ answer'[t].asked /\ ~answer'[t].full
          /\ responder'.n \notin s'[responder'.i].waiting
    <2> SUFFICES ASSUME responder.pc = "send"
                 PROVE  /\ answer'[<<responder.i, responder.n>>].asked
                        /\ ~answer'[<<responder.i, responder.n>>].full
                        /\ responder.n \notin s'[responder.i].waiting
      OBVIOUS
    <2>1. /\ responder.i \in Sessions /\ responder.n \in 1..MaxTurns
          /\ <<responder.i, responder.n>> \in Turns
      BY AtWork, TurnPairs DEF Places
    <2>2. /\ answer[<<responder.i, responder.n>>].asked
          /\ ~answer[<<responder.i, responder.n>>].full
          /\ responder.n \notin s[responder.i].waiting
      BY DEF Channels
    <2>3. answer'[<<responder.i, responder.n>>] = answer[<<responder.i, responder.n>>]
      BY <1>1, <2>1, <2>2
    <2>4. s'[responder.i].waiting = {} \/ s'[responder.i] = s[responder.i]
      BY <2>1 DEF OnlyAt
    <2> QED
      BY <2>2, <2>3, <2>4
  <1> QED
    BY <1>2, <1>3 DEF Channels

\* Every step leaves room in the channels that can still be sent to.
LEMMA ChannelsNext ==
    ASSUME TypeOK, Places, Channels, Next
    PROVE  Channels'
  <1>0. responder.pc = "send" => responder.i \in Sessions /\ responder.n \in 1..MaxTurns
    BY AtWork DEF Places
  <1>1. ASSUME UNCHANGED <<answer, responder>>,
               \A i \in Sessions : s'[i].waiting = s[i].waiting
        PROVE  Channels'
    BY <1>0, <1>1, ChannelsKept
  <1>2. CASE Start
    <2>1. UNCHANGED <<answer, responder>>
      BY <1>2 DEF Start, StartRegister, StartOpened
    <2>2. \A i \in Sessions : s'[i].waiting = s[i].waiting
      BY <1>2, StartSteps DEF Start, OnlyAt
    <2> QED
      BY <1>1, <2>1, <2>2
  <1>3. CASE Send
    <2>1. UNCHANGED <<answer, responder>>
      BY <1>3 DEF Send, SendFind, SendTake, SendStarted
    <2>2. \A i \in Sessions : s'[i].waiting = s[i].waiting
      BY <1>3, TurnSteps, OtherSteps DEF Send, OnlyAt
    <2> QED
      BY <1>1, <2>1, <2>2
  <1>4. CASE InterruptFind \/ InterruptTake \/ InterruptEmit
    <2>1. UNCHANGED <<answer, responder>>
      BY <1>4 DEF InterruptFind, InterruptTake, InterruptEmit
    <2>2. \A i \in Sessions : s'[i].waiting = s[i].waiting
      BY <1>4, TurnSteps, OtherSteps DEF OnlyAt
    <2> QED
      BY <1>1, <2>1, <2>2
  <1>5. CASE InterruptCancel
    BY <1>5, ChannelSteps, ChannelsCancelled DEF InterruptCancel
  <1>6. CASE CloseStop
    <2>1. CASE s' = s /\ answer' = answer
      BY <1>1, <1>6, <2>1 DEF CloseStop
    <2>2. CASE ~(s' = s /\ answer' = answer)
      <3>1. /\ closer.i \in Sessions /\ OnlyAt(closer.i) /\ s'[closer.i].waiting = {}
            /\ answer' = Cancelled(closer.i)
        BY <1>6, <2>2, ChannelSteps
      <3> QED
        BY <1>6, <3>1, ChannelsCancelled DEF CloseStop
    <2> QED
      BY <2>1, <2>2
  <1>7. CASE CloseUnregister \/ CloseAgent
    BY <1>1, <1>7 DEF CloseUnregister, CloseAgent
  <1>8. CASE Restart
    <2>1. UNCHANGED <<answer, responder>>
      BY <1>8 DEF Restart, RestartFind, RestartBegin, RestartResume, RestartReplace,
                  RestartDiscard, RestartFinish
    <2>2. \A i \in Sessions : s'[i].waiting = s[i].waiting
      BY <1>8, RestartSteps, OtherSteps DEF Restart, OnlyAt
    <2> QED
      BY <1>1, <2>1, <2>2
  <1>9. CASE RespondFind
    BY <1>9 DEF RespondFind, Channels, At
  <1>10. CASE RespondClaim
    <2>1. answer' = answer
      BY <1>10 DEF RespondClaim
    <2>2. CASE s' = s /\ responder' = Idle
      BY <2>1, <2>2 DEF Channels, Idle, At
    <2>3. CASE ~(s' = s /\ responder' = Idle)
      <3>1. PICK n \in s[responder.i].waiting :
               /\ n \in 1..MaxTurns /\ responder' = At("send", responder.i, n, 0)
               /\ OnlyAt(responder.i) /\ s'[responder.i].waiting = s[responder.i].waiting \ {n}
        BY <1>10, <2>3, ChannelSteps
      <3>2. responder.i \in Sessions
        BY <1>10, ChannelSteps
      <3>3. responder'.pc = "send" /\ responder'.i = responder.i /\ responder'.n = n
        BY <3>1 DEF At
      <3>4. answer[<<responder.i, n>>].asked /\ ~answer[<<responder.i, n>>].full
        BY <3>1, <3>2 DEF Channels
      <3>5. \A j \in Sessions : s'[j].waiting \subseteq s[j].waiting
        BY <3>1 DEF OnlyAt
      <3> QED
        BY <2>1, <3>1, <3>3, <3>4, <3>5 DEF Channels
    <2> QED
      BY <2>2, <2>3
  <1>11. CASE RespondSend
    <2>1. s' = s /\ responder'.pc = "idle"
      BY <1>11 DEF RespondSend, Idle, At
    <2>2. <<responder.i, responder.n>> \in Turns
      BY <1>0, <1>11, TurnPairs DEF RespondSend
    <2>3. \A i \in Sessions : \A n \in 1..MaxTurns :
             answer'[<<i, n>>] = answer[<<i, n>>] \/ (i = responder.i /\ n = responder.n)
      <3>1. \A u \in Turns : u # <<responder.i, responder.n>> => answer'[u] = answer[u]
        BY <1>11, <2>2 DEF RespondSend, TypeOK
      <3>2. ASSUME NEW i \in Sessions, NEW n \in 1..MaxTurns
            PROVE  answer'[<<i, n>>] = answer[<<i, n>>] \/ (i = responder.i /\ n = responder.n)
        <4>1. <<i, n>> \in Turns
          BY TurnPairs
        <4>2. <<i, n>> = <<responder.i, responder.n>> => i = responder.i /\ n = responder.n
          OBVIOUS
        <4> QED
          BY <3>1, <4>1, <4>2
      <3> QED
        BY <3>2
    <2>4. answer'[<<responder.i, responder.n>>].asked = answer[<<responder.i, responder.n>>].asked
      BY <1>11, <2>2, ZenonT(60) DEF RespondSend, TypeOK
    <2>5. responder.n \notin s[responder.i].waiting /\ answer[<<responder.i, responder.n>>].asked
      BY <1>11 DEF RespondSend, Channels
    <2> QED
      BY <2>1, <2>3, <2>4, <2>5 DEF Channels
  <1>12. ASSUME NEW t \in Turns, PromptSubmit(t) \/ PromptReturns(t) PROVE Channels'
    BY <1>1, <1>12 DEF PromptSubmit, PromptReturns, host
  <1>13. ASSUME NEW t \in Turns, PromptFinish(t) PROVE Channels'
    <2>1. UNCHANGED <<answer, responder>>
      BY <1>13 DEF PromptFinish, host
    <2>2. \A i \in Sessions : s'[i].waiting = s[i].waiting
      BY <1>13, TurnSteps DEF OnlyAt
    <2> QED
      BY <1>1, <2>1, <2>2
  <1>14. ASSUME NEW t \in Turns, NEW timeout \in BOOLEAN, AskReturns(t, timeout)
         PROVE  Channels'
    <2>1. UNCHANGED <<answer, responder>>
      BY <1>14 DEF AskReturns, host
    <2>2. \A i \in Sessions : s'[i].waiting \subseteq s[i].waiting
      BY <1>14, ChannelSteps DEF OnlyAt
    <2> QED
      BY <1>0, <2>1, <2>2, ChannelsKept
  <1>15. ASSUME NEW t \in Turns, Ask(t) PROVE Channels'
    <2>1. responder' = responder /\ ~answer[t].asked
      BY <1>15 DEF Ask, host
    <2>2. t[1] \in Sessions /\ t[2] \in 1..MaxTurns /\ t = <<t[1], t[2]>>
      BY TurnPairs
    <2>3. ~answer[t].full
      BY <2>1, <2>2 DEF Channels
    <2>4. answer'[t].asked /\ ~answer'[t].full /\ \A u \in Turns : u # t => answer'[u] = answer[u]
      BY <1>15, <2>3 DEF Ask, TypeOK
    <2>5. \A i \in Sessions : \A n \in 1..MaxTurns :
             n \in s'[i].waiting => n \in s[i].waiting \/ <<i, n>> = t
      BY <1>15, <2>2, ChannelSteps DEF OnlyAt
    <2>6. ASSUME NEW j \in Sessions, NEW n \in 1..MaxTurns
          PROVE  /\ n \in s'[j].waiting => answer'[<<j, n>>].asked /\ ~answer'[<<j, n>>].full
                 /\ ~answer'[<<j, n>>].asked => ~answer'[<<j, n>>].full
      <3>1. CASE <<j, n>> = t
        BY <2>4, <3>1
      <3>2. CASE <<j, n>> # t
        <4>1. answer'[<<j, n>>] = answer[<<j, n>>]
          BY <2>4, <3>2, TurnPairs
        <4> QED
          BY <2>5, <3>2, <4>1 DEF Channels
      <3> QED
        BY <3>1, <3>2
    <2>7. responder.pc = "send" =>
            /\ answer'[<<responder.i, responder.n>>].asked
            /\ ~answer'[<<responder.i, responder.n>>].full
            /\ responder.n \notin s'[responder.i].waiting
      <3> SUFFICES ASSUME responder.pc = "send"
                   PROVE  /\ answer'[<<responder.i, responder.n>>].asked
                          /\ ~answer'[<<responder.i, responder.n>>].full
                          /\ responder.n \notin s'[responder.i].waiting
        OBVIOUS
      <3>1. /\ answer[<<responder.i, responder.n>>].asked
            /\ ~answer[<<responder.i, responder.n>>].full
            /\ responder.n \notin s[responder.i].waiting
        BY DEF Channels
      <3>2. <<responder.i, responder.n>> # t /\ <<responder.i, responder.n>> \in Turns
        BY <1>0, <2>1, <3>1, TurnPairs
      <3>3. answer'[<<responder.i, responder.n>>] = answer[<<responder.i, responder.n>>]
        BY <2>4, <3>2
      <3> QED
        BY <1>0, <2>5, <3>1, <3>2, <3>3
    <2> QED
      BY <2>1, <2>6, <2>7 DEF Channels
  <1> QED
    BY <1>2, <1>3, <1>4, <1>5, <1>6, <1>7, <1>8, <1>9, <1>10, <1>11, <1>12, <1>13,
       <1>14, <1>15 DEF Next, Interrupt, Respond, Close, Run

-----------------------------------------------------------------------------
(* Restarts.                                                               *)

\* The steps of turns, permission requests and interrupts move neither the
\* goroutines that start, close and restart sessions nor the agents.
LEMMA HostSteps ==
    ASSUME Next
    PROVE  \/ Start \/ Close \/ Restart
           \/ UNCHANGED <<registered, made, agents, open, starter, closer, restarter>>
  <1>1. CASE Send \/ Interrupt \/ Respond
    BY <1>1 DEF Send, SendFind, SendTake, SendStarted, Interrupt, InterruptFind,
                InterruptTake, InterruptCancel, InterruptEmit, Respond, RespondFind,
                RespondClaim, RespondSend
  <1>2. ASSUME NEW t \in Turns, Run(t)
        PROVE  UNCHANGED <<registered, made, agents, open, starter, closer, restarter>>
    BY <1>2 DEF Run, PromptSubmit, Ask, AskReturns, PromptReturns, PromptFinish, host
  <1> QED
    BY <1>1, <1>2 DEF Next

\* RestartSession's own steps are the only ones that move it.
LEMMA RestarterSteps ==
    ASSUME TypeOK, Places, Next
    PROVE  \/ restarter' = restarter
           \/ RestartFind /\ restarter'.pc = "begin"
           \/ RestartBegin /\ restarter'.pc = "idle"
           \/ RestartBegin /\ restarter' = At("resume", restarter.i, 0, agents + 1)
           \/ /\ Marked /\ restarter.pc # "finish"
              /\ restarter'.pc \in {"replace", "discard", "finish"}
              /\ restarter'.i = restarter.i /\ restarter'.a = restarter.a
              /\ restarter'.pc = "replace" => restarter.pc = "resume"
              /\ restarter'.pc = "discard" => restarter.pc = "replace"
           \/ RestartFinish /\ restarter'.pc = "idle"
  <1>1. CASE Start \/ Close
    BY <1>1 DEF Start, StartRegister, StartOpened, Close, CloseUnregister, CloseStop, CloseAgent
  <1>2. CASE RestartFind
    BY <1>2 DEF RestartFind, At
  <1>3. CASE RestartBegin
    BY <1>3, RestartSteps DEF Idle, At
  <1>4. CASE (\E ok \in BOOLEAN : RestartResume(ok)) \/ RestartReplace \/ RestartDiscard
    BY <1>4 DEF RestartResume, RestartReplace, RestartDiscard, Marked, TypeOK, Goroutines
  <1>5. CASE RestartFinish
    BY <1>5 DEF RestartFinish, Idle, At
  <1> QED
    BY <1>1, <1>2, <1>3, <1>4, <1>5, HostSteps DEF Restart

\* Every step leaves the sessions that are being restarted without a turn.
LEMMA RestartsNext ==
    ASSUME TypeOK, Places, Restarts, Next
    PROVE  Restarts'
  <1>1. ASSUME NEW j \in Sessions, s'[j].restarting PROVE s'[j].turnID = 0
    BY <1>1, SessionSteps DEF Restarts, TurnTaken, SameTurn
  <1>2. ASSUME Marked' PROVE s'[restarter'.i].restarting /\ s'[restarter'.i].ready # "no"
    <2>1. CASE RestartBegin
      <3>1. restarter' # Idle
        BY <1>2 DEF Marked, Idle, At
      <3>2. restarter'.i = restarter.i
        BY <2>1, <3>1, RestartSteps DEF At
      <3> QED
        BY <2>1, <3>1, <3>2, RestartSteps
    <2>2. CASE ~RestartBegin
      <3>1. Marked /\ restarter'.i = restarter.i /\ ~RestartFinish
        <4>1. ~RestartFinish
          BY <1>2 DEF Marked, RestartFinish, Idle, At
        <4> QED
          BY <1>2, <2>2, <4>1, RestarterSteps DEF Marked
      <3>2. restarter.i \in Sessions /\ s[restarter.i].restarting /\ s[restarter.i].ready # "no"
        BY <3>1, AtWork DEF Restarts, Marked
      <3> QED
        BY <3>1, <3>2, SessionSteps
    <2> QED
      BY <2>1, <2>2
  <1> QED
    BY <1>1, <1>2 DEF Restarts

\* Every step leaves the prompt of the active turn at the current agent.
LEMMA PromptNext ==
    ASSUME TypeOK, Places, TurnsOnce, Restarts, PromptAtCurrentAgent, Next
    PROVE  PromptAtCurrentAgent'
  <1> USE AntigravityAssumption
  <1> SUFFICES ASSUME NEW i \in Sessions, s'[i].turnID # 0,
                      prompt'[<<i, s'[i].turnID>>].pc \in {"atAgent", "asking"}
               PROVE  prompt'[<<i, s'[i].turnID>>].agent = s'[i].agent
    BY DEF PromptAtCurrentAgent
  <1> DEFINE n == s'[i].turnID
             t == <<i, n>>
  <1>0. /\ s[i].turn \in 0..MaxTurns /\ s[i].turnID \in 0..MaxTurns
        /\ i > made => s[i].turn = 0
        /\ s[i].turnID <= s[i].turn
    BY DEF TypeOK, SessionStates, TurnsOnce
  <1>1. n \in 1..MaxTurns
    <2>1. \/ s'[i].turnID \in {0, s[i].turnID}
          \/ TurnTaken(i)
      BY SessionSteps
    <2>2. TurnTaken(i) => s'[i].turnID \in 1..MaxTurns
      BY DEF TurnTaken
    <2> QED
      BY <1>0, <2>1, <2>2
  <1>2. t \in Turns /\ t[1] = i
    BY <1>1, TurnPairs
  <1>3. CASE TurnTaken(i)
    <2>1. n > s[i].turn /\ prompt' = prompt
      BY <1>0, <1>3 DEF TurnTaken, SendTake
    <2>2. prompt[t].pc = "none"
      BY <1>1, <2>1 DEF TurnsOnce
    <2> QED
      BY <2>1, <2>2
  <1>4. CASE ~TurnTaken(i)
    <2>1. s[i].turnID = n
      BY <1>4, SessionSteps
    <2>2. s'[i].agent = s[i].agent
      <3>1. ~(StartRegister /\ i = made + 1)
        <4>1. i = made + 1 => i > made
          BY DEF TypeOK
        <4> QED
          BY <1>0, <1>1, <2>1, <4>1
      <3>2. ~(RestartReplace /\ i = restarter.i)
        BY <2>1 DEF RestartReplace, Restarts, Marked
      <3> QED
        BY <3>1, <3>2, SessionSteps
    <2>3. prompt[t].pc \in {"atAgent", "asking"} => prompt[t].agent = s[i].agent
      BY <2>1 DEF PromptAtCurrentAgent
    <2>4. CASE PromptSubmit(t)
      <3>1. prompt'[t].agent = s[i].agent
        BY <1>2, <2>4 DEF PromptSubmit, TypeOK
      <3> QED
        BY <2>2, <3>1
    <2> HIDE DEF t
    <2>5. CASE ~PromptSubmit(t)
      <3>1. prompt'[t].pc \in {"atAgent", "asking"}
        BY DEF t
      <3>2. prompt'[t].agent = s'[i].agent
        BY <1>2, <2>2, <2>3, <2>5, <3>1, PromptSteps
      <3> QED
        BY <3>2 DEF t
    <2> QED
      BY <2>4, <2>5
  <1> QED
    BY <1>3, <1>4

-----------------------------------------------------------------------------
(* Agents.                                                                 *)

\* A step that makes no agent, opens none and gives none to a session.
LEMMA OwnedKept ==
    ASSUME TypeOK, Places, Owned, UNCHANGED <<made, agents>>, open' \subseteq open,
           \A i \in Sessions : s'[i].agent = s[i].agent,
           restarter'.pc \in {"resume", "replace", "discard"} =>
              /\ restarter.pc \in {"resume", "replace", "discard"}
              /\ restarter'.a = restarter.a
    PROVE  Owned'
  <1>1. Started' = Started /\ Started \subseteq Sessions
    BY AtWork DEF Started
  <1> QED
    BY <1>1 DEF Owned

\* Every step leaves each agent with one owner.
LEMMA OwnedNext ==
    ASSUME TypeOK, Places, Owned, Opening, Next
    PROVE  Owned'
  <1> USE AntigravityAssumption
  <1>0. /\ Started \subseteq Sessions /\ made \in 0..MaxSessions /\ agents \in 0..MaxAgents
        /\ agents \in Nat /\ made \in Nat
    BY AtWork DEF TypeOK
  <1>1. CASE StartRegister
    <2>1. /\ made' = made + 1 /\ agents' = agents + 1 /\ open' = open /\ restarter' = restarter
          /\ made + 1 \in Sessions
      BY <1>1, StartSteps DEF StartRegister
    <2>2. s'[made + 1].agent = agents + 1 /\ \A j \in Started : s'[j].agent = s[j].agent
      BY <1>0, <1>1, StartSteps DEF OnlyAt, Started
    <2>3. \A j \in Started' : j \in Started \/ j = made + 1
      BY <1>0, <2>1 DEF Started
    <2>4. \A a \in 1..agents : a \in 1..agents' /\ a # agents + 1
      BY <1>0, <2>1
    <2>5. agents + 1 \in 1..agents'
      BY <1>0, <2>1
    <2>6. /\ \A j \in Started : s[j].agent \in 1..agents
          /\ \A j, k \in Started : s[j].agent = s[k].agent => j = k
          /\ open \subseteq 1..agents
          /\ restarter.pc \in {"resume", "replace", "discard"} =>
                restarter.a \in 1..agents /\ \A j \in Started : s[j].agent # restarter.a
      BY DEF Owned
    <2>7. \A j \in Started' : s'[j].agent \in 1..agents'
      BY <2>2, <2>3, <2>4, <2>5, <2>6
    <2>8. \A j, k \in Started' : s'[j].agent = s'[k].agent => j = k
      BY <2>2, <2>3, <2>4, <2>6
    <2>9. open' \subseteq 1..agents'
      BY <2>1, <2>4, <2>6
    <2>10. restarter'.pc \in {"resume", "replace", "discard"} =>
             restarter'.a \in 1..agents' /\ \A j \in Started' : s'[j].agent # restarter'.a
      BY <2>1, <2>2, <2>3, <2>4, <2>6
    <2> QED
      BY <2>7, <2>8, <2>9, <2>10 DEF Owned
  <1>2. ASSUME NEW ok \in BOOLEAN, StartOpened(ok) PROVE Owned'
    <2>1. /\ UNCHANGED <<made, agents, restarter>> /\ starter.pc = "open"
          /\ open' \subseteq open \cup {starter.a}
      BY <1>2 DEF StartOpened
    <2>2. \A i \in Sessions : s'[i].agent = s[i].agent
      BY <1>2, StartSteps DEF OnlyAt
    <2>3. starter.a \in 1..agents
      BY <2>1, AtWork DEF Opening, Owned
    <2>4. Started' = Started
      BY <2>1 DEF Started
    <2> QED
      BY <1>0, <2>1, <2>2, <2>3, <2>4 DEF Owned
  <1>3. CASE Close
    <2>1. UNCHANGED <<made, agents, restarter>> /\ open' \subseteq open
      BY <1>3 DEF Close, CloseUnregister, CloseStop, CloseAgent
    <2>2. \A i \in Sessions : s'[i].agent = s[i].agent
      BY <1>3, ChannelSteps, OtherSteps DEF Close, OnlyAt, SameRest
    <2> QED
      BY <2>1, <2>2, OwnedKept
  <1>4. CASE RestartFind \/ RestartDiscard \/ RestartFinish
    <2>1. UNCHANGED <<made, agents>> /\ open' \subseteq open
      BY <1>4 DEF RestartFind, RestartDiscard, RestartFinish
    <2>2. \A i \in Sessions : s'[i].agent = s[i].agent
      BY <1>4, RestartSteps, OtherSteps DEF OnlyAt
    <2>3. restarter'.pc \notin {"resume", "replace", "discard"}
      BY <1>4 DEF RestartFind, RestartDiscard, RestartFinish, Idle, At, TypeOK, Goroutines
    <2> QED
      BY <2>1, <2>2, <2>3, OwnedKept
  <1>5. CASE RestartBegin
    <2>1. UNCHANGED <<made, open>> /\ Started' = Started
      BY <1>5 DEF RestartBegin, Started
    <2>2. \A i \in Sessions : s'[i].agent = s[i].agent
      BY <1>5, RestartSteps DEF OnlyAt
    <2>3. CASE agents' = agents /\ restarter' = Idle
      <3>1. restarter'.pc \notin {"resume", "replace", "discard"}
        BY <2>3 DEF Idle, At
      <3> QED
        BY <2>1, <2>2, <2>3, <3>1, OwnedKept
    <2>4. CASE ~(agents' = agents /\ restarter' = Idle)
      <3>1. agents' = agents + 1 /\ restarter' = At("resume", restarter.i, 0, agents + 1)
        BY <1>5, <2>4, RestartSteps
      <3>2. restarter'.a = agents + 1 /\ agents + 1 \in 1..agents'
        BY <1>0, <3>1 DEF At
      <3>3. \A a \in 1..agents : a \in 1..agents' /\ a # agents + 1
        BY <1>0, <3>1
      <3>4. /\ \A j \in Started : s'[j].agent \in 1..agents
            /\ \A j, k \in Started : s'[j].agent = s'[k].agent => j = k
            /\ open' \subseteq 1..agents
        BY <1>0, <2>1, <2>2 DEF Owned
      <3>5. \A j \in Started' : s'[j].agent \in 1..agents' /\ s'[j].agent # restarter'.a
        BY <2>1, <3>2, <3>3, <3>4
      <3>6. open' \subseteq 1..agents'
        BY <3>3, <3>4
      <3> QED
        BY <2>1, <3>2, <3>4, <3>5, <3>6 DEF Owned
    <2> QED
      BY <2>3, <2>4
  <1>6. ASSUME NEW ok \in BOOLEAN, RestartResume(ok) PROVE Owned'
    <2>1. UNCHANGED <<made, agents, s>> /\ Started' = Started
      BY <1>6 DEF RestartResume, Started
    <2>2. /\ restarter.pc = "resume" /\ restarter'.a = restarter.a
          /\ open' \subseteq open \cup {restarter.a}
      BY <1>6 DEF RestartResume, TypeOK, Goroutines
    <2> QED
      BY <2>1, <2>2 DEF Owned
  <1>7. CASE RestartReplace
    <2>1. UNCHANGED <<made, agents, open>> /\ Started' = Started /\ restarter.pc = "replace"
      BY <1>7 DEF RestartReplace, Started
    <2>2. CASE s' = s
      <3>1. restarter'.a = restarter.a
        BY <1>7 DEF RestartReplace, TypeOK, Goroutines
      <3> QED
        BY <2>1, <2>2, <3>1, OwnedKept
    <2>3. CASE s' # s
      <3>1. /\ restarter.i \in Sessions /\ OnlyAt(restarter.i)
            /\ s'[restarter.i].agent = restarter.a
            /\ restarter' = [restarter EXCEPT !.pc = "finish"]
        BY <1>7, <2>3, RestartSteps
      <3>2. restarter'.pc = "finish"
        BY <3>1 DEF TypeOK, Goroutines
      <3>3. /\ restarter.a \in 1..agents
            /\ \A j \in Started : s[j].agent # restarter.a
            /\ \A j \in Started : s[j].agent \in 1..agents
            /\ \A j, k \in Started : s[j].agent = s[k].agent => j = k
        BY <2>1 DEF Owned
      <3>4. \A j \in Started : s'[j].agent = IF j = restarter.i THEN restarter.a ELSE s[j].agent
        BY <1>0, <3>1 DEF OnlyAt
      <3>5. \A j, k \in Started : s'[j].agent = s'[k].agent => j = k
        BY <3>3, <3>4
      <3>6. \A j \in Started : s'[j].agent \in 1..agents
        BY <3>3, <3>4
      <3> QED
        BY <2>1, <3>2, <3>5, <3>6 DEF Owned
    <2> QED
      BY <2>2, <2>3
  <1>8. CASE UNCHANGED <<registered, made, agents, open, starter, closer, restarter>>
    <2>1. \/ StartRegister \/ RestartReplace
          \/ \A i \in Sessions : s'[i].agent = s[i].agent
      BY SessionSteps
    <2> QED
      BY <1>1, <1>7, <1>8, <2>1, OwnedKept
  <1> QED
    BY <1>1, <1>2, <1>3, <1>4, <1>5, <1>6, <1>7, <1>8, HostSteps DEF Start, Restart

\* Every step leaves an agent that is being opened to StartSession.
LEMMA OpeningNext ==
    ASSUME TypeOK, Places, Restarts, Owned, Opening, Next
    PROVE  Opening'
  <1> USE AntigravityAssumption
  <1>0. /\ Started \subseteq Sessions /\ made \in Nat /\ agents \in Nat
        /\ starter.pc = "open" => starter.i \in Started
    BY AtWork DEF TypeOK
  <1>a. ASSUME NEW j \in Sessions, j > made' PROVE s'[j].ready = "no"
    <2>1. j > made /\ j \notin Started
      BY <1>0, <1>a, MadeSteps DEF Started, Sessions
    <2>2. ~(j = starter.i /\ \E ok \in BOOLEAN : StartOpened(ok))
      BY <1>0, <2>1 DEF StartOpened
    <2> QED
      BY <2>1, <2>2, SessionSteps DEF Opening
  <1>b. ASSUME starter' = starter, starter.pc = "open"
        PROVE  s'[starter.i].ready = "no" /\ s'[starter.i].agent = starter.a
    <2>1. starter.i \in Sessions /\ starter.i # made + 1
      BY <1>0, <1>b DEF Started
    <2>2. s[starter.i].ready = "no" /\ s[starter.i].agent = starter.a
      BY <1>b DEF Opening
    <2>3. ~\E ok \in BOOLEAN : StartOpened(ok)
      BY <1>b DEF StartOpened, Idle, At
    <2>4. ~(RestartReplace /\ starter.i = restarter.i)
      BY <2>2 DEF RestartReplace, Restarts, Marked
    <2> QED
      BY <2>1, <2>2, <2>3, <2>4, SessionSteps
  <1>c. ASSUME starter' = starter, starter.pc = "open" => starter.a \notin open',
               starter.pc = "open" =>
                  registered' = starter.i \/ (closer'.pc = "ready" /\ closer'.i = starter.i)
        PROVE  Opening'
    BY <1>a, <1>b, <1>c DEF Opening
  <1>1. CASE StartRegister
    <2>1. /\ starter' = At("open", made + 1, 0, agents + 1) /\ registered' = made + 1
          /\ open' = open
      BY <1>1 DEF StartRegister
    <2>2. /\ s'[made + 1].agent = agents + 1 /\ s'[made + 1].ready = s[made + 1].ready
          /\ made + 1 \in Sessions
      BY <1>1, StartSteps
    <2>3. s[made + 1].ready = "no"
      BY <1>0, <2>2 DEF Opening
    <2>4. agents + 1 \notin open
      BY <1>0 DEF Owned
    <2> QED
      BY <1>a, <2>1, <2>2, <2>3, <2>4 DEF Opening, At
  <1>2. ASSUME NEW ok \in BOOLEAN, StartOpened(ok) PROVE Opening'
    <2>1. starter'.pc = "idle"
      BY <1>2 DEF StartOpened, Idle, At
    <2> QED
      BY <1>a, <2>1 DEF Opening
  <1>3. CASE CloseUnregister
    BY <1>c, <1>3 DEF CloseUnregister, Opening, At
  <1>4. CASE CloseStop \/ CloseAgent
    BY <1>c, <1>4 DEF CloseStop, CloseAgent, Opening
  <1>5. ASSUME NEW ok \in BOOLEAN, RestartResume(ok) PROVE Opening'
    <2>1. /\ UNCHANGED <<starter, registered, closer>> /\ open' \subseteq open \cup {restarter.a}
          /\ restarter.pc = "resume"
      BY <1>5 DEF RestartResume
    <2>2. starter.pc = "open" => starter.a # restarter.a
      BY <1>0, <2>1 DEF Opening, Owned
    <2> QED
      BY <1>c, <2>1, <2>2 DEF Opening
  <1>6. CASE RestartFind \/ RestartBegin \/ RestartReplace \/ RestartDiscard \/ RestartFinish
    <2>1. UNCHANGED <<starter, registered, closer>> /\ open' \subseteq open
      BY <1>6 DEF RestartFind, RestartBegin, RestartReplace, RestartDiscard, RestartFinish
    <2> QED
      BY <1>c, <2>1 DEF Opening
  <1>7. CASE UNCHANGED <<registered, made, agents, open, starter, closer, restarter>>
    BY <1>c, <1>7 DEF Opening
  <1> QED
    BY <1>1, <1>2, <1>3, <1>4, <1>5, <1>6, <1>7, HostSteps DEF Start, Close, Restart

\* Only a restart that finds its session registered replaces an agent.
LEMMA ReplacedSteps ==
    ASSUME Next
    PROVE  \/ replaced' = replaced
           \/ /\ RestartReplace /\ registered = restarter.i
              /\ replaced' = replaced \cup {s[restarter.i].agent}
  <1>1. Start \/ Send \/ Interrupt \/ Respond \/ Close => replaced' = replaced
    BY DEF Start, StartRegister, StartOpened, Send, SendFind, SendTake, SendStarted,
           Interrupt, InterruptFind, InterruptTake, InterruptCancel, InterruptEmit,
           Respond, RespondFind, RespondClaim, RespondSend, Close, CloseUnregister, CloseStop,
           CloseAgent
  <1>2. (\E t \in Turns : Run(t)) => replaced' = replaced
    BY DEF Run, PromptSubmit, Ask, PromptReturns, PromptFinish, AskReturns
  <1>3. Restart /\ ~RestartReplace => replaced' = replaced
    BY DEF Restart, RestartFind, RestartBegin, RestartResume, RestartDiscard, RestartFinish
  <1>4. RestartReplace => \/ replaced' = replaced
                         \/ /\ registered = restarter.i
                            /\ replaced' = replaced \cup {s[restarter.i].agent}
    BY DEF RestartReplace
  <1> QED
    BY <1>1, <1>2, <1>3, <1>4 DEF Next

\* Every step leaves every open agent to somebody who will close it.
LEMMA HeldNext ==
    ASSUME TypeOK, Places, Owned, Opening, OpenAgentsAreHeld, Next
    PROVE  OpenAgentsAreHeld'
  <1> USE AntigravityAssumption
  <1>0. /\ Started \subseteq Sessions /\ made \in Nat /\ Started = 1..made
        /\ \A i \in Sessions : i # 0
    BY AtWork DEF TypeOK, Started, Sessions
  <1> DEFINE Hand(a) == restarter.a = a /\ restarter.pc \in {"replace", "discard"}
             Held(a) == (\E i \in 1..made : s[i].agent = a /\ ~Closed(i)) \/ Hand(a)
  <1> SUFFICES ASSUME NEW a \in open', a \notin replaced' PROVE Held(a)'
    BY DEF OpenAgentsAreHeld
  <1>a. Started \subseteq Started'
    BY <1>0, MadeSteps DEF Started
  <1>b. a \in open => Held(a)
    BY ReplacedSteps DEF OpenAgentsAreHeld
  \* A session that holds the agent and is not closed by this step.
  <1>c. ASSUME NEW i \in Started, s[i].agent = a, ~Closed(i)' PROVE Held(a)'
    <2>1. i # made + 1 /\ i \in Sessions
      BY <1>0
    <2>2. ~(RestartReplace /\ i = restarter.i /\ i = registered)
      <3>1. RestartReplace /\ i = restarter.i /\ i = registered => s[i].agent \in replaced'
        BY DEF RestartReplace
      <3> QED
        BY <1>c, <3>1
    <2>3. s'[i].agent = a
      BY <1>c, <2>1, <2>2, SessionSteps
    <2> QED
      BY <1>a, <1>c, <2>3 DEF Started
  \* A step that moves neither the restart nor who is closed.
  <1>d. ASSUME a \in open, restarter' = restarter, \A i \in Started : ~Closed(i) => ~Closed(i)'
        PROVE  Held(a)'
    <2>1. CASE Hand(a)
      BY <1>d, <2>1
    <2>2. CASE \E i \in 1..made : s[i].agent = a /\ ~Closed(i)
      BY <1>0, <1>c, <1>d, <2>2
    <2> QED
      BY <1>b, <1>d, <2>1, <2>2
  <1>1. CASE StartRegister
    <2>1. /\ made' = made + 1 /\ starter.i = 0 /\ registered = 0
          /\ UNCHANGED <<open, closer, restarter>>
      BY <1>1 DEF StartRegister, Places, Placed
    <2>2. \A i \in Started : ~Closed(i) => ~Closed(i)'
      BY <1>0, <2>1 DEF Closed
    <2> QED
      BY <1>d, <2>1, <2>2
  <1>2. ASSUME NEW ok \in BOOLEAN, StartOpened(ok) PROVE Held(a)'
    <2>1. /\ starter.pc = "open" /\ UNCHANGED <<made, closer, restarter>>
          /\ open' = IF ok THEN open \cup {starter.a} ELSE open
          /\ registered' = IF ~ok /\ registered = starter.i THEN 0 ELSE registered
          /\ starter'.i = 0
      BY <1>2 DEF StartOpened, Idle, At
    <2>2. /\ s[starter.i].agent = starter.a /\ starter.a \notin open /\ starter.i \in Started
          /\ registered = starter.i \/ closer.i = starter.i
      BY <2>1, AtWork DEF Opening
    <2>3. CASE ok /\ a = starter.a
      <3>1. PICK i \in Started : i = starter.i
        BY <2>2
      <3>2. ~Closed(i)'
        BY <2>1, <2>2, <2>3, <3>1 DEF Closed
      <3> QED
        BY <1>c, <2>2, <2>3, <3>1, <3>2
    <2>4. CASE a \in open
      <3>1. CASE Hand(a)
        BY <2>1, <3>1
      <3>2. CASE \E i \in 1..made : s[i].agent = a /\ ~Closed(i)
        <4>1. PICK i \in Started : s[i].agent = a /\ ~Closed(i)
          BY <1>0, <3>2
        <4>2. i # starter.i
          BY <2>2, <2>4, <4>1
        <4>3. ~Closed(i)'
          BY <2>1, <4>1, <4>2 DEF Closed
        <4> QED
          BY <1>c, <4>1, <4>3
      <3> QED
        BY <1>b, <2>4, <3>1, <3>2
    <2> QED
      BY <2>1, <2>3, <2>4
  <1>3. CASE CloseUnregister
    <2>1. /\ closer.i = 0 /\ closer'.i = registered /\ UNCHANGED <<made, starter, open, restarter>>
      BY <1>3 DEF CloseUnregister, At, Places, Placed
    <2>2. \A i \in Started : ~Closed(i) => ~Closed(i)'
      BY <1>0, <2>1 DEF Closed
    <2> QED
      BY <1>d, <2>1, <2>2
  <1>4. CASE CloseStop
    <2>1. closer'.i = closer.i /\ UNCHANGED <<starter, open, registered, restarter>>
      BY <1>4 DEF CloseStop, TypeOK, Goroutines
    <2> QED
      BY <1>d, <2>1 DEF Closed
  <1>5. CASE CloseAgent
    <2>1. /\ open' = open \ {s[closer.i].agent}
          /\ UNCHANGED <<made, starter, s, registered, restarter>>
      BY <1>5 DEF CloseAgent
    <2>2. CASE Hand(a)
      BY <2>1, <2>2
    <2>3. CASE \E i \in 1..made : s[i].agent = a /\ ~Closed(i)
      <3>1. PICK i \in Started : s[i].agent = a /\ ~Closed(i)
        BY <1>0, <2>3
      <3>2. i # closer.i
        BY <2>1, <3>1
      <3>3. ~Closed(i)'
        BY <2>1, <3>1, <3>2 DEF Closed
      <3> QED
        BY <1>c, <3>1, <3>3
    <2> QED
      BY <1>b, <2>1, <2>2, <2>3
  <1>6. ASSUME NEW ok \in BOOLEAN, RestartResume(ok) PROVE Held(a)'
    <2>1. /\ UNCHANGED <<starter, closer, registered>> /\ restarter.pc = "resume"
          /\ restarter'.a = restarter.a
          /\ (ok /\ open' = open \cup {restarter.a} /\ restarter'.pc = "replace") \/ open' = open
      BY <1>6 DEF RestartResume, TypeOK, Goroutines
    <2>2. CASE a \notin open
      BY <2>1, <2>2
    <2>3. CASE a \in open
      <3>1. PICK i \in Started : s[i].agent = a /\ ~Closed(i)
        BY <1>0, <1>b, <2>1, <2>3
      <3>2. ~Closed(i)'
        BY <2>1, <3>1 DEF Closed
      <3> QED
        BY <1>c, <3>1, <3>2
    <2> QED
      BY <2>2, <2>3
  <1>7. CASE RestartFind \/ RestartBegin \/ RestartFinish \/ RestartDiscard \/ RestartReplace
    <2>1. /\ UNCHANGED <<starter, closer, registered>> /\ open' \subseteq open
          /\ restarter.pc \notin {"replace", "discard"} \/ RestartDiscard \/ RestartReplace
      BY <1>7 DEF RestartFind, RestartBegin, RestartFinish, RestartDiscard, RestartReplace
    <2>2. CASE \E i \in 1..made : s[i].agent = a /\ ~Closed(i)
      <3>1. PICK i \in Started : s[i].agent = a /\ ~Closed(i)
        BY <1>0, <2>2
      <3>2. ~Closed(i)'
        BY <2>1, <3>1 DEF Closed
      <3> QED
        BY <1>c, <3>1, <3>2
    <2>3. CASE Hand(a) /\ RestartDiscard
      BY <2>3 DEF RestartDiscard
    <2>4. CASE Hand(a) /\ RestartReplace
      <3>1. restarter.i \in Started /\ restarter.i \in Sessions
        BY <1>0, <2>4, AtWork
      <3>2. CASE registered = restarter.i
        <4>1. PICK i \in Started : i = restarter.i
          BY <3>1
        <4>2. s'[i].agent = a
          <5>1. s' = [s EXCEPT ![i].agent = restarter.a]
            BY <2>4, <3>2, <4>1 DEF RestartReplace
          <5>2. restarter.a \in 0..MaxAgents /\ i \in Sessions
            BY <3>1, <4>1 DEF TypeOK, Goroutines
          <5> QED
            BY <2>4, <5>1, <5>2, AgentSet
        <4>3. ~Closed(i)'
          BY <2>1, <3>2, <4>1 DEF Closed
        <4> QED
          BY <1>a, <4>2, <4>3 DEF Started
      <3>3. CASE registered # restarter.i
        <4>1. restarter' = [restarter EXCEPT !.pc = "discard"]
          BY <2>4, <3>3 DEF RestartReplace
        <4>2. restarter'.pc = "discard" /\ restarter'.a = a
          BY <2>4, <4>1 DEF TypeOK, Goroutines
        <4> QED
          BY <4>2
      <3> QED
        BY <3>2, <3>3
    <2> QED
      BY <1>b, <2>1, <2>2, <2>3, <2>4
  <1>8. CASE UNCHANGED <<registered, made, agents, open, starter, closer, restarter>>
    BY <1>d, <1>8 DEF Closed
  <1> QED
    BY <1>1, <1>2, <1>3, <1>4, <1>5, <1>6, <1>7, <1>8, HostSteps DEF Start, Close, Restart

-----------------------------------------------------------------------------
(* The theorems.                                                           *)

\* The adapter begins with no session.
LEMMA InvInit == Init => Inv
  <1> SUFFICES ASSUME Init PROVE Inv
    OBVIOUS
  <1> USE AntigravityAssumption DEF Init
  <1>1. TypeOK
    <2>1. NewSession \in SessionStates
      BY DEF NewSession, SessionStates
    <2>2. \A P : Idle \in Goroutines(P)
      BY DEF Idle, At, Goroutines
    <2> QED
      BY <2>1, <2>2 DEF TypeOK, Prompts
  <1>2. /\ Started = {} /\ registered = 0
        /\ starter.pc = "idle" /\ starter.i = 0 /\ sender.pc = "idle" /\ sender.i = 0
        /\ interrupter.pc = "idle" /\ interrupter.i = 0 /\ closer.pc = "idle" /\ closer.i = 0
        /\ restarter.pc = "idle" /\ restarter.i = 0 /\ responder.pc = "idle" /\ responder.i = 0
    BY DEF Started, Idle, At
  <1>3. \A i \in Sessions : /\ s[i].turn = 0 /\ s[i].turnID = 0 /\ ~s[i].restarting
                            /\ s[i].waiting = {} /\ s[i].ready = "no"
    BY DEF NewSession
  <1>4. ASSUME NEW i \in Sessions, NEW n \in 1..MaxTurns
        PROVE  /\ ends[<<i, n>>] = 0 /\ prompt[<<i, n>>].pc = "none"
               /\ ~answer[<<i, n>>].full
    BY TurnPairs
  <1>5. Places
    BY <1>2 DEF Places, Placed
  <1>6. TurnsOnce
    BY <1>2, <1>3, <1>4 DEF TurnsOnce, Taken
  <1>7. Channels
    BY <1>2, <1>3, <1>4 DEF Channels
  <1>8. Restarts
    BY <1>2, <1>3 DEF Restarts, Marked
  <1>9. Owned /\ Opening
    BY <1>2, <1>3 DEF Owned, Opening
  <1>10. OpenAgentsAreHeld /\ PromptAtCurrentAgent
    BY <1>3 DEF OpenAgentsAreHeld, PromptAtCurrentAgent
  <1> QED
    BY <1>1, <1>5, <1>6, <1>7, <1>8, <1>9, <1>10 DEF Inv

\* A step that changes nothing.
LEMMA InvStutter ==
    ASSUME Inv, UNCHANGED vars
    PROVE  Inv'
  <1> USE DEF vars
  <1>1. TypeOK' /\ Places'
    BY DEF Inv, TypeOK, Places, Placed, Started
  <1>2. TurnsOnce' /\ Channels'
    BY DEF Inv, TurnsOnce, Taken, Channels
  <1>3. Restarts' /\ Owned' /\ Opening'
    BY DEF Inv, Restarts, Marked, Owned, Opening, Started
  <1>4. OpenAgentsAreHeld' /\ PromptAtCurrentAgent'
    BY DEF Inv, OpenAgentsAreHeld, Closed, PromptAtCurrentAgent
  <1> QED
    BY <1>1, <1>2, <1>3, <1>4 DEF Inv

\* The inductive invariant: where the goroutines are, who holds each turn,
\* each permission channel and each agent.
THEOREM Invariance == Spec => []Inv
  <1>1. Inv /\ [Next]_vars => Inv'
    <2>1. ASSUME Inv, Next PROVE Inv'
      BY <2>1, TypeNext, PlacesNext, TurnsNext, ChannelsNext, RestartsNext, OwnedNext,
         OpeningNext, HeldNext, PromptNext DEF Inv
    <2> QED
      BY <2>1, InvStutter
  <1> QED
    BY <1>1, InvInit, PTL DEF Spec

\* A turn ends at most once (runPrompt, InterruptTurn, CloseSession): for every
\* number of sessions and turns, only the goroutine that took turnID emits
\* the turn's terminal event.
THEOREM EndsOnce == Spec => []OneEnd
  <1>1. ASSUME Inv PROVE OneEnd
    <2>1. ASSUME NEW t \in Turns PROVE ends[t] <= 1
      BY <1>1, TurnPairs DEF Inv, TurnsOnce
    <2> QED
      BY <2>1 DEF OneEnd
  <1> QED
    BY <1>1, Invariance, PTL

\* RespondInteraction never blocks on the channel it took out of the map.
THEOREM AnswerIsDelivered == Spec => []ResponderHasRoom
  <1>1. Inv => ResponderHasRoom
    BY DEF Inv, Channels, ResponderHasRoom
  <1> QED
    BY <1>1, Invariance, PTL

\* RestartSession replaces the agent of no running turn, and its race with
\* CloseSession leaves open no agent but the ones that were replaced: every
\* other open agent is one that CloseSession or the restart will close.
THEOREM RestartIsSafe == Spec => []RestartIsClean
  <1>1. Inv => RestartIsClean
    BY DEF Inv, RestartIsClean
  <1> QED
    BY <1>1, Invariance, PTL
=============================================================================
