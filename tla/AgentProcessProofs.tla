------------------------- MODULE AgentProcessProofs -------------------------
(* What AgentProcess promises its callers, for every set of calls and      *)
(* requests, every pipe, and every behaviour of the agent.                 *)
EXTENDS AgentProcess, TLAPS

\* Who may send on a call's channel: a call in p.pending has not been
\* answered, and one that has not begun is neither pending nor answered.
Unanswered ==
    \A c \in Calls :
        /\ c \in pending => replies[c] = << >>
        /\ pc[c] = "new" => c \notin pending /\ replies[c] = << >>

\* The IDs the agent reads from calls are those of calls.
CallIDs == \A i \in 1..Len(stdin) : stdin[i].kind = "call" => stdin[i].id \in Calls

\* A running handler can be reached by the next closePending, or was reached
\* by an earlier one.
HandlersKnown ==
    \A r \in Requests : handler[r] = "running" => r \in inbound \cup cancelled

\* What the read loop's closePending has done by each of its stages.
ReaderStages ==
    /\ at["reader"] \in {"close_pending", "over"} => done
    /\ at["reader"] = "over" => inbound = {} /\ \A c \in pending : pc[c] = "registered"

\* The inductive invariant.
Inv == TypeOK /\ Unanswered /\ CallIDs /\ HandlersKnown /\ ReaderStages

-----------------------------------------------------------------------------
(* The pipes.                                                              *)

\* A message appended to a pipe is its last, and the others stay.
LEMMA Appended ==
    ASSUME NEW S, NEW q \in Seq(S), NEW e \in S
    PROVE  /\ Append(q, e) \in Seq(S)
           /\ Len(Append(q, e)) = Len(q) + 1
           /\ \A i \in 1..Len(q) : Append(q, e)[i] = q[i]
           /\ Append(q, e)[Len(q) + 1] = e
  OBVIOUS

\* Reading a pipe takes its first message.
LEMMA Taken ==
    ASSUME NEW S, NEW q \in Seq(S), q # << >>
    PROVE  /\ Head(q) \in S /\ Head(q) = q[1] /\ Len(q) \in Nat \ {0}
           /\ Tail(q) \in Seq(S)
           /\ Len(Tail(q)) = Len(q) - 1
           /\ \A i \in 1..Len(Tail(q)) : Tail(q)[i] = q[i + 1]
  OBVIOUS

\* A channel with room for one answer.
LEMMA OneSlot ==
    ASSUME NEW e
    PROVE  Append(<< >>, e) = <<e>> /\ Tail(<<e>>) = << >>
  OBVIOUS

InMessages == [kind : {"call", "cancel", "reply"}, id : Calls \cup Requests]
OutMessages == [kind : {"reply", "request", "cancel"}, id : Calls \cup Requests]

\* What writeMessage leaves in the agent's standard input.
LEMMA Written ==
    ASSUME stdin \in Seq(InMessages), CallIDs,
           NEW k \in {"call", "cancel", "reply"}, NEW id \in Calls \cup Requests,
           k = "call" => id \in Calls,
           WriteSucceeds(k, id)
    PROVE  stdin' \in Seq(InMessages) /\ CallIDs'
  <1>1. Msg(k, id) \in InMessages
    BY DEF Msg, InMessages
  <1>2. stdin' = Append(stdin, Msg(k, id))
    BY DEF WriteSucceeds
  <1>3. /\ stdin' \in Seq(InMessages) /\ Len(stdin') = Len(stdin) + 1
        /\ \A i \in 1..Len(stdin) : stdin'[i] = stdin[i]
        /\ stdin'[Len(stdin) + 1] = Msg(k, id)
    BY <1>1, <1>2, Appended
  <1>4. Len(stdin) \in Nat
    OBVIOUS
  <1>5. ASSUME NEW i \in 1..Len(stdin'), stdin'[i].kind = "call"
        PROVE  stdin'[i].id \in Calls
    <2>1. CASE i \in 1..Len(stdin)
      BY <1>3, <1>5, <2>1 DEF CallIDs
    <2>2. CASE i = Len(stdin) + 1
      BY <1>3, <1>5, <2>2 DEF Msg
    <2> QED
      BY <1>3, <1>4, <2>1, <2>2
  <1> QED
    BY <1>3, <1>5 DEF CallIDs

-----------------------------------------------------------------------------
(* Every step preserves the invariant.                                     *)

\* A process that has just started.
LEMMA InitInv == Init => Inv
  <1> SUFFICES ASSUME Init PROVE Inv
    OBVIOUS
  <1>1. stdin \in Seq(InMessages) /\ stdout \in Seq(OutMessages)
    BY DEF Init
  <1>2. TypeOK
    BY <1>1 DEF Init, TypeOK, Actors, InMessages, OutMessages
  <1>3. Unanswered /\ CallIDs /\ HandlersKnown /\ ReaderStages
    BY DEF Init, Unanswered, CallIDs, HandlersKnown, ReaderStages, Actors
  <1> QED
    BY <1>2, <1>3 DEF Inv

\* Call: registering, writing, waiting and returning.
LEMMA CallInv ==
    ASSUME Inv, NEW c \in Calls,
           Register(c) \/ CheckDone(c) \/ WriteCall(c) \/ Select(c)
             \/ SendCancel(c) \/ ContextEnds(c)
    PROVE  Inv'
  <1> USE DEF Inv, TypeOK, Unanswered, HandlersKnown, ReaderStages,
              handlerVars, procVars, agentVars, Goes, Actors
  <1>1. CASE Register(c)
    BY <1>1 DEF Register, CallIDs
  <1>2. CASE CheckDone(c)
    BY <1>2 DEF CheckDone, CallIDs
  <1>3. CASE WriteCall(c)
    <2>1. CASE WriteSucceeds("call", c) /\ Goes(c, "waiting") /\ UNCHANGED pending
      <3>1. stdin' \in Seq(InMessages) /\ CallIDs'
        BY <2>1, Written DEF InMessages
      <3> QED
        BY <1>3, <2>1, <3>1 DEF WriteCall, InMessages
    <2>2. CASE WriteFails /\ pending' = pending \ {c} /\ Goes(c, "returned") /\ UNCHANGED stdin
      BY <1>3, <2>2 DEF WriteCall, CallIDs
    <2> QED
      BY <1>3, <2>1, <2>2 DEF WriteCall
  <1>4. CASE GetsReply(c)
    <2>1. Tail(replies[c]) = << >>
      <3>1. replies[c] = <<"reply">> \/ replies[c] = <<"exited">>
        BY <1>4 DEF GetsReply
      <3> QED
        BY <3>1, OneSlot
    <2>2. replies' = [replies EXCEPT ![c] = << >>]
      BY <1>4, <2>1 DEF GetsReply
    <2> QED
      BY <1>4, <2>2 DEF GetsReply, CallIDs
  <1>5. CASE GetsDone(c)
    BY <1>5 DEF GetsDone, CallIDs
  <1>6. CASE GetsContext(c)
    BY <1>6 DEF GetsContext, CallIDs
  <1>7. CASE SendCancel(c)
    <2>1. stdin' \in Seq(InMessages) /\ CallIDs'
      <3>1. CASE WriteSucceeds("cancel", c)
        BY <3>1, Written DEF InMessages
      <3>2. CASE UNCHANGED stdin
        BY <3>2 DEF InMessages, CallIDs
      <3> QED
        BY <1>7, <3>1, <3>2 DEF SendCancel
    <2> QED
      BY <1>7, <2>1 DEF SendCancel, InMessages
  <1>8. CASE ContextEnds(c)
    BY <1>8 DEF ContextEnds, CallIDs
  <1> QED
    BY <1>1, <1>2, <1>3, <1>4, <1>5, <1>6, <1>7, <1>8 DEF Select

\* What readLoop does with a message, and with the end of them.
LEMMA ReaderInv ==
    ASSUME Inv, Reader
    PROVE  Inv'
  <1> USE DEF Inv, TypeOK, Unanswered, HandlersKnown, ReaderStages, CallIDs,
              callVars, handlerVars, procVars, agentVars, Actors
  <1>1. ASSUME NEW k, NEW id, Reads(k, id)
        PROVE  stdout' \in Seq(OutMessages) /\ at["reader"] = "working"
    BY <1>1, Taken DEF Reads, OutMessages
  <1>2. ASSUME NEW c \in Calls, ReadReply(c) PROVE Inv'
    <2>1. stdout' \in Seq(OutMessages) /\ at["reader"] = "working"
      BY <1>1, <1>2 DEF ReadReply
    <2>2. CASE c \in pending
      <3>1. replies' = [replies EXCEPT ![c] = <<"reply">>]
        <4>1. replies[c] = << >> /\ replies' = [replies EXCEPT ![c] = Append(replies[c], "reply")]
          BY <1>2, <2>2 DEF ReadReply
        <4> QED
          BY <4>1, OneSlot
      <3> QED
        BY <1>2, <2>1, <2>2, <3>1 DEF ReadReply, Reads, OutMessages
    <2>3. CASE c \notin pending
      BY <1>2, <2>1, <2>3 DEF ReadReply, Reads, OutMessages
    <2> QED
      BY <2>2, <2>3
  <1>3. ASSUME NEW r \in Requests, handleRequest(r) PROVE Inv'
    <2>1. stdout' \in Seq(OutMessages) /\ at["reader"] = "working"
      BY <1>1, <1>3 DEF handleRequest
    <2> QED
      BY <1>3, <2>1 DEF handleRequest, Reads, OutMessages
  <1>4. ASSUME NEW r \in Requests, handleCancel(r) PROVE Inv'
    <2>1. stdout' \in Seq(OutMessages) /\ at["reader"] = "working"
      BY <1>1, <1>4 DEF handleCancel
    <2> QED
      BY <1>4, <2>1 DEF handleCancel, Reads, OutMessages
  <1>5. CASE ReaderEnds
    BY <1>5 DEF ReaderEnds
  <1> QED
    BY <1>2, <1>3, <1>4, <1>5 DEF Reader

\* The handler of an inbound request, and its response.
LEMMA HandlerInv ==
    ASSUME Inv, NEW r \in Requests, HandlerReturns(r) \/ writeResponse(r)
    PROVE  Inv'
  <1> USE DEF Inv, TypeOK, Unanswered, HandlersKnown, ReaderStages,
              callVars, procVars, agentVars, Actors
  <1>1. CASE HandlerReturns(r)
    BY <1>1 DEF HandlerReturns, CallIDs
  <1>2. CASE writeResponse(r)
    <2>1. stdin' \in Seq(InMessages) /\ CallIDs'
      <3>1. CASE WriteSucceeds("reply", r)
        BY <3>1, Written DEF InMessages
      <3>2. CASE UNCHANGED stdin
        BY <3>2 DEF InMessages, CallIDs
      <3> QED
        BY <1>2, <3>1, <3>2 DEF writeResponse
    <2> QED
      BY <1>2, <2>1 DEF writeResponse, InMessages
  <1> QED
    BY <1>1, <1>2

\* Close, the exit that Wait sees, and closePending whoever runs it.
LEMMA CloseInv ==
    ASSUME Inv,
           \/ WaitReturns \/ Close \/ Kill \/ CloseSeesExit
           \/ \E a \in Actors : CloseDone(a) \/ ReleaseAll(a)
    PROVE  Inv'
  <1> USE DEF Inv, TypeOK, Unanswered, HandlersKnown, ReaderStages, CallIDs,
              callVars, handlerVars, procVars, agentVars
  <1>1. CASE WaitReturns
    BY <1>1 DEF WaitReturns, Actors
  <1>2. CASE Close
    BY <1>2 DEF Close
  <1>3. CASE Kill
    BY <1>3 DEF Kill
  <1>4. CASE CloseSeesExit
    BY <1>4 DEF CloseSeesExit, Actors
  <1>5. ASSUME NEW a \in Actors, CloseDone(a) PROVE Inv'
    BY <1>5 DEF CloseDone, Actors
  <1>6. ASSUME NEW a \in Actors, ReleaseAll(a) PROVE Inv'
    <2>1. replies' = [c \in Calls |-> IF c \in pending THEN <<"exited">> ELSE replies[c]]
      <3>1. \A c \in pending : Append(replies[c], "exited") = <<"exited">>
        BY OneSlot
      <3>2. pending \subseteq Calls
        OBVIOUS
      <3> QED
        BY <1>6, <3>1, <3>2 DEF ReleaseAll
    <2>2. /\ cancelled' = cancelled \cup inbound /\ inbound' = {} /\ pending' = {}
          /\ at' = [at EXCEPT ![a] = "over"] /\ at[a] = "close_pending"
          /\ UNCHANGED <<pc, ended, handler, done, stdinOpen, alive, stdout, asked, stdin>>
      BY <1>6 DEF ReleaseAll
    <2>3. replies' \in [Calls -> {<< >>, <<"reply">>, <<"exited">>}]
      BY <2>1
    <2>4. \A c \in Calls : pc[c] = "new" => replies'[c] = << >>
      BY <2>1
    <2> QED
      BY <2>2, <2>3, <2>4 DEF Actors
  <1> QED
    BY <1>1, <1>2, <1>3, <1>4, <1>5, <1>6

\* The agent.
LEMMA AgentInv ==
    ASSUME Inv, AgentReads \/ AgentSends \/ AgentExits
    PROVE  Inv'
  <1> USE DEF Inv, TypeOK, Unanswered, HandlersKnown, ReaderStages,
              callVars, handlerVars, procVars, agentVars
  <1>1. CASE AgentReads
    <2>1. /\ Head(stdin) \in InMessages /\ Head(stdin) = stdin[1] /\ Len(stdin) \in Nat \ {0}
          /\ stdin' \in Seq(InMessages) /\ Len(stdin') = Len(stdin) - 1
          /\ \A i \in 1..Len(stdin') : stdin'[i] = stdin[i + 1]
      BY <1>1, Taken, ZenonT(60) DEF AgentReads, InMessages
    <2>2. CallIDs'
      <3>1. ASSUME NEW i \in 1..Len(stdin'), stdin'[i].kind = "call"
            PROVE  stdin'[i].id \in Calls
        <4>1. i + 1 \in 1..Len(stdin) /\ stdin'[i] = stdin[i + 1]
          BY <2>1
        <4> QED
          BY <3>1, <4>1 DEF CallIDs
      <3> QED
        BY <3>1 DEF CallIDs
    <2>3. asked' \in SUBSET Calls
      BY <1>1, <2>1 DEF AgentReads, CallIDs
    <2> QED
      BY <1>1, <2>1, <2>2, <2>3 DEF AgentReads, InMessages
  <1>2. ASSUME NEW k \in {"reply", "request", "cancel"}, NEW id \in Calls \cup Requests,
               AgentWrites(k, id)
        PROVE  Inv'
    <2>1. Msg(k, id) \in OutMessages
      BY DEF Msg, OutMessages
    <2>2. stdout' \in Seq(OutMessages)
      BY <1>2, <2>1, Appended DEF AgentWrites, OutMessages
    <2> QED
      BY <1>2, <2>2 DEF AgentWrites, OutMessages, CallIDs
  <1>3. CASE AgentSends
    BY <1>2, <1>3 DEF AgentSends
  <1>4. CASE AgentExits
    BY <1>4 DEF AgentExits, CallIDs
  <1> QED
    BY <1>1, <1>3, <1>4

\* The invariant holds in every reachable state.
THEOREM Invariance == Spec => []Inv
  <1>1. Inv /\ [Next]_vars => Inv'
    <2> SUFFICES ASSUME Inv, [Next]_vars PROVE Inv'
      OBVIOUS
    <2>1. CASE UNCHANGED vars
      BY <2>1 DEF vars, callVars, handlerVars, procVars, agentVars, Inv, TypeOK,
                  Unanswered, CallIDs, HandlersKnown, ReaderStages
    <2>2. CASE Next
      BY <2>2, CallInv, ReaderInv, HandlerInv, CloseInv, AgentInv DEF Next
    <2> QED
      BY <2>1, <2>2
  <1> QED
    BY InitInv, <1>1, PTL DEF Spec

\* A call is answered at most once, whatever readLoop and the three callers of
\* closePending do: no send on its channel, which has room for one answer and
\* is made with p.mu held in closePending, ever blocks.
THEOREM OneAnswer == Spec => []TypeOK
  <1>1. Inv => TypeOK
    BY DEF Inv
  <1> QED
    BY <1>1, Invariance, PTL

\* Once the read loop is through closePending no call is left waiting for an
\* answer that cannot come and no handler runs on without a cancelled context.
THEOREM Release == Spec => []AllReleased
  <1>1. Inv => AllReleased
    BY DEF Inv, HandlersKnown, ReaderStages, AllReleased
  <1> QED
    BY <1>1, Invariance, PTL
=============================================================================
