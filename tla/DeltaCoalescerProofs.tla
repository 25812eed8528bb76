------------------------ MODULE DeltaCoalescerProofs ------------------------
(* What DeltaCoalescer promises, for every set of streams and any number   *)
(* and length of messages.                                                 *)
EXTENDS DeltaCoalescer, TLAPS

\* What is in a sequence, and what a producer, having released the mutex, is
\* still to deliver.
Items(q) == {q[i] : i \in 1..Len(q)}
Held(p) == Items(out[p])

\* All snapshots in delivery.
Pending == late \cup Held("reader") \cup Held("prompt")

\* The pending text is the text received of the latest message, and there is
\* none once the coalescer is closed.
TextCurrent ==
    /\ stream # NoStream => message \in Messages /\ received[message] = text
    /\ closed => stream = NoStream

\* Nothing has been received of, or delivered for, a message not begun.
NotBegun == \A m \in Messages : m > message => received[m] = 0

\* No snapshot is longer than what was received of its message.
NoneTooLong ==
    /\ \A e \in Pending : e # OtherEvent =>
          e.message \in 1..message /\ e.length \in 1..received[e.message]
    /\ \A m \in Messages : shown[m] <= best[m] /\ best[m] <= received[m]

\* The text received of a message was delivered, is being delivered, or is
\* gathered.
Accounted ==
    \A m \in Messages :
        \/ best[m] = received[m]
        \/ Snapshot(m, received[m]) \in Pending
        \/ m = message /\ Unflushed

\* What the read loop and the prompt deliver is all that is received of its
\* message: the read loop takes no delta while it delivers, and what the prompt
\* flushed was cleared.
ProducersFull ==
    /\ \A e \in Held("reader") \cup Held("prompt") :
          e # OtherEvent => e.length = received[e.message]
    /\ \A e \in Held("prompt") : e.message = message => message = 0 \/ stream = NoStream

\* The inductive invariant.
Inv ==
    /\ TypeOK /\ TextCurrent /\ NotBegun /\ NoneTooLong /\ Accounted
    /\ ProducersFull

-----------------------------------------------------------------------------
(* What flushLocked and its callers put up for delivery.                   *)

\* An empty queue delivers nothing.
LEMMA NoItems == Items(<< >>) = {}
  BY DEF Items

\* A queue of one snapshot.
LEMMA OneItem ==
    ASSUME NEW S, NEW x \in S
    PROVE  <<x>> \in Seq(S) /\ Items(<<x>>) = {x} /\ << >> \o <<x>> = <<x>>
  BY DEF Items

\* A queue of two.
LEMMA TwoItems ==
    ASSUME NEW S, NEW x \in S, NEW y \in S
    PROVE  <<x>> \o <<y>> \in Seq(S) /\ Items(<<x>> \o <<y>>) = {x, y}
  <1>1. <<x>> \in Seq(S) /\ <<y>> \in Seq(S)
    OBVIOUS
  <1>2. /\ <<x>> \o <<y>> \in Seq(S) /\ Len(<<x>> \o <<y>>) = 2
        /\ (<<x>> \o <<y>>)[1] = x /\ (<<x>> \o <<y>>)[2] = y
    BY <1>1
  <1>3. 1..2 = {1, 2}
    OBVIOUS
  <1> QED
    BY <1>2, <1>3 DEF Items

\* What is left once the first has been delivered.
LEMMA RestItems ==
    ASSUME NEW S, NEW q \in Seq(S), q # << >>
    PROVE  /\ Head(q) \in S /\ Tail(q) \in Seq(S)
           /\ Items(q) = {Head(q)} \cup Items(Tail(q))
  <1>1. /\ Head(q) \in S /\ Head(q) = q[1] /\ Len(q) \in Nat \ {0}
        /\ Tail(q) \in Seq(S) /\ Len(Tail(q)) = Len(q) - 1
        /\ \A i \in 1..Len(q) - 1 : Tail(q)[i] = q[i + 1]
    OBVIOUS
  <1>2. Items(q) \subseteq {Head(q)} \cup Items(Tail(q))
    <2> SUFFICES ASSUME NEW i \in 1..Len(q) PROVE q[i] \in {Head(q)} \cup Items(Tail(q))
      BY DEF Items
    <2>1. CASE i = 1
      BY <1>1, <2>1
    <2>2. CASE i # 1
      <3>1. i - 1 \in 1..Len(Tail(q)) /\ Tail(q)[i - 1] = q[i]
        BY <1>1, <2>2
      <3> QED
        BY <3>1 DEF Items
    <2> QED
      BY <2>1, <2>2
  <1>3. {Head(q)} \cup Items(Tail(q)) \subseteq Items(q)
    <2>1. Head(q) \in Items(q)
      BY <1>1 DEF Items
    <2>2. ASSUME NEW i \in 1..Len(Tail(q)) PROVE Tail(q)[i] \in Items(q)
      <3>1. i + 1 \in 1..Len(q) /\ Tail(q)[i] = q[i + 1]
        BY <1>1
      <3> QED
        BY <3>1 DEF Items
    <2> QED
      BY <2>1, <2>2 DEF Items
  <1> QED
    BY <1>1, <1>2, <1>3

\* flushLocked's snapshot, as a set.
Flushed == IF Unflushed THEN {Snapshot(message, text)} ELSE {}

\* What a producer holds that had nothing and flushes ahead of x.
LEMMA FlushAhead ==
    ASSUME TypeOK, NEW x \in Snapshots
    PROVE  Flush \o <<x>> \in Seq(Snapshots) /\ Items(Flush \o <<x>>) = Flushed \cup {x}
  <1>1. CASE Unflushed
    <2>1. Snapshot(message, text) \in Snapshots
      BY DEF TypeOK, Snapshot, Snapshots
    <2>2. Flush = <<Snapshot(message, text)>>
      BY <1>1 DEF Flush
    <2> QED
      BY <1>1, <2>1, <2>2, TwoItems DEF Flushed
  <1>2. CASE ~Unflushed
    BY <1>2, OneItem DEF Flush, Flushed
  <1> QED
    BY <1>1, <1>2

\* A producer p that held nothing now holds the items of q, the other what it
\* held.
LEMMA HeldBy ==
    ASSUME TypeOK, NEW p \in Producers, NEW q \in Seq(Snapshots),
           out' = [out EXCEPT ![p] = q]
    PROVE  /\ out' \in [Producers -> Seq(Snapshots)]
           /\ Held(p)' = Items(q)
           /\ \A o \in Producers \ {p} : Held(o)' = Held(o)
  BY DEF TypeOK, Held, Producers
-----------------------------------------------------------------------------
(* Every step preserves the invariant.                                     *)

\* The parts of the invariant that are about values.
Values == TextCurrent /\ NotBegun /\ NoneTooLong /\ Accounted /\ ProducersFull

\* A coalescer that has just been made.
LEMMA InitInv == Init => Inv
  <1> SUFFICES ASSUME Init PROVE Inv
    OBVIOUS
  <1>1. Held("reader") = {} /\ Held("prompt") = {}
    BY NoItems DEF Init, Held, Producers
  <1>2. TypeOK
    <2>1. out \in [Producers -> Seq(Snapshots)] /\ late \in SUBSET Snapshots
      BY DEF Init
    <2>2. closed \in BOOLEAN
      BY DEF Init
    <2>3. /\ stream \in Streams \cup {NoStream} /\ text \in 0..MaxText /\ flushed \in 0..text
          /\ message \in 0..MaxMessages /\ timer \in {"nil", "armed", "fired"}
          /\ orphans \in Nat /\ callbacks \in Nat
      BY TextAssumption DEF Init
    <2>4. /\ received \in [Messages -> 0..MaxText] /\ best \in [Messages -> 0..MaxText]
          /\ shown \in [Messages -> 0..MaxText]
      BY TextAssumption DEF Init
    <2> QED
      BY <2>1, <2>2, <2>3, <2>4 DEF TypeOK
  <1>3. Values
    BY <1>1, <1>2 DEF Init, Values, TextCurrent, NotBegun, NoneTooLong, Accounted,
                      ProducersFull, Pending, TypeOK
  <1> QED
    BY <1>2, <1>3 DEF Inv, Values

\* clearLocked's timer.Stop leaves the timers well-typed.
LEMMA StopTimerType ==
    ASSUME TypeOK, StopTimer
    PROVE  timer' \in {"nil", "armed", "fired"} /\ orphans' \in Nat /\ callbacks' \in Nat
  BY DEF TypeOK, StopTimer

\* The first delta of a message.
LEMMA BeginsInv ==
    ASSUME Inv, NEW k \in Streams, DeltaBegins(k)
    PROVE  Inv'
  <1> DEFINE first == Snapshot(message + 1, 1)
  <1>1. first \in Snapshots /\ message + 1 \in Messages /\ first # OtherEvent
    BY TextAssumption DEF DeltaBegins, Inv, TypeOK, Snapshot, Snapshots, Messages, OtherEvent
  <1>2. out["reader"] = << >> /\ Held("reader") = {}
    BY NoItems DEF DeltaBegins, Ready, Held
  <1>3. /\ out' \in [Producers -> Seq(Snapshots)]
        /\ Held("reader")' = Flushed \cup {first} /\ Held("prompt")' = Held("prompt")
    BY <1>1, FlushAhead, HeldBy DEF DeltaBegins, Inv, Producers
  <1>4. /\ message' = message + 1 /\ stream' = k /\ text' = 1 /\ flushed' = 1
        /\ received' = [received EXCEPT ![message + 1] = 1] /\ ~closed /\ ~closed'
        /\ closed' = closed
        /\ UNCHANGED <<late, best, shown>>
    BY DEF DeltaBegins, delivered, Ready
  <1>5. TypeOK'
    <2>1. received' \in [Messages -> 0..MaxText]
      BY <1>1, <1>4, TextAssumption DEF Inv, TypeOK
    <2>2. timer' \in {"nil", "armed", "fired"} /\ orphans' \in Nat /\ callbacks' \in Nat
      BY StopTimerType DEF DeltaBegins, Inv
    <2>3. text' \in 0..MaxText /\ flushed' \in 0..text' /\ message' \in 0..MaxMessages
      BY <1>1, <1>4, TextAssumption DEF Messages
    <2>4. closed' \in BOOLEAN
      BY <1>4 DEF Inv, TypeOK
    <2> QED
      BY <1>3, <1>4, <2>1, <2>2, <2>3, <2>4 DEF Inv, TypeOK
  <1>6. /\ \A m \in Messages \ {message + 1} : received'[m] = received[m]
        /\ received'[message + 1] = 1 /\ received[message + 1] = 0
        /\ best[message + 1] = 0 /\ shown[message + 1] = 0
    BY <1>1, <1>4 DEF Inv, TypeOK, Messages, NotBegun, NoneTooLong
  <1>7. TextCurrent'
    BY <1>1, <1>4, <1>6 DEF TextCurrent
  <1>8. NotBegun'
    BY <1>1, <1>4, <1>6 DEF Inv, TypeOK, NotBegun, Messages
  <1>9. \A e \in Flushed : e.message = message /\ e.length = received[message]
                           /\ e.length \in 1..MaxText /\ message \in Messages
    BY DEF Flushed, Unflushed, Snapshot, Inv, TextCurrent, TypeOK
  <1>10. NoneTooLong'
    <2>1. ASSUME NEW e \in Pending', e # OtherEvent
          PROVE  e.message \in 1..message' /\ e.length \in 1..received'[e.message]
      <3>1. CASE e \in Pending
        BY <1>4, <1>6, <2>1, <3>1 DEF Inv, TypeOK, NoneTooLong, Messages
      <3>2. CASE e \in Flushed
        BY <1>1, <1>4, <1>6, <1>9, <3>2 DEF Inv, TypeOK, Messages
      <3>3. CASE e = first
        BY <1>1, <1>4, <1>6, <3>3 DEF Inv, TypeOK, Messages, Snapshot
      <3> QED
        BY <1>2, <1>3, <1>4, <3>1, <3>2, <3>3 DEF Pending
    <2>2. \A m \in Messages : shown'[m] <= best'[m] /\ best'[m] <= received'[m]
      BY <1>1, <1>4, <1>6 DEF Inv, TypeOK, NoneTooLong
    <2> QED
      BY <2>1, <2>2 DEF NoneTooLong
  <1>11. Accounted'
    <2> SUFFICES ASSUME NEW m \in Messages
                 PROVE  best'[m] = received'[m] \/ Snapshot(m, received'[m]) \in Pending'
      BY DEF Accounted
    <2>1. CASE m = message + 1
      BY <1>3, <1>6, <2>1 DEF Pending
    <2>2. CASE m # message + 1
      <3>1. CASE m = message /\ Unflushed
        BY <1>3, <1>6, <2>2, <3>1 DEF Pending, Flushed, Inv, TextCurrent, Unflushed
      <3>2. CASE ~(m = message /\ Unflushed)
        BY <1>2, <1>3, <1>4, <1>6, <2>2, <3>2 DEF Pending, Inv, Accounted
      <3> QED
        BY <3>1, <3>2
    <2> QED
      BY <2>1, <2>2
  <1>12. ProducersFull'
    <2>1. ASSUME NEW e \in Held("reader")' \cup Held("prompt")', e # OtherEvent
          PROVE  e.length = received'[e.message]
      <3>1. CASE e \in Held("prompt")
        <4>1. e.length = received[e.message] /\ e.message \in 1..message
          BY <2>1, <3>1 DEF Inv, ProducersFull, NoneTooLong, Pending
        <4>2. e.message \in Messages \ {message + 1}
          BY <4>1, TextAssumption DEF Inv, TypeOK, Messages
        <4> QED
          BY <1>6, <4>1, <4>2
      <3>2. CASE e \in Flushed
        BY <1>6, <1>9, <3>2 DEF Inv, TypeOK
      <3>3. CASE e = first
        BY <1>6, <3>3 DEF Snapshot
      <3> QED
        BY <1>3, <2>1, <3>1, <3>2, <3>3
    <2>2. ASSUME NEW e \in Held("prompt")' PROVE e.message # message'
      <3>1. e \in Held("prompt") /\ (e = OtherEvent \/ e.message \in 1..message)
        BY <1>3, <2>2 DEF Inv, NoneTooLong, Pending
      <3> QED
        BY <1>4, <3>1 DEF OtherEvent, Snapshot, Inv, TypeOK
    <2> QED
      BY <2>1, <2>2 DEF ProducersFull
  <1> QED
    BY <1>5, <1>7, <1>8, <1>10, <1>11, <1>12 DEF Inv
\* A delta that joins the pending text.
LEMMA ContinuesInv ==
    ASSUME Inv, DeltaContinues
    PROVE  Inv'
  <1>1. /\ message \in Messages /\ received[message] = text /\ stream # NoStream
        /\ text' = text + 1 /\ text < MaxText
        /\ received' = [received EXCEPT ![message] = text + 1]
        /\ timer' = IF timer = "nil" THEN "armed" ELSE timer
        /\ UNCHANGED <<stream, flushed, message, orphans, callbacks, out, late, best, shown>>
        /\ closed' = closed
    BY DEF DeltaContinues, delivered, Inv, TextCurrent
  <1>2. Held("reader") = {} /\ Held("reader")' = {} /\ Held("prompt")' = Held("prompt")
    BY <1>1, NoItems DEF DeltaContinues, Ready, Held
  <1>3. /\ \A m \in Messages \ {message} : received'[m] = received[m]
        /\ received'[message] = text + 1
    BY <1>1 DEF Inv, TypeOK
  <1>4. TypeOK'
    <2>1. received' \in [Messages -> 0..MaxText]
      BY <1>1, TextAssumption DEF Inv, TypeOK
    <2>2. timer' \in {"nil", "armed", "fired"}
      BY <1>1 DEF Inv, TypeOK
    <2>3. text' \in 0..MaxText /\ flushed' \in 0..text'
      BY <1>1, TextAssumption DEF Inv, TypeOK
    <2>4. closed' \in BOOLEAN
      BY <1>1 DEF Inv, TypeOK
    <2> QED
      BY <1>1, <2>1, <2>2, <2>3, <2>4 DEF Inv, TypeOK
  <1>5. TextCurrent' /\ NotBegun'
    BY <1>1, <1>3 DEF Inv, TypeOK, TextCurrent, NotBegun, Messages
  <1>6. NoneTooLong'
    <2>1. ASSUME NEW e \in Pending', e # OtherEvent
          PROVE  e.message \in 1..message' /\ e.length \in 1..received'[e.message]
      <3>1. e \in Pending /\ e.message \in 1..message /\ e.length \in 1..received[e.message]
        BY <1>1, <1>2, <2>1 DEF Pending, Inv, NoneTooLong
      <3>2. e.message \in Messages
        BY <3>1, TextAssumption DEF Inv, TypeOK, Messages
      <3> QED
        BY <1>1, <1>3, <3>1, <3>2 DEF Inv, TypeOK
    <2>2. \A m \in Messages : shown'[m] <= best'[m] /\ best'[m] <= received'[m]
      BY <1>1, <1>3 DEF Inv, TypeOK, NoneTooLong
    <2> QED
      BY <2>1, <2>2 DEF NoneTooLong
  <1>7. Accounted'
    <2>1. Unflushed'
      BY <1>1 DEF Unflushed, Inv, TypeOK
    <2> QED
      BY <1>1, <1>2, <1>3, <2>1 DEF Accounted, Inv, Pending
  <1>8. ProducersFull'
    <2>1. ASSUME NEW e \in Held("prompt") PROVE e.message # message
      BY <1>1 DEF Inv, ProducersFull, Messages
    <2>2. ASSUME NEW e \in Held("prompt"), e # OtherEvent
          PROVE  e.length = received'[e.message]
      <3>1. e.length = received[e.message] /\ e.message \in 1..message
        BY <2>2 DEF Inv, ProducersFull, NoneTooLong, Pending
      <3>2. e.message \in Messages \ {message}
        BY <2>1, <3>1, TextAssumption DEF Inv, TypeOK, Messages
      <3> QED
        BY <1>3, <3>1, <3>2
    <2> QED
      BY <1>1, <1>2, <2>1, <2>2 DEF ProducersFull
  <1> QED
    BY <1>4, <1>5, <1>6, <1>7, <1>8 DEF Inv

\* The complete message, which replaces the pending text.
LEMMA CompleteInv ==
    ASSUME Inv, NEW n \in 1..MaxText, Complete(n)
    PROVE  Inv'
  <1> DEFINE whole == Snapshot(message, Final(n))
  <1>1. /\ message \in Messages /\ received[message] = text /\ stream # NoStream
        /\ received' = [received EXCEPT ![message] = Final(n)]
        /\ stream' = NoStream /\ text' = 0 /\ flushed' = 0
        /\ out' = [out EXCEPT !["reader"] = <<whole>>]
        /\ UNCHANGED <<message, late, best, shown>>
        /\ closed' = closed
    BY DEF Complete, delivered, Inv, TypeOK, TextCurrent, Clear, Final
  <1>2. /\ Final(n) \in 1..MaxText /\ Final(n) >= text /\ whole \in Snapshots
        /\ whole # OtherEvent
    BY <1>1, TextAssumption DEF Final, Inv, TypeOK, Snapshot, Snapshots, OtherEvent, Messages
  <1>3. Held("reader") = {}
    BY NoItems DEF Complete, Ready, Held
  <1>4. /\ out' \in [Producers -> Seq(Snapshots)]
        /\ Held("reader")' = {whole} /\ Held("prompt")' = Held("prompt")
    BY <1>1, <1>2, OneItem, HeldBy DEF Inv, Producers
  <1>5. /\ \A m \in Messages \ {message} : received'[m] = received[m]
        /\ received'[message] = Final(n)
    BY <1>1 DEF Inv, TypeOK
  <1>6. TypeOK'
    <2>1. received' \in [Messages -> 0..MaxText]
      BY <1>1, <1>2, TextAssumption DEF Inv, TypeOK
    <2>2. timer' \in {"nil", "armed", "fired"} /\ orphans' \in Nat /\ callbacks' \in Nat
      BY StopTimerType DEF Complete, Clear, Inv
    <2>3. text' \in 0..MaxText /\ flushed' \in 0..text'
      BY <1>1, TextAssumption
    <2>4. closed' \in BOOLEAN
      BY <1>1 DEF Inv, TypeOK
    <2> QED
      BY <1>1, <1>4, <2>1, <2>2, <2>3, <2>4 DEF Inv, TypeOK
  <1>7. TextCurrent' /\ NotBegun'
    BY <1>1, <1>5 DEF Inv, TypeOK, TextCurrent, NotBegun, Messages
  <1>8. NoneTooLong'
    <2>1. ASSUME NEW e \in Pending', e # OtherEvent
          PROVE  e.message \in 1..message' /\ e.length \in 1..received'[e.message]
      <3>1. CASE e \in Pending
        <4>1. e.message \in 1..message /\ e.length \in 1..received[e.message]
          BY <2>1, <3>1 DEF Inv, NoneTooLong
        <4>2. e.message \in Messages
          BY <4>1, TextAssumption DEF Inv, TypeOK, Messages
        <4> QED
          BY <1>1, <1>2, <1>5, <4>1, <4>2 DEF Inv, TypeOK
      <3>2. CASE e = whole
        BY <1>1, <1>2, <1>5, <3>2 DEF Snapshot, Messages
      <3> QED
        BY <1>1, <1>3, <1>4, <3>1, <3>2 DEF Pending
    <2>2. \A m \in Messages : shown'[m] <= best'[m] /\ best'[m] <= received'[m]
      BY <1>1, <1>2, <1>5 DEF Inv, TypeOK, NoneTooLong
    <2> QED
      BY <2>1, <2>2 DEF NoneTooLong
  <1>9. Accounted'
    <2> SUFFICES ASSUME NEW m \in Messages
                 PROVE  best'[m] = received'[m] \/ Snapshot(m, received'[m]) \in Pending'
      BY DEF Accounted
    <2>1. CASE m = message
      BY <1>4, <1>5, <2>1 DEF Pending
    <2>2. CASE m # message
      BY <1>1, <1>3, <1>4, <1>5, <2>2 DEF Pending, Inv, Accounted
    <2> QED
      BY <2>1, <2>2
  <1>10. ProducersFull'
    <2>1. ASSUME NEW e \in Held("prompt"), e # OtherEvent
          PROVE  e.length = received'[e.message]
      <3>1. e.length = received[e.message] /\ e.message \in 1..message /\ e.message # message
        BY <1>1, <2>1 DEF Inv, ProducersFull, NoneTooLong, Pending, Messages
      <3>2. e.message \in Messages \ {message}
        BY <3>1, TextAssumption DEF Inv, TypeOK, Messages
      <3> QED
        BY <1>5, <3>1, <3>2
    <2>2. whole.length = received'[whole.message]
      BY <1>5 DEF Snapshot
    <2> QED
      BY <1>1, <1>4, <2>1, <2>2 DEF ProducersFull
  <1> QED
    BY <1>6, <1>7, <1>8, <1>9, <1>10 DEF Inv
\* Any other event, which flushes what is pending.
LEMMA OtherInv ==
    ASSUME Inv, NEW p \in Producers, Other(p)
    PROVE  Inv'
  <1>1. /\ stream' = NoStream /\ text' = 0 /\ flushed' = 0
        /\ out' = [out EXCEPT ![p] = Flush \o <<OtherEvent>>]
        /\ UNCHANGED <<message, late, received, best, shown>>
        /\ closed' = closed
    BY DEF Other, delivered, Clear
  <1>2. OtherEvent \in Snapshots
    BY TextAssumption DEF OtherEvent, Snapshot, Snapshots
  <1>3. /\ out' \in [Producers -> Seq(Snapshots)] /\ Held(p) = {}
        /\ Held(p)' = Flushed \cup {OtherEvent}
        /\ \A o \in Producers \ {p} : Held(o)' = Held(o)
    BY <1>1, <1>2, NoItems, FlushAhead, HeldBy DEF Inv, Other, Ready, Held
  <1>4. /\ Held("reader")' \cup Held("prompt")'
             = Held("reader") \cup Held("prompt") \cup Flushed \cup {OtherEvent}
        /\ Held("prompt")' \subseteq Held("prompt") \cup Flushed \cup {OtherEvent}
        /\ Pending' = Pending \cup Flushed \cup {OtherEvent}
    BY <1>1, <1>3 DEF Producers, Pending
  <1>5. TypeOK'
    <2>1. timer' \in {"nil", "armed", "fired"} /\ orphans' \in Nat /\ callbacks' \in Nat
      BY StopTimerType DEF Other, Clear, Inv
    <2>2. text' \in 0..MaxText /\ flushed' \in 0..text'
      BY <1>1, TextAssumption
    <2>3. closed' \in BOOLEAN
      BY <1>1 DEF Inv, TypeOK
    <2> QED
      BY <1>1, <1>3, <2>1, <2>2, <2>3 DEF Inv, TypeOK
  <1>6. \A e \in Flushed : e.message = message /\ e.length = received[message]
                           /\ e.length \in 1..MaxText /\ message \in Messages
    BY DEF Flushed, Unflushed, Snapshot, Inv, TextCurrent, TypeOK
  <1>7. TextCurrent' /\ NotBegun'
    BY <1>1 DEF Inv, TextCurrent, NotBegun
  <1>8. NoneTooLong'
    BY <1>1, <1>4, <1>6 DEF Inv, NoneTooLong, Messages
  <1>9. Accounted'
    BY <1>1, <1>4 DEF Inv, Accounted, Flushed, Unflushed, TextCurrent
  <1>10. ProducersFull'
    BY <1>1, <1>4, <1>6 DEF Inv, ProducersFull
  <1> QED
    BY <1>5, <1>7, <1>8, <1>9, <1>10 DEF Inv

\* Close.
LEMMA CloseInv ==
    ASSUME Inv, Close
    PROVE  Inv'
  <1>1. /\ stream' = NoStream /\ text' = 0 /\ flushed' = 0
        /\ UNCHANGED <<message, out, received, best, shown>>
        /\ closed' = TRUE /\ late' = late \cup Flushed
    BY DEF Close, delivered, Clear, Flushed
  <1>2. /\ Held("reader")' = Held("reader") /\ Held("prompt")' = Held("prompt")
        /\ Pending' = Pending \cup Flushed
    BY <1>1 DEF Held, Pending
  <1>3. \A e \in Flushed : e.message = message /\ e.length = received[message]
                           /\ e.length \in 1..MaxText /\ message \in Messages
                           /\ e \in Snapshots
    BY DEF Flushed, Unflushed, Snapshot, Inv, TextCurrent, TypeOK, Snapshots
  <1>4. TypeOK'
    <2>1. timer' \in {"nil", "armed", "fired"} /\ orphans' \in Nat /\ callbacks' \in Nat
      BY StopTimerType DEF Close, Clear, Inv
    <2>2. text' \in 0..MaxText /\ flushed' \in 0..text'
      BY <1>1, TextAssumption
    <2>3. closed' \in BOOLEAN /\ late' \in SUBSET Snapshots
      BY <1>1, <1>3 DEF Inv, TypeOK
    <2> QED
      BY <1>1, <2>1, <2>2, <2>3 DEF Inv, TypeOK
  <1>5. TextCurrent' /\ NotBegun'
    BY <1>1 DEF Inv, TextCurrent, NotBegun
  <1>6. NoneTooLong'
    BY <1>1, <1>2, <1>3 DEF Inv, NoneTooLong, Messages
  <1>7. Accounted'
    BY <1>1, <1>2 DEF Inv, Accounted, Flushed, Unflushed, TextCurrent
  <1>8. ProducersFull'
    BY <1>1, <1>2 DEF Inv, ProducersFull
  <1> QED
    BY <1>4, <1>5, <1>6, <1>7, <1>8 DEF Inv

\* The timer and its callback, also a late one.
LEMMA TimerInv ==
    ASSUME Inv, TimerFires \/ TimerFlushes
    PROVE  Inv'
  <1>1. CASE TimerFires
    <2>1. timer' \in {"nil", "armed", "fired"} /\ orphans' \in Nat /\ callbacks' \in Nat
      BY <1>1 DEF TimerFires, Inv, TypeOK
    <2>2. UNCHANGED <<stream, text, flushed, message, closed, out, late, received, best, shown>>
      BY <1>1 DEF TimerFires, delivered
    <2>3. TypeOK'
      BY <2>1, <2>2 DEF Inv, TypeOK
    <2> QED
      BY <2>2, <2>3 DEF Inv, TextCurrent, NotBegun, NoneTooLong, Accounted, ProducersFull,
                        Pending, Held, Unflushed
  <1>2. CASE TimerFlushes
    <2>1. /\ late' = late \cup Flushed
          /\ flushed' = IF Unflushed THEN text ELSE flushed
          /\ UNCHANGED <<stream, text, message, out, received, best, shown>>
          /\ closed' = closed
      BY <1>2 DEF TimerFlushes, delivered, Flushed, Unflushed, Inv, TextCurrent
    <2>2. /\ Held("reader")' = Held("reader") /\ Held("prompt")' = Held("prompt")
          /\ Pending' = Pending \cup Flushed
      BY <2>1 DEF Held, Pending
    <2>3. \A e \in Flushed : e.message = message /\ e.length = received[message]
                             /\ e.length \in 1..MaxText /\ message \in Messages
                             /\ e \in Snapshots
      BY DEF Flushed, Unflushed, Snapshot, Inv, TextCurrent, TypeOK, Snapshots
    <2>4. TypeOK'
      <3>1. timer' \in {"nil", "armed", "fired"} /\ orphans' \in Nat /\ callbacks' \in Nat
        BY <1>2 DEF TimerFlushes, RunsCallback, Inv, TypeOK
      <3>2. flushed' \in 0..text'
        BY <2>1, TextAssumption DEF Inv, TypeOK
      <3>3. closed' \in BOOLEAN /\ late' \in SUBSET Snapshots
        BY <2>1, <2>3 DEF Inv, TypeOK
      <3> QED
        BY <2>1, <3>1, <3>2, <3>3 DEF Inv, TypeOK
    <2>5. TextCurrent' /\ NotBegun'
      BY <2>1 DEF Inv, TextCurrent, NotBegun
    <2>6. NoneTooLong'
      BY <2>1, <2>2, <2>3 DEF Inv, NoneTooLong, Messages
    <2>7. Accounted'
      BY <2>1, <2>2 DEF Inv, Accounted, Flushed, Unflushed, TextCurrent
    <2>8. ProducersFull'
      BY <2>1, <2>2 DEF Inv, ProducersFull
    <2> QED
      BY <2>4, <2>5, <2>6, <2>7, <2>8 DEF Inv
  <1> QED
    BY <1>1, <1>2

\* A snapshot that reaches the runtime may leave delivery.
LEMMA DeliveredInv ==
    ASSUME Inv, NEW e \in Pending, Delivered(e),
           out' \in [Producers -> Seq(Snapshots)], late' \subseteq late,
           Held("reader")' \subseteq Held("reader"), Held("prompt")' \subseteq Held("prompt"),
           Pending \subseteq Pending' \cup {e},
           UNCHANGED <<stream, text, flushed, message, timers, closed, received>>
    PROVE  Inv'
  <1>1. Pending' \subseteq Pending
    BY DEF Pending
  <1> DEFINE Facts == /\ best' \in [Messages -> 0..MaxText] /\ shown' \in [Messages -> 0..MaxText]
                      /\ \A m \in Messages :
                           /\ shown'[m] <= best'[m] /\ best'[m] <= received[m] /\ best[m] <= best'[m]
                           /\ (e.message = m /\ e.length = received[m] /\ e # OtherEvent)
                                => best'[m] = received[m]
  <1>2. ASSUME e = OtherEvent PROVE Facts
    <2>1. best' = best /\ shown' = shown
      BY <1>2 DEF Delivered, delivered
    <2> QED
      BY <1>2, <2>1, TextAssumption DEF Inv, TypeOK, NoneTooLong
  <1>3. ASSUME e # OtherEvent PROVE Facts
    <2>1. /\ shown' = [shown EXCEPT ![e.message] = e.length]
          /\ best' = [best EXCEPT ![e.message] = IF e.length > best[e.message] THEN e.length
                                                 ELSE best[e.message]]
      BY <1>3 DEF Delivered
    <2>2. e.message \in 1..message /\ e.length \in 1..received[e.message]
      BY <1>3 DEF Inv, NoneTooLong
    <2>3. e.message \in Messages
      BY <2>2, TextAssumption DEF Inv, TypeOK, Messages
    <2>4. received[e.message] \in 0..MaxText /\ best[e.message] \in 0..MaxText
      BY <2>3 DEF Inv, TypeOK
    <2>5. e.length \in 0..MaxText
      BY <2>2, <2>4, TextAssumption
    <2>6. best' \in [Messages -> 0..MaxText] /\ shown' \in [Messages -> 0..MaxText]
      BY <2>1, <2>3, <2>4, <2>5 DEF Inv, TypeOK
    <2>7. ASSUME NEW m \in Messages
          PROVE  /\ shown'[m] <= best'[m] /\ best'[m] <= received[m] /\ best[m] <= best'[m]
                 /\ (e.message = m /\ e.length = received[m]) => best'[m] = received[m]
      <3>1. /\ best[m] \in 0..MaxText /\ shown[m] \in 0..MaxText /\ received[m] \in 0..MaxText
            /\ shown[m] <= best[m] /\ best[m] <= received[m]
        BY DEF Inv, TypeOK, NoneTooLong
      <3>2. CASE m = e.message
        <4>1. shown'[m] = e.length /\ best'[m] = IF e.length > best[m] THEN e.length ELSE best[m]
          BY <2>1, <3>2 DEF Inv, TypeOK
        <4> QED
          BY <2>2, <2>5, <3>1, <3>2, <4>1, TextAssumption
      <3>3. CASE m # e.message
        <4>1. shown'[m] = shown[m] /\ best'[m] = best[m]
          BY <2>1, <3>3 DEF Inv, TypeOK
        <4> QED
          BY <3>1, <3>3, <4>1, TextAssumption
      <3> QED
        BY <3>2, <3>3
    <2> QED
      BY <2>6, <2>7
  <1>4. Facts
    BY <1>2, <1>3
  <1>5. TypeOK'
    BY <1>4 DEF Inv, TypeOK, timers
  <1>6. TextCurrent' /\ NotBegun' /\ ProducersFull'
    BY DEF Inv, TextCurrent, NotBegun, ProducersFull
  <1>7. NoneTooLong'
    BY <1>1, <1>4 DEF Inv, NoneTooLong
  <1>8. Accounted'
    <2> SUFFICES ASSUME NEW m \in Messages
                 PROVE  \/ best'[m] = received[m]
                        \/ Snapshot(m, received[m]) \in Pending'
                        \/ m = message /\ Unflushed
      BY DEF Accounted, Unflushed
    <2>1. CASE best[m] = received[m]
      BY <1>4, <2>1 DEF Inv, TypeOK
    <2>2. CASE Snapshot(m, received[m]) \in Pending
      <3>1. CASE e = Snapshot(m, received[m])
        BY <1>4, <3>1 DEF Snapshot, OtherEvent, Messages
      <3> QED
        BY <2>2, <3>1
    <2> QED
      BY <2>1, <2>2 DEF Inv, Accounted
  <1> QED
    BY <1>5, <1>6, <1>7, <1>8 DEF Inv

\* A delivery by the thread that called Handle.
LEMMA DeliverInv ==
    ASSUME Inv, NEW p \in Producers, Deliver(p)
    PROVE  Inv'
  <1>1. out[p] \in Seq(Snapshots) /\ out[p] # << >> /\ out' = [out EXCEPT ![p] = Tail(out[p])]
    BY DEF Deliver, Inv, TypeOK
  <1>2. Tail(out[p]) \in Seq(Snapshots) /\ Held(p) = {Head(out[p])} \cup Items(Tail(out[p]))
    BY <1>1, RestItems DEF Held
  <1>3. /\ out' \in [Producers -> Seq(Snapshots)] /\ Held(p)' = Items(Tail(out[p]))
        /\ \A o \in Producers \ {p} : Held(o)' = Held(o)
    BY <1>1, <1>2, HeldBy DEF Inv
  <1>4. /\ Held("reader")' \subseteq Held("reader") /\ Held("prompt")' \subseteq Held("prompt")
        /\ Pending \subseteq Pending' \cup {Head(out[p])} /\ Head(out[p]) \in Pending
    BY <1>2, <1>3 DEF Producers, Pending, Deliver
  <1> QED
    BY <1>3, <1>4, DeliveredInv DEF Deliver

\* A delivery by a callback or by Close.
LEMMA DeliverLateInv ==
    ASSUME Inv, NEW e \in late, DeliverLate(e)
    PROVE  Inv'
  <1>1. /\ Held("reader")' = Held("reader") /\ Held("prompt")' = Held("prompt")
        /\ out' \in [Producers -> Seq(Snapshots)]
    BY DEF DeliverLate, Held, Inv, TypeOK
  <1>2. Pending \subseteq Pending' \cup {e} /\ e \in Pending /\ late' \subseteq late
    BY <1>1 DEF Pending, DeliverLate
  <1> QED
    BY <1>1, <1>2, DeliveredInv DEF DeliverLate

\* The invariant holds in every reachable state.
THEOREM Invariance == Spec => []Inv
  <1>1. Inv /\ [Next]_vars => Inv'
    <2> SUFFICES ASSUME Inv, [Next]_vars PROVE Inv'
      OBVIOUS
    <2>1. CASE UNCHANGED vars
      BY <2>1 DEF vars, timers, delivered, Inv, TypeOK, TextCurrent, NotBegun, NoneTooLong,
                  Accounted, ProducersFull, Pending, Held, Unflushed
    <2>2. CASE Next
      BY <2>2, BeginsInv, ContinuesInv, CompleteInv, OtherInv, DeliverInv, DeliverLateInv,
         CloseInv, TimerInv DEF Next
    <2> QED
      BY <2>1, <2>2
  <1> QED
    BY InitInv, <1>1, PTL DEF Spec

\* No text is lost between the mutex and the runtime, whichever of the timer,
\* another stream, a complete message, another event or Close flushes it.
THEOREM NoTextLost == Spec => []TextDelivered
  <1>1. Inv => TextDelivered
    <2> SUFFICES ASSUME Inv, ~InFlight, ~Unflushed PROVE \A m \in Messages : best[m] = received[m]
      BY DEF TextDelivered
    <2>1. Pending = {}
      BY NoItems DEF InFlight, Pending, Held, Producers
    <2> QED
      BY <2>1 DEF Inv, Accounted
  <1> QED
    BY <1>1, Invariance, PTL

\* The read loop and the prompt never replace a snapshot by a shorter one,
\* although they deliver with the mutex released and next to each other.
THEOREM InPlace == Spec => ProducersNeverShorten
  <1>1. Inv /\ [Next]_vars => [\A p \in Producers : Deliver(p) =>
                                 \A m \in Messages : shown'[m] >= shown[m]]_vars
    <2> SUFFICES ASSUME Inv, NEW p \in Producers, Deliver(p), NEW m \in Messages
                 PROVE  shown'[m] >= shown[m]
      OBVIOUS
    <2> DEFINE e == Head(out[p])
    <2>1. e \in Held(p)
      BY RestItems DEF Deliver, Inv, TypeOK, Held
    <2>2. CASE e = OtherEvent
      BY <2>2 DEF Deliver, Delivered, delivered, Inv, TypeOK
    <2>3. CASE e # OtherEvent
      <3>1. e.length = received[e.message] /\ e.message \in Messages
        <4>1. e \in Held("reader") \cup Held("prompt") /\ e \in Pending
          BY <2>1 DEF Producers, Pending
        <4>2. e.length = received[e.message] /\ e.message \in 1..message
          BY <2>3, <4>1 DEF Inv, ProducersFull, NoneTooLong
        <4>3. \A m2 \in 1..message : m2 \in Messages
          BY TextAssumption DEF Inv, TypeOK, Messages
        <4> QED
          BY <4>2, <4>3
      <3>2. shown' = [shown EXCEPT ![e.message] = e.length]
        BY <2>3 DEF Deliver, Delivered
      <3> QED
        BY <3>1, <3>2 DEF Inv, TypeOK, NoneTooLong
    <2> QED
      BY <2>2, <2>3
  <1> QED
    BY <1>1, Invariance, PTL DEF Spec, ProducersNeverShorten
=============================================================================
