--------------------------- MODULE DeltaCoalescer ---------------------------
(***************************************************************************)
(* The deltaCoalescer of runtime/coalesce.go, one per session: it gathers  *)
(* assistant deltas into cumulative snapshots under its mutex, and hands   *)
(* what it gathered to the runtime after it released the mutex.  Three     *)
(* kinds of goroutine do so: the provider's read loop, which emits every   *)
(* delta; a finishing prompt, which emits the terminal event; and the      *)
(* callbacks of the flush timer.                                           *)
(*                                                                         *)
(* A text is its length, a stream its (turn, type) key, and a message the  *)
(* number that its source ID carries.                                      *)
(***************************************************************************)
EXTENDS Integers, Sequences

CONSTANTS Streams,      \* keys: a turn and EventMessage or EventThinking
          NoStream,
          MaxMessages,  \* bound: how many messages the provider begins
          MaxText       \* bound: the length of a message

ASSUME NoStreamAssumption == NoStream \notin Streams
ASSUME TextAssumption == MaxMessages \in Nat /\ MaxText \in Nat \ {0}

Producers == {"reader", "prompt"}
Messages == 1..MaxMessages

VARIABLES stream,    \* turnID and streamType of pending, or NoStream
          text,      \* len(pending.Message)
          flushed,   \* how much of it was put into a snapshot
          message,   \* the number of the latest message
          timer,     \* what c.timer points to: nil, an armed or a fired timer
          orphans,   \* armed timers that c.timer no longer points to
          callbacks, \* fired callbacks, not c.timer's, that wait for the mutex
          closed,
          out,       \* [Producers -> what the goroutine is still to deliver]
          late,      \* snapshots that timer callbacks are still to deliver
          received,  \* [Messages -> length of the text handed in]
          best,      \* [Messages -> longest snapshot delivered]
          shown      \* [Messages -> last snapshot delivered: a reader that
                     \*   replaces by source ID shows this one]

timers == <<timer, orphans, callbacks>>
delivered == <<best, shown>>
vars == <<stream, text, flushed, message, timers, closed, out, late, received,
          delivered>>

\* A snapshot; message 0 is an event that is not part of a stream.
Snapshot(m, n) == [message |-> m, length |-> n]
OtherEvent == Snapshot(0, 0)
Snapshots == [message : 0..MaxMessages, length : 0..MaxText]

TypeOK ==
    /\ stream \in Streams \cup {NoStream}
    /\ text \in 0..MaxText /\ flushed \in 0..text
    /\ message \in 0..MaxMessages
    /\ timer \in {"nil", "armed", "fired"}
    /\ orphans \in Nat /\ callbacks \in Nat
    /\ closed \in BOOLEAN
    /\ out \in [Producers -> Seq(Snapshots)]
    /\ late \in SUBSET Snapshots
    /\ received \in [Messages -> 0..MaxText]
    /\ best \in [Messages -> 0..MaxText]
    /\ shown \in [Messages -> 0..MaxText]

Init ==
    /\ stream = NoStream /\ text = 0 /\ flushed = 0
    /\ message = 0
    /\ timer = "nil" /\ orphans = 0 /\ callbacks = 0
    /\ closed = FALSE
    /\ out = [p \in Producers |-> << >>]
    /\ late = {}
    /\ received = [m \in Messages |-> 0]
    /\ best = [m \in Messages |-> 0]
    /\ shown = [m \in Messages |-> 0]

-----------------------------------------------------------------------------
\* flushLocked: the snapshot of what was not flushed yet, if anything.
Unflushed == stream # NoStream /\ text > flushed
Flush == IF Unflushed THEN <<Snapshot(message, text)>> ELSE << >>

\* clearLocked's timer.Stop: a fired timer's callback still runs.
StopTimer ==
    /\ timer' = "nil"
    /\ callbacks' = callbacks + (IF timer = "fired" THEN 1 ELSE 0)
    /\ UNCHANGED orphans

\* clearLocked.
Clear ==
    /\ stream' = NoStream /\ text' = 0 /\ flushed' = 0
    /\ StopTimer

Ready(p) == ~closed /\ out[p] = << >>

\* Mutated: the text of the stream before is dropped.
DeltaBegins_DropsText(k) ==
    /\ Ready("reader") /\ message < MaxMessages
    /\ stream # k
    /\ StopTimer
    /\ message' = message + 1
    /\ stream' = k /\ text' = 1 /\ flushed' = 1
    /\ received' = [received EXCEPT ![message + 1] = 1]
    /\ out' = [out EXCEPT !["reader"] = <<Snapshot(message + 1, 1)>>]
    /\ UNCHANGED <<closed, late, delivered>>

\* A delta of another stream: flush what is pending, begin a message, and
\* deliver its first delta at once.
DeltaBegins(k) ==
    /\ Ready("reader") /\ message < MaxMessages
    /\ stream # k
    /\ StopTimer
    /\ message' = message + 1
    /\ stream' = k /\ text' = 1 /\ flushed' = 1
    /\ received' = [received EXCEPT ![message + 1] = 1]
    /\ out' = [out EXCEPT !["reader"] = Flush \o <<Snapshot(message + 1, 1)>>]
    /\ UNCHANGED <<closed, late, delivered>>

\* Mutated: the timer is armed once per message.
DeltaContinues_ArmsOnce ==
    /\ Ready("reader") /\ stream # NoStream /\ text < MaxText
    /\ text' = text + 1
    /\ received' = [received EXCEPT ![message] = text + 1]
    /\ timer' = IF timer = "nil" /\ text = 1 THEN "armed" ELSE timer
    /\ UNCHANGED <<stream, flushed, message, orphans, callbacks, closed, out,
                   late, delivered>>

\* A delta of the pending stream: gather it and see that a timer is armed.
DeltaContinues ==
    /\ Ready("reader") /\ stream # NoStream /\ text < MaxText
    /\ text' = text + 1
    /\ received' = [received EXCEPT ![message] = text + 1]
    /\ timer' = IF timer = "nil" THEN "armed" ELSE timer
    /\ UNCHANGED <<stream, flushed, message, orphans, callbacks, closed, out,
                   late, delivered>>

\* Mutated: the provider's complete text always counts.
Final_Shorter(n) == n

\* The provider's complete text counts only if it is no shorter.
Final(n) == IF n < text THEN text ELSE n

\* The complete message arrives while its stream is pending: it replaces the
\* pending text, under the same source ID.
Complete(n) ==
    /\ Ready("reader") /\ stream # NoStream
    /\ out' = [out EXCEPT !["reader"] = <<Snapshot(message, Final(n))>>]
    /\ received' = [received EXCEPT ![message] = IF n < @ THEN @ ELSE n]
    /\ Clear
    /\ UNCHANGED <<message, closed, late, delivered>>

\* Any other event flushes the pending text ahead of itself.
Other(p) ==
    /\ Ready(p)
    /\ out' = [out EXCEPT ![p] = Flush \o <<OtherEvent>>]
    /\ Clear
    /\ UNCHANGED <<message, closed, late, received, delivered>>

\* Close.  Its caller delivers the flushed text itself; the order in which it
\* does so relative to the others is that of a timer callback.
Close ==
    /\ ~closed
    /\ closed' = TRUE
    /\ late' = IF Unflushed THEN late \cup {Snapshot(message, text)} ELSE late
    /\ Clear
    /\ UNCHANGED <<message, out, received, delivered>>

-----------------------------------------------------------------------------
(* The flush timer.                                                        *)

TimerFires ==
    /\ \/ timer = "armed" /\ timer' = "fired" /\ UNCHANGED <<orphans, callbacks>>
       \/ orphans > 0 /\ orphans' = orphans - 1 /\ callbacks' = callbacks + 1
          /\ UNCHANGED timer
    /\ UNCHANGED <<stream, text, flushed, message, closed, out, late, received,
                   delivered>>

\* A callback gets the mutex.  It resets c.timer, also when c.timer by now
\* points to another timer, which then goes on unobserved.
RunsCallback ==
    \/ timer = "fired" /\ timer' = "nil" /\ UNCHANGED <<orphans, callbacks>>
    \/ /\ callbacks > 0
       /\ callbacks' = callbacks - (IF timer = "fired" THEN 0 ELSE 1)
       /\ orphans' = orphans + (IF timer = "armed" THEN 1 ELSE 0)
       /\ timer' = "nil"

TimerFlushes ==
    /\ RunsCallback
    /\ late' = IF Unflushed /\ ~closed THEN late \cup {Snapshot(message, text)}
               ELSE late
    /\ flushed' = IF Unflushed /\ ~closed THEN text ELSE flushed
    /\ UNCHANGED <<stream, text, message, closed, out, received, delivered>>

-----------------------------------------------------------------------------
(* Delivery, with the mutex released.                                      *)

Delivered(e) ==
    IF e = OtherEvent THEN UNCHANGED delivered
    ELSE /\ shown' = [shown EXCEPT ![e.message] = e.length]
         /\ best' = [best EXCEPT ![e.message] = IF e.length > @ THEN e.length ELSE @]

Deliver(p) ==
    /\ out[p] # << >>
    /\ Delivered(Head(out[p]))
    /\ out' = [out EXCEPT ![p] = Tail(@)]
    /\ UNCHANGED <<stream, text, flushed, message, timers, closed, late, received>>

DeliverLate(e) ==
    /\ e \in late
    /\ Delivered(e)
    /\ late' = late \ {e}
    /\ UNCHANGED <<stream, text, flushed, message, timers, closed, out, received>>

Next ==
    \/ \E k \in Streams : DeltaBegins(k)
    \/ DeltaContinues
    \/ \E n \in 1..MaxText : Complete(n)
    \/ \E p \in Producers : Other(p) \/ Deliver(p)
    \/ \E e \in late : DeliverLate(e)
    \/ Close \/ TimerFires \/ TimerFlushes

Spec == Init /\ [][Next]_vars

\* Timers fire, callbacks get the mutex, and goroutines deliver what they
\* hold; the provider need not emit anything more.
FairSpec ==
    /\ Spec
    /\ WF_vars(TimerFires) /\ WF_vars(TimerFlushes)
    /\ \A p \in Producers : WF_vars(Deliver(p))
    /\ \A m \in Messages, n \in 1..MaxText : WF_vars(DeliverLate(Snapshot(m, n)))

-----------------------------------------------------------------------------
(* Properties.                                                             *)

InFlight == late # {} \/ \E p \in Producers : out[p] # << >>

\* No text is lost: when nothing is in delivery, every message of which no
\* part is still gathered has been delivered in full, whatever flushed it: the
\* timer, another stream, a complete message, another event, or Close.
TextDelivered ==
    ~InFlight /\ ~Unflushed => \A m \in Messages : best[m] = received[m]

\* Gathered text does not wait for the provider: a timer is always under way
\* to flush it, so every message catches up with what was received.
TextCatchesUp == \A m \in Messages : []<>(best[m] = received[m])

\* "Every snapshot for one logical stream uses a stable source ID so frontends
\* and journal readers can replace it in place": what the read loop and the
\* prompt deliver, with the mutex released and next to each other, never
\* replaces a snapshot by a shorter one.  (A timer's callback may: the late
\* snapshots have no such order.)
ProducersNeverShorten ==
    [][\A p \in Producers : Deliver(p) =>
         \A m \in Messages : shown'[m] >= shown[m]]_vars
=============================================================================
