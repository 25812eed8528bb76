----------------------------- MODULE DurableLog -----------------------------
(***************************************************************************)
(* What a session's journal promises its callers, without files, writers,  *)
(* locks or torn lines: a log that grows at its end, numbers its records   *)
(* by their places, and may lose its end until that is made safe.  An      *)
(* acknowledged record is safe.                                            *)
(***************************************************************************)
EXTENDS Naturals, Sequences

CONSTANT Events

VARIABLES log,    \* the events a reader finds, in order
          safe,   \* how many of them no failure takes away
          acked   \* the records whose callers were told that they are kept

logVars == <<log, safe, acked>>

Init == log = << >> /\ safe = 0 /\ acked = {}

\* An event enters the log; its caller knows nothing yet.
Extend ==
    /\ \E e \in Events : log' = Append(log, e)
    /\ UNCHANGED <<safe, acked>>

\* The log is made safe.
Secure ==
    /\ safe' = Len(log)
    /\ UNCHANGED <<log, acked>>

\* The log is made safe and the caller of its last event is told so.
Acknowledge ==
    /\ log # << >>
    /\ safe' = Len(log)
    /\ acked' = acked \cup {[sequence |-> Len(log), event |-> log[Len(log)]]}
    /\ UNCHANGED log

\* A failure takes some of what was not safe.
Lose ==
    \E kept \in safe..Len(log) :
        /\ log' = SubSeq(log, 1, kept)
        /\ safe' = kept
        /\ UNCHANGED acked

Next == Extend \/ Secure \/ Acknowledge \/ Lose

Spec == Init /\ [][Next]_logVars
=============================================================================
