------------------------------- MODULE Replay -------------------------------
(***************************************************************************)
(* What a provider's replay adds to the journal: journal.ReplayMatcher     *)
(* (src/journal/replay.go) and the block of deliverNow that asks it        *)
(* (src/runtime/runtime.go), through live turns, crashes of the host,      *)
(* Resume, which reads the journal anew, and Restart, which does not.      *)
(*                                                                         *)
(* A message is one of the provider's history.  The journal holds it as a  *)
(* record, as two cumulative snapshots with one source ID, as the first of *)
(* them only, or, when an append failed or the host was gone, not at all.  *)
(* A replayed message comes in one piece.  The matcher's scopes (session,  *)
(* conversation, thread) are the same for all of them.                     *)
(***************************************************************************)
EXTENDS Naturals, Sequences, FiniteSets

CONSTANTS
    Texts,        \* what messages say
    MaxHistory,   \* messages of the provider
    MaxReplays,   \* replays of its history
    MaxLost       \* records that do not reach the journal

ASSUME ReplayAssumption ==
    /\ "" \notin Texts /\ "part" \notin Texts
    /\ MaxHistory \in Nat /\ MaxReplays \in Nat /\ MaxLost \in Nat

VARIABLES
    provider,      \* how it identifies what it sends; never changes
    history,       \* its messages
    journal,       \* the records, in order
    matcher,       \* managed.replay; <<>> for nil
    turn, active,  \* the last turn, and whether it is under way
    startedTurn,   \* the turn in the last session.started record, 0 for none
    backendTurn,   \* BackendSession.TurnID in memory
    message,       \* the coalescer's message counter
    phase,         \* "live" or "replay"
    replay,        \* the replay under way: [from, next, resume, whole]
    replays, lost,
    \* History, read by the properties only:
    intact,        \* so far every replay could be matched exactly
    backed         \* the matcher has nothing that the journal did not take

vars == <<provider, history, journal, matcher, turn, active, startedTurn,
          backendTurn, message, phase, replay, replays, lost, intact,
          backed>>

Messages == {"user", "agent"}
\* live: whether live messages carry an ID; ids: what a replayed one carries;
\* own: whether the adapter names the turn of a replayed message.  (The
\* bundled ACP adapter does not.)
Providers ==
    {p \in [live : BOOLEAN, ids : {"none", "same", "fresh"}, own : BOOLEAN] :
        /\ p.live <=> p.ids # "none"
        /\ p.own => p.ids = "same"}

NoReplay == [from |-> 0, next |-> 0, resume |-> FALSE, whole |-> FALSE]

Init ==
    /\ provider \in Providers
    /\ history = <<>> /\ journal = <<>> /\ matcher = <<>>
    /\ turn = 0 /\ active = FALSE /\ startedTurn \in 0..1 /\ backendTurn = 0
    /\ provider.own => startedTurn = 0   \* it is not looked at
    /\ message = 0 /\ phase = "live" /\ replay = NoReplay /\ replays = 0
    /\ lost = 0 /\ intact = TRUE /\ backed = TRUE

-----------------------------------------------------------------------------
(* The matcher.                                                            *)

\* Two records of one kind; their scopes always agree here.
sameStream(a, b) == a.event = b.event

\* append: a snapshot replaces the one before it; the end of a turn is
\* remembered.
append(m, key) ==
    LET last == Len(m.records)
    IN  IF last > 0 /\ m.records[last].source = key.source /\ sameStream(m.records[last], key)
        THEN [m EXCEPT !.records[last] = key]
        ELSE [m EXCEPT !.records = Append(@, key),
                       !.completed = IF key.event = "end" THEN @ \cup {key.turn} ELSE @]

NewReplayMatcher(records) ==
    LET f[n \in 0..Len(records)] ==
            IF n = 0 THEN [records |-> <<>>, completed |-> {}, next |-> 1, limit |-> 0]
            ELSE append(f[n - 1], records[n])
        m == f[Len(records)]
    IN  [m EXCEPT !.limit = Len(m.records)]

\* Mutant: a second replay goes on where the first one stopped.
Reset_KeepsNext(m) == [m EXCEPT !.limit = Len(m.records)]

Reset(m) == [m EXCEPT !.next = 1, !.limit = Len(m.records)]

\* The indices Match may stop at: by provider ID, or else by content.
Candidates(m, key) ==
    LET from == {i \in m.next..m.limit : sameStream(m.records[i], key)}
        byID == {i \in from : key.id # 0 /\ m.records[i].id = key.id}
    IN  IF byID # {} THEN byID ELSE {i \in from : m.records[i].text = key.text}

First(S) == CHOOSE i \in S : \A j \in S : i <= j

\* Mutant: the cursor stays on the record that was matched.
Matched_Stays(m, key) == [m EXCEPT !.next = First(Candidates(m, key))]

\* Match, when it answers true: the cursor moves past the first candidate.
Matched(m, key) == [m EXCEPT !.next = First(Candidates(m, key)) + 1]

MatchesCompletedTurn(m, key) == key.turn # 0 /\ key.turn \in m.completed

-----------------------------------------------------------------------------
(* Live turns.  What comes after the last replay is left out.              *)

\* streamSourceID numbers the agent's messages within a turn and a life of
\* the coalescer; other events are numbered with the session.
Source(event, t, n) == IF event = "agent" THEN <<1, t, n>> ELSE <<0, 0, Len(journal) + 1>>

\* An append that fails, or that the host does not live to make.
Loses(happens) == lost' = (IF happens THEN lost + 1 ELSE lost) /\ lost' <= MaxLost

Ended(t) == [event |-> "end", id |-> 0, text |-> "", source |-> Source("end", t, 0), turn |-> t, of |-> 0]

\* The provider says something in the turn under way, or in a new one.
Say(event, text, kept) ==
    LET t == IF active THEN turn ELSE turn + 1
        i == Len(history) + 1
        full == [event |-> event, id |-> IF provider.live THEN i ELSE 0, text |-> text,
                 source |-> Source(event, t, message + 1), turn |-> t, of |-> i]
        part == [full EXCEPT !.text = "part"]
    IN  /\ phase = "live" /\ Len(history) < MaxHistory /\ replays < MaxReplays
        /\ kept = "none" \/ (kept = "full" <=> event = "user")
        /\ Loses(kept \in {"none", "part"})
        /\ history' = Append(history, [event |-> event, text |-> text, turn |-> t])
        /\ journal' = journal \o (CASE kept = "none" -> <<>>
                                    [] kept = "part" -> <<part>>
                                    [] kept = "both" -> <<part, full>>
                                    [] kept = "full" -> <<full>>)
        /\ message' = IF event = "agent" THEN message + 1 ELSE message
        /\ turn' = t /\ active' = TRUE /\ backendTurn' = t
        /\ UNCHANGED <<provider, matcher, startedTurn, phase, replay, replays, intact,
                       backed>>

EndTurn(kept) ==
    /\ phase = "live" /\ active /\ active' = FALSE /\ replays < MaxReplays
    /\ Loses(~kept)
    /\ journal' = IF kept THEN Append(journal, Ended(turn)) ELSE journal
    /\ UNCHANGED <<provider, history, matcher, turn, startedTurn, backendTurn, message, phase, replay,
                   replays, intact, backed>>

-----------------------------------------------------------------------------
(* Replays.                                                                *)

\* deliver stamps a message that names no turn with the session's last one.
Stamp(i, session) == IF provider.own THEN history[i].turn ELSE session

\* A replay can be matched exactly: the matcher knows what the journal holds,
\* which lacks nothing but the end of the history; and a message is told from
\* the others by its ID, or the replay starts at the beginning.
Recorded(records) == {records[i].of : i \in 1..Len(records)} \ {0}
Exact(m, records, from) ==
    LET there == Recorded(m.records)
    IN  /\ m.records = NewReplayMatcher(records).records
        /\ there = 1..Cardinality(there)
        /\ IF provider.ids = "same" THEN from <= Cardinality(there) + 1
           ELSE from = 1 /\ \A i \in 1..Len(m.records) : m.records[i].text # "part"

Begin(m, records, from, resume) ==
    /\ replays' = replays + 1
    /\ phase' = "replay"
    /\ replay' = [from |-> from, next |-> from, resume |-> resume,
                  whole |-> from = 1 /\ backed']
    /\ intact' = (intact /\ m # <<>> /\ Exact(m, records, from))

\* The host dies, also during a replay, and a new one resumes the session:
\* Restore ends the turn that was under way, then prepareReplay reads the
\* journal, then the adapter opens the provider's session, which replays.
Resume(from) ==
    LET records == IF active THEN Append(journal, Ended(turn)) ELSE journal
    IN  /\ replays < MaxReplays
        /\ journal' = records /\ active' = FALSE
        /\ backendTurn' = startedTurn /\ message' = 0
        /\ matcher' = NewReplayMatcher(records) /\ backed' = TRUE
        /\ Begin(matcher', records, from, TRUE)
        /\ UNCHANGED <<provider, history, turn, startedTurn, lost>>

\* Restart opens it again with the matcher there is.
Restart(from) ==
    /\ phase = "live" /\ ~active /\ replays < MaxReplays
    /\ UNCHANGED <<provider, history, journal, matcher, turn, active, startedTurn, backendTurn,
                   message, lost, backed>>
    /\ Begin(matcher, journal, from, FALSE)

\* One replayed message: the first one resets the matcher; a message it
\* matches, or one of a turn that ended, goes no further; the others are
\* recorded, in the matcher and in the journal, unless the append fails.
ReplayNext(kept) ==
    LET i == replay.next
        h == history[i]
        t == Stamp(i, backendTurn)
        key == [event |-> h.event,
                id |-> CASE provider.ids = "none" -> 0 [] provider.ids = "same" -> i
                         [] OTHER -> MaxHistory * replays + i,
                text |-> h.text, source |-> Source(h.event, t, message + 1), turn |-> t, of |-> i]
        m == IF matcher # <<>> /\ i = replay.from THEN Reset(matcher) ELSE matcher
        known == m # <<>> /\ Candidates(m, key) # {}
        over == m # <<>> /\ ~known /\ MatchesCompletedTurn(m, key)
        replaces == m # <<>> /\ Len(append(m, key).records) = Len(m.records)
    IN  /\ phase = "replay" /\ i <= Len(history) /\ (known \/ over => kept)
        /\ Loses(~kept)
        /\ replay' = [replay EXCEPT !.next = i + 1, !.whole = @ /\ kept /\ ~(replaces /\ ~known /\ ~over)]
        /\ message' = IF h.event = "agent" THEN message + 1 ELSE message
        /\ matcher' = CASE m = <<>> -> m
                        [] known -> Matched(m, key)
                        [] over -> m
                        [] OTHER -> append(m, key)
        /\ journal' = IF known \/ over \/ ~kept THEN journal ELSE Append(journal, key)
        /\ backed' = (backed /\ (m = <<>> \/ kept))
        /\ UNCHANGED <<provider, history, turn, active, startedTurn, backendTurn, phase, replays, intact>>

\* The provider's session is open, whether it replayed all or not; a Resume
\* writes session.started.
ReplayEnds ==
    /\ phase = "replay" /\ phase' = "live"
    /\ backendTurn' = 0
    /\ startedTurn' = IF replay.resume THEN 0 ELSE startedTurn
    /\ replay' = NoReplay
    /\ UNCHANGED <<provider, history, journal, matcher, turn, active, message, replays, lost,
                   intact, backed>>

Kept == {"none", "part", "both", "full"}

Next ==
    \/ \E event \in Messages, text \in Texts, kept \in Kept : Say(event, text, kept)
    \/ \E kept \in BOOLEAN : EndTurn(kept) \/ ReplayNext(kept)
    \/ \E from \in 1..(Len(history) + 1) : Resume(from) \/ Restart(from)
    \/ ReplayEnds

Spec == Init /\ [][Next]_vars

-----------------------------------------------------------------------------
(* Properties *)

TypeOK ==
    /\ provider \in Providers /\ Len(history) <= MaxHistory
    /\ \A i \in 1..Len(history) :
          history[i] \in [event : Messages, text : Texts, turn : 1..MaxHistory]
    /\ turn \in 0..MaxHistory /\ active \in BOOLEAN
    /\ startedTurn \in 0..1 /\ backendTurn \in 0..MaxHistory
    /\ phase \in {"live", "replay"} /\ replays \in 0..MaxReplays
    /\ matcher # <<>> =>
          /\ matcher.next \in 1..(matcher.limit + 1)
          /\ matcher.limit <= Len(matcher.records)
    /\ intact \in BOOLEAN

\* The messages of the journal, snapshots of one message taken together.
Entries ==
    {i \in 1..Len(journal) :
        /\ journal[i].of # 0
        /\ i < Len(journal) =>
              journal[i + 1].of # journal[i].of \/ journal[i + 1].source # journal[i].source}

\* However often the host dies, also in a replay, and is resumed or
\* restarted: while the replays can be matched exactly the journal holds no
\* message twice and holds them in the provider's order.
NoDuplicates ==
    intact => \A i, j \in Entries : i < j => journal[i].of < journal[j].of

\* A message the journal keeps cut short for good: only its first snapshot
\* was appended, and Match, which goes by the ID, takes that for the message.
Truncated(i) ==
    /\ provider.ids = "same"
    /\ \E j \in Entries : journal[j].of = i /\ journal[j].text = "part"

\* After a whole replay nothing of the history is missing, except what was
\* held for the rest of a turn that had ended, and what a truncated record
\* with its ID stands for: every other text is in a record of the journal, in
\* full, as often as the provider has it, also when messages say the same,
\* when the provider has no IDs or new ones, and when records were lost in
\* the middle.
Owed(c) ==
    {i \in 1..Len(history) :
        /\ history[i].event = c[1] /\ history[i].text = c[2]
        /\ ~(matcher # <<>> /\ MatchesCompletedTurn(matcher, [turn |-> Stamp(i, backendTurn)]))
        /\ ~Truncated(i)}
Held(c) == {i \in Entries : journal[i].event = c[1] /\ journal[i].text = c[2]}
NothingMissing ==
    (phase = "replay" /\ replay.whole /\ replay.next > Len(history)) =>
        \A c \in Messages \X Texts : Cardinality(Held(c)) >= Cardinality(Owed(c))
=============================================================================
