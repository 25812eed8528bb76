---------------------------- MODULE ReplayProofs ----------------------------
(***************************************************************************)
(* For every number of messages, replays, crashes and lost records: while  *)
(* every replay can be matched exactly, the journal holds no message twice *)
(* and holds them in the provider's order; and after a whole replay it     *)
(* lacks no message, however the replay had to be matched.                 *)
(***************************************************************************)
EXTENDS Replay, TLAPS, FiniteSetTheorems, WellFoundedInduction

-----------------------------------------------------------------------------
(* The states.                                                             *)

Records == [event : Messages \cup {"end"}, id : Nat, text : Texts \cup {"part", ""},
            source : Nat \X Nat \X Nat, turn : Nat, of : Nat]

Types ==
    /\ provider \in Providers
    /\ history \in Seq([event : Messages, text : Texts, turn : Nat])
    /\ Len(history) <= MaxHistory
    /\ journal \in Seq(Records)
    /\ \/ matcher = <<>>
       \/ matcher \in [records : Seq(Records), completed : SUBSET Nat, next : Nat, limit : Nat]
    /\ turn \in Nat /\ active \in BOOLEAN /\ startedTurn \in Nat /\ backendTurn \in Nat
    /\ message \in Nat /\ phase \in {"live", "replay"} /\ replays \in Nat
    /\ replay \in [from : Nat, next : Nat, resume : BOOLEAN, whole : BOOLEAN]
    /\ phase = "replay" => 1 <= replay.from /\ replay.from <= replay.next
    /\ intact \in BOOLEAN

\* A record is the end of a turn or says what a message of the history says,
\* with an ID that no later replay gives anew.
Told(r) ==
    /\ r.of = 0 <=> r.event = "end"
    /\ r.of # 0 => /\ r.of <= Len(history) /\ r.event = history[r.of].event
                   /\ r.text \in {"part", history[r.of].text}
    /\ provider.ids = "same" => r.id = r.of
    /\ r.id <= MaxHistory * (replays + 1)

\* The messages of a sequence of records come in order; only a first
\* snapshot is followed by another record of the same message.
Rising(s) ==
    \A p, q \in 1..Len(s) : p < q /\ s[p].of # 0 /\ s[q].of # 0 =>
        \/ s[p].of < s[q].of
        \/ s[p].of = s[q].of /\ s[p].text = "part"

\* The other record is the next one.
Paired(s) ==
    \A p, q \in 1..Len(s) : p < q /\ s[p].of # 0 /\ s[p].of = s[q].of =>
        q = p + 1 /\ s[p].source = s[q].source

\* The replay is past everything the journal holds.
CaughtUp == \A p \in 1..Len(journal) : journal[p].of < replay.next

\* The record at which the matcher's next search starts.
Cursor == IF replay.next = replay.from THEN 1 ELSE matcher.next

\* The matcher holds what the replay will bring up to the journal's last
\* message, none of it before its cursor; without IDs nothing else either.
CatchingUp ==
    LET records == matcher.records
        all == 1..Len(records)
    IN  /\ matcher # <<>>
        /\ Cursor >= 1
        /\ replay.next # replay.from => matcher.limit = Len(records)
        /\ \A a \in all : \E p \in 1..Len(journal) : records[a] = journal[p]
        /\ Rising(records)
        /\ \A p \in 1..Len(journal) : \A i \in replay.next..journal[p].of :
              \E a \in all : records[a].of = i
        /\ \A a \in all : records[a].of >= replay.next => Cursor <= a
        /\ \A a \in all : records[a].id <= MaxHistory * replays
        /\ provider.ids # "same" =>
              \A a \in all : /\ records[a].text # "part"
                             /\ records[a].of # 0 /\ Cursor <= a => records[a].of >= replay.next

Faithful ==
    /\ \A p \in 1..Len(journal) : Told(journal[p])
    /\ intact => Rising(journal) /\ Paired(journal)
    /\ intact /\ phase = "replay" => CaughtUp \/ CatchingUp

-----------------------------------------------------------------------------
(* The scan of the journal.                                                *)

Matchers == [records : Seq(Records), completed : SUBSET Nat, next : Nat, limit : Nat]

Empty == [records |-> <<>>, completed |-> {}, next |-> 1, limit |-> 0]

\* A set of numbers has a least one.
LEMMA Least ==
    ASSUME NEW S \in SUBSET Nat, S # {}
    PROVE  \E x \in S : \A y \in S : x <= y
  <1>1. PICK x \in S : \A y \in S : ~(<<y, x>> \in OpToRel(<, Nat))
    BY NatLessThanWellFounded, WFMin, Zenon
  <1>2. \A y \in S : ~(y < x)
    BY <1>1 DEF OpToRel
  <1> QED
    BY <1>2

\* append puts the record at the end, in place of the last one or behind it.
LEMMA Appended ==
    ASSUME NEW m \in Matchers, NEW key \in Records
    PROVE  LET r == append(m, key).records
               last == Len(m.records)
           IN  /\ append(m, key) \in Matchers
               /\ r # <<>> /\ r[Len(r)] = key
               /\ \A a \in 1..(Len(r) - 1) : a <= last /\ r[a] = m.records[a]
               /\ \/ /\ Len(r) = last + 1
                     /\ last > 0 => \/ m.records[last].source # key.source
                                    \/ m.records[last].event # key.event
                  \/ Len(r) = last /\ last > 0 /\ m.records[last].event = key.event
  <1> DEFINE last == Len(m.records)
  <1>1. m.records \in Seq(Records) /\ last \in Nat
    BY DEF Matchers
  <1>2. CASE last > 0 /\ m.records[last].source = key.source /\ sameStream(m.records[last], key)
    <2> DEFINE r == [m.records EXCEPT ![last] = key]
    <2>1. append(m, key) = [m EXCEPT !.records[last] = key]
      BY <1>2 DEF append
    <2>2. append(m, key) = [m EXCEPT !.records = r]
      BY <1>1, <1>2, <2>1 DEF Matchers
    <2>3. /\ r \in Seq(Records) /\ Len(r) = last /\ r # <<>> /\ r[last] = key
          /\ \A a \in 1..(last - 1) : r[a] = m.records[a]
      BY <1>1, <1>2
    <2>4. append(m, key).records = r /\ append(m, key) \in Matchers
      BY <2>2, <2>3 DEF Matchers
    <2> QED
      BY <1>1, <1>2, <2>3, <2>4 DEF sameStream
  <1>3. CASE ~(last > 0 /\ m.records[last].source = key.source /\ sameStream(m.records[last], key))
    <2> DEFINE r == Append(m.records, key)
               done == IF key.event = "end" THEN m.completed \cup {key.turn} ELSE m.completed
    <2>1. append(m, key) = [m EXCEPT !.records = r, !.completed = done]
      BY <1>3 DEF append
    <2>2. /\ r \in Seq(Records) /\ Len(r) = last + 1 /\ r # <<>> /\ r[last + 1] = key
          /\ \A a \in 1..last : r[a] = m.records[a]
      BY <1>1
    <2>3. done \in SUBSET Nat
      BY DEF Matchers, Records
    <2>4. append(m, key).records = r /\ append(m, key) \in Matchers
      BY <2>1, <2>2, <2>3 DEF Matchers
    <2>5. last > 0 => \/ m.records[last].source # key.source
                      \/ m.records[last].event # key.event
      BY <1>3 DEF sameStream
    <2> QED
      BY <1>1, <2>2, <2>4, <2>5
  <1> QED
    BY <1>2, <1>3

\* NewReplayMatcher's loop appends the records one by one.
LEMMA Scan ==
    ASSUME NEW records \in Seq(Records)
    PROVE  \E g : /\ g[0] = Empty
                  /\ \A n \in 1..Len(records) : g[n] = append(g[n - 1], records[n])
                  /\ NewReplayMatcher(records) =
                        [g[Len(records)] EXCEPT !.limit = Len(g[Len(records)].records)]
  <1> DEFINE Loop(g, N) ==
                 g = [n \in 0..N |-> IF n = 0 THEN Empty ELSE append(g[n - 1], records[n])]
             bad == {N \in Nat : ~\E g : Loop(g, N)}
  <1>1. bad = {}
    <2> SUFFICES ASSUME bad # {} PROVE FALSE
      OBVIOUS
    <2>1. PICK N \in bad : \A y \in bad : N <= y
      <3> HIDE DEF bad
      <3>1. bad \in SUBSET Nat
        BY DEF bad
      <3> QED
        BY <3>1, Least
    <2>2. N \in Nat /\ ~\E g : Loop(g, N)
      OBVIOUS
    <2>3. N # 0
      <3> SUFFICES ASSUME N = 0 PROVE FALSE
        OBVIOUS
      <3> DEFINE g == [n \in 0..0 |-> Empty]
      <3>1. Loop(g, 0)
        OBVIOUS
      <3> QED
        BY <2>2, <3>1
    <2>4. PICK h : Loop(h, N - 1)
      <3>1. N - 1 \in Nat /\ ~(N <= N - 1)
        BY <2>2, <2>3
      <3>2. N - 1 \notin bad
        BY <2>1, <3>1
      <3> QED
        BY <3>1, <3>2, Zenon
    <2> DEFINE g == [n \in 0..N |-> IF n = N THEN append(h[N - 1], records[N]) ELSE h[n]]
    <2>5. \A n \in 0..(N - 1) : h[n] = IF n = 0 THEN Empty ELSE append(h[n - 1], records[n])
      BY <2>4
    <2>6. \A n \in 0..(N - 1) : g[n] = h[n]
      BY <2>2
    <2>7. \A n \in 0..N : g[n] = IF n = 0 THEN Empty ELSE append(g[n - 1], records[n])
      <3> SUFFICES ASSUME NEW n \in 0..N
                   PROVE  g[n] = IF n = 0 THEN Empty ELSE append(g[n - 1], records[n])
        OBVIOUS
      <3>1. CASE n = N
        BY <2>2, <2>3, <2>6, <3>1
      <3>2. CASE n # N
        <4>1. n \in 0..(N - 1) /\ (n # 0 => n - 1 \in 0..(N - 1))
          BY <2>2, <3>2
        <4> HIDE DEF g
        <4> QED
          BY <2>5, <2>6, <4>1
      <3> QED
        BY <3>1, <3>2
    <2>8. g = [n \in 0..N |-> g[n]]
      OBVIOUS
    <2> HIDE DEF g
    <2>9. Loop(g, N)
      BY <2>7, <2>8
    <2> QED
      BY <2>2, <2>9
  <1>2. \E g : Loop(g, Len(records))
    BY <1>1
  <1> DEFINE f == CHOOSE g : Loop(g, Len(records))
  <1>3. Loop(f, Len(records))
    BY <1>2, Zenon
  <1>4. NewReplayMatcher(records) = [f[Len(records)] EXCEPT !.limit = Len(f[Len(records)].records)]
    BY Zenon DEF NewReplayMatcher, Empty
  <1> HIDE DEF f
  <1>5. f[0] = Empty /\ \A n \in 1..Len(records) : f[n] = append(f[n - 1], records[n])
    BY <1>3
  <1> QED
    BY <1>4, <1>5

\* What the matcher holds after the scan comes from the journal.
LEMMA ScanTypes ==
    ASSUME NEW records \in Seq(Records)
    PROVE  NewReplayMatcher(records) \in Matchers
  <1>1. PICK g : /\ g[0] = Empty
                 /\ \A n \in 1..Len(records) : g[n] = append(g[n - 1], records[n])
                 /\ NewReplayMatcher(records) =
                       [g[Len(records)] EXCEPT !.limit = Len(g[Len(records)].records)]
    BY Scan
  <1> DEFINE bad == {n \in 0..Len(records) : g[n] \notin Matchers}
  <1>2. bad = {}
    <2> SUFFICES ASSUME bad # {} PROVE FALSE
      OBVIOUS
    <2>1. PICK n \in bad : \A y \in bad : n <= y
      <3>1. bad \in SUBSET Nat
        OBVIOUS
      <3> HIDE DEF bad
      <3> QED
        BY <3>1, Least
    <2>2. n # 0
      <3>1. Empty \in Matchers
        BY DEF Empty, Matchers
      <3> QED
        BY <1>1, <2>1, <3>1
    <2>3. n - 1 \in 0..Len(records) /\ ~(n <= n - 1) /\ n \in 1..Len(records)
      BY <2>2
    <2>4. g[n - 1] \in Matchers /\ records[n] \in Records
      BY <2>1, <2>3
    <2>5. append(g[n - 1], records[n]) \in Matchers
      BY <2>4, Appended
    <2> QED
      BY <1>1, <2>3, <2>5
  <1>3. Len(records) \in 0..Len(records)
    OBVIOUS
  <1>4. g[Len(records)] \in Matchers
    BY <1>2, <1>3
  <1>5. Len(g[Len(records)].records) \in Nat
    BY <1>4 DEF Matchers
  <1> QED
    BY <1>1, <1>4, <1>5 DEF Matchers

\* The records of the matcher are the journal's, in its order, and as far as
\* the journal's last message.
LEMMA ScanRises ==
    ASSUME NEW records \in Seq(Records), Rising(records),
           \A p \in 1..Len(records) : records[p].of = 0 <=> records[p].event = "end"
    PROVE  LET r == NewReplayMatcher(records).records IN
           /\ \A a \in 1..Len(r) : \E p \in 1..Len(records) : r[a] = records[p]
           /\ Rising(r)
           /\ \A p \in 1..Len(records) : records[p].of # 0 =>
                 \E a \in 1..Len(r) : r[a].of >= records[p].of
  <1>1. PICK g : /\ g[0] = Empty
                 /\ \A n \in 1..Len(records) : g[n] = append(g[n - 1], records[n])
                 /\ NewReplayMatcher(records) =
                       [g[Len(records)] EXCEPT !.limit = Len(g[Len(records)].records)]
    BY Scan
  <1> DEFINE From(n, r) == \A a \in 1..Len(r) : \E p \in 1..n : r[a] = records[p]
             Reaches(n, r) == \A p \in 1..n : records[p].of # 0 =>
                                  \E a \in 1..Len(r) : r[a].of >= records[p].of
             P(n) == /\ g[n] \in Matchers /\ From(n, g[n].records)
                     /\ Rising(g[n].records) /\ Reaches(n, g[n].records)
             bad == {n \in 0..Len(records) : ~P(n)}
  <1>2. P(0)
    <2>1. g[0] \in Matchers /\ g[0].records = <<>>
      BY <1>1 DEF Empty, Matchers
    <2> QED
      BY <2>1 DEF Rising
  <1>3. ASSUME NEW n \in 1..Len(records), P(n - 1)
        PROVE  P(n)
    <2> DEFINE old == g[n - 1].records
               key == records[n]
               r == g[n].records
               last == Len(old)
    <2>1. key \in Records /\ g[n - 1] \in Matchers /\ old \in Seq(Records)
      BY <1>3 DEF Matchers
    <2>2. /\ g[n] \in Matchers /\ r # <<>> /\ r[Len(r)] = key
          /\ \A a \in 1..(Len(r) - 1) : a <= last /\ r[a] = old[a]
          /\ Len(r) = last + 1 \/ (Len(r) = last /\ old[last].event = key.event)
      <3> DEFINE m == g[n - 1]
                 k == key
      <3>1. g[n] = append(m, k)
        BY <1>1
      <3>2. m \in Matchers /\ k \in Records
        BY <2>1
      <3> HIDE DEF m, k
      <3> DEFINE s == append(m, k).records
      <3>3. /\ append(m, k) \in Matchers /\ s # <<>> /\ s[Len(s)] = k
            /\ \A a \in 1..(Len(s) - 1) : a <= Len(m.records) /\ s[a] = m.records[a]
            /\ \/ Len(s) = Len(m.records) + 1
               \/ Len(s) = Len(m.records) /\ m.records[Len(m.records)].event = k.event
        BY <3>2, Appended
      <3> QED
        BY <3>1, <3>3 DEF m, k
    <2>3. r \in Seq(Records) /\ Len(r) \in Nat /\ Len(r) > 0 /\ last \in Nat
      BY <2>1, <2>2, SMTT(30) DEF Matchers
    <2>4. From(n - 1, old) /\ Rising(old) /\ Reaches(n - 1, old)
      BY <1>3
    <2> HIDE DEF r, old
    <2>5. From(n, r)
      <3> SUFFICES ASSUME NEW a \in 1..Len(r) PROVE \E p \in 1..n : r[a] = records[p]
        OBVIOUS
      <3>1. CASE a = Len(r)
        BY <2>2, <3>1
      <3>2. CASE a # Len(r)
        <4>1. a \in 1..last /\ r[a] = old[a]
          BY <2>2, <2>3, <3>2
        <4>2. PICK p \in 1..(n - 1) : old[a] = records[p]
          BY <2>4, <4>1
        <4> QED
          BY <4>1, <4>2
      <3> QED
        BY <3>1, <3>2
    <2>6. Rising(r)
      <3> SUFFICES ASSUME NEW a \in 1..Len(r), NEW b \in 1..Len(r), a < b,
                          r[a].of # 0, r[b].of # 0
                   PROVE  \/ r[a].of < r[b].of
                          \/ r[a].of = r[b].of /\ r[a].text = "part"
        BY DEF Rising
      <3>1. a \in 1..last /\ r[a] = old[a]
        BY <2>2, <2>3, SMTT(30)
      <3>2. CASE b # Len(r)
        <4>1. b \in 1..last /\ r[b] = old[b]
          BY <2>2, <2>3, <3>2
        <4> QED
          BY <2>4, <3>1, <4>1 DEF Rising
      <3>3. CASE b = Len(r)
        <4>1. PICK p \in 1..(n - 1) : old[a] = records[p]
          BY <2>4, <3>1
        <4>2. p \in 1..Len(records) /\ n \in 1..Len(records) /\ p < n
          BY <4>1
        <4>3. r[b] = records[n] /\ r[a] = records[p]
          BY <2>2, <3>1, <3>3, <4>1
        <4> QED
          BY <4>2, <4>3 DEF Rising
      <3> QED
        BY <3>2, <3>3
    <2>7. Reaches(n, r)
      <3> SUFFICES ASSUME NEW p \in 1..n, records[p].of # 0
                   PROVE  \E a \in 1..Len(r) : r[a].of >= records[p].of
        OBVIOUS
      <3>1. \A q \in 1..Len(records) : records[q].of \in Nat
        <4>1. \A q \in 1..Len(records) : records[q] \in Records
          OBVIOUS
        <4> QED
          BY <4>1 DEF Records
      <3>2. CASE p = n
        BY <2>2, <2>3, <3>1, <3>2
      <3>3. CASE p # n
        <4>1. PICK a \in 1..last : old[a].of >= records[p].of
          BY <2>4, <3>3
        <4>2. CASE a \in 1..(Len(r) - 1)
          BY <2>2, <2>3, <4>1, <4>2, SMTT(30)
        <4>3. CASE a \notin 1..(Len(r) - 1)
          <5>1. a = last /\ Len(r) = last /\ old[last].event = key.event
            BY <2>2, <2>3, <4>3
          <5>2. PICK q \in 1..(n - 1) : old[last] = records[q]
            BY <2>4, <5>1
          <5>3. q \in 1..Len(records) /\ n \in 1..Len(records) /\ q < n
            BY <5>2
          <5>4. p \in 1..Len(records)
            BY <5>3
          <5>5. records[q].of >= records[p].of /\ records[q].of # 0
            BY <3>1, <4>1, <5>1, <5>2, <5>3, <5>4
          <5>6. key.of # 0
            BY <5>1, <5>2, <5>3, <5>5
          <5>7. records[q].of <= key.of
            BY <3>1, <5>3, <5>5, <5>6 DEF Rising
          <5>8. Len(r) \in 1..Len(r) /\ r[Len(r)].of >= records[p].of
            BY <2>2, <2>3, <3>1, <5>3, <5>4, <5>5, <5>7, SMTT(30)
          <5> QED
            BY <5>8
        <4> QED
          BY <4>2, <4>3
      <3> QED
        BY <3>2, <3>3
    <2> QED
      BY <2>2, <2>5, <2>6, <2>7 DEF r
  <1>4. bad = {}
    <2> SUFFICES ASSUME bad # {} PROVE FALSE
      OBVIOUS
    <2>1. bad \in SUBSET Nat /\ bad \in SUBSET (0..Len(records))
      OBVIOUS
    <2> HIDE DEF P
    <2>2. PICK n \in bad : \A y \in bad : n <= y
      <3> HIDE DEF bad
      <3> QED
        BY <2>1, Least
    <2>3. n # 0
      BY <1>2
    <2>4. n - 1 \in 0..Len(records) /\ ~(n <= n - 1) /\ n \in 1..Len(records)
      BY <2>1, <2>3
    <2>5. P(n - 1)
      BY <2>2, <2>4
    <2> QED
      BY <1>3, <2>4, <2>5
  <1> HIDE DEF P
  <1>5. P(Len(records))
    BY <1>4
  <1>6. NewReplayMatcher(records).records = g[Len(records)].records
    BY <1>1, <1>5, SMTT(30) DEF P, Matchers
  <1> QED
    BY <1>5, <1>6 DEF P

-----------------------------------------------------------------------------
(* The message that is replayed next.                                      *)

\* What it is recorded as, and the matcher it is looked up in.
Key ==
    LET h == history[replay.next]
        t == Stamp(replay.next, backendTurn)
    IN  [event |-> h.event,
         id |-> CASE provider.ids = "none" -> 0 [] provider.ids = "same" -> replay.next
                  [] OTHER -> MaxHistory * replays + replay.next,
         text |-> h.text, source |-> Source(h.event, t, message + 1), turn |-> t,
         of |-> replay.next]

Current == IF matcher # <<>> /\ replay.next = replay.from THEN Reset(matcher) ELSE matcher

Known == Current # <<>> /\ Candidates(Current, Key) # {}
Over == Current # <<>> /\ ~Known /\ MatchesCompletedTurn(Current, Key)

\* What a step of the replay does, in these terms.
LEMMA ReplayStep ==
    ASSUME NEW kept \in BOOLEAN, ReplayNext(kept)
    PROVE  /\ phase = "replay" /\ replay.next <= Len(history)
           /\ \E whole \in BOOLEAN : replay' = [replay EXCEPT !.next = replay.next + 1, !.whole = whole]
           /\ message' \in {message, message + 1}
           /\ matcher' = CASE Current = <<>> -> Current
                           [] Known -> Matched(Current, Key)
                           [] Over -> Current
                           [] OTHER -> append(Current, Key)
           /\ journal' \in {journal, Append(journal, Key)}
           /\ Known => journal' = journal
           /\ UNCHANGED <<provider, history, turn, active, startedTurn, backendTurn, phase,
                          replays, intact>>
  BY DEF ReplayNext, Key, Current, Known, Over

\* The first of some indices is one of them.
LEMMA FirstOf ==
    ASSUME NEW S \in SUBSET Nat, S # {}
    PROVE  First(S) \in S /\ \A y \in S : First(S) <= y
  BY Least DEF First

\* A record of the journal may carry it.
LEMMA KeyTypes ==
    ASSUME Types, phase = "replay", replay.next <= Len(history)
    PROVE  /\ replay.next \in 1..Len(history) /\ Key \in Records /\ Key.of = replay.next
           /\ Key.event \in Messages
           /\ Key.event = history[replay.next].event /\ Key.text = history[replay.next].text
           /\ Key.id = CASE provider.ids = "none" -> 0 [] provider.ids = "same" -> replay.next
                         [] OTHER -> MaxHistory * replays + replay.next
  <1>1. replay.next \in 1..Len(history) /\ replay.next \in Nat
    BY DEF Types
  <1>2. history[replay.next] \in [event : Messages, text : Texts, turn : Nat]
    <2> DEFINE said == [event : Messages, text : Texts, turn : Nat]
    <2>1. history \in Seq(said)
      BY DEF Types
    <2> HIDE DEF said
    <2>2. history[replay.next] \in said
      BY <1>1, <2>1
    <2> QED
      BY <2>2 DEF said
  <1>3. Stamp(replay.next, backendTurn) \in Nat
    BY <1>2 DEF Types, Stamp
  <1>4. Source(history[replay.next].event, Stamp(replay.next, backendTurn), message + 1)
          \in Nat \X Nat \X Nat
    BY <1>3, SMTT(30) DEF Types, Source
  <1>5. MaxHistory * replays + replay.next \in Nat
    <2>1. MaxHistory \in Nat /\ replays \in Nat
      BY ReplayAssumption DEF Types
    <2>2. MaxHistory * replays \in Nat
      BY <2>1
    <2> QED
      BY <1>1, <2>2
  <1>6. (CASE provider.ids = "none" -> 0 [] provider.ids = "same" -> replay.next
           [] OTHER -> MaxHistory * replays + replay.next) \in Nat
    BY <1>1, <1>5
  <1> QED
    BY <1>1, <1>2, <1>3, <1>4, <1>6 DEF Key, Records

\* A matcher is not nil.
LEMMA NotNil ==
    ASSUME NEW m \in Matchers
    PROVE  m # <<>>
  <1>1. DOMAIN m = {"records", "completed", "next", "limit"}
    BY DEF Matchers
  <1>2. DOMAIN <<>> = {}
    OBVIOUS
  <1> QED
    BY <1>1, <1>2

\* The matcher before the step.
LEMMA CurrentTypes ==
    ASSUME Types
    PROVE  /\ Current = <<>> \/ Current \in Matchers
           /\ matcher # <<>> => Current # <<>> /\ Current.records = matcher.records
           /\ Current = <<>> => matcher = <<>>
           /\ matcher # <<>> /\ replay.next = replay.from =>
                 Current.next = 1 /\ Current.limit = Len(matcher.records)
           /\ replay.next # replay.from => Current = matcher
  <1>1. CASE matcher # <<>>
    <2>1. matcher \in Matchers
      BY <1>1 DEF Types, Matchers
    <2>2. Len(matcher.records) \in Nat
      BY <2>1 DEF Matchers
    <2>3. /\ Reset(matcher) \in Matchers /\ Reset(matcher).records = matcher.records
          /\ Reset(matcher).next = 1 /\ Reset(matcher).limit = Len(matcher.records)
      BY <2>1, <2>2 DEF Reset, Matchers
    <2> QED
      BY <1>1, <2>1, <2>3, NotNil DEF Current
  <1>2. CASE matcher = <<>>
    BY <1>2 DEF Current
  <1> QED
    BY <1>1, <1>2

\* The records that Match may stop at.
LEMMA CandidateTypes ==
    ASSUME NEW m \in Matchers, NEW key
    PROVE  Candidates(m, key) \in SUBSET Nat /\ Candidates(m, key) \subseteq m.next..m.limit
  <1>1. m.next \in Nat /\ m.limit \in Nat
    BY DEF Matchers
  <1> QED
    BY <1>1 DEF Candidates

\* Every step keeps the types.
LEMMA TypesStep ==
    ASSUME Types, [Next]_vars
    PROVE  Types'
  <1>1. ASSUME NEW event \in Messages, NEW text \in Texts, NEW kept \in Kept, Say(event, text, kept)
        PROVE  Types'
    <2> DEFINE t == IF active THEN turn ELSE turn + 1
               i == Len(history) + 1
               full == [event |-> event, id |-> IF provider.live THEN i ELSE 0, text |-> text,
                        source |-> Source(event, t, message + 1), turn |-> t, of |-> i]
               part == [full EXCEPT !.text = "part"]
    <2>1. t \in Nat /\ i \in Nat /\ Source(event, t, message + 1) \in Nat \X Nat \X Nat
      BY DEF Types, Source
    <2>2. full \in Records /\ part \in Records
      BY <2>1 DEF Records
    <2>3. /\ history' = Append(history, [event |-> event, text |-> text, turn |-> t])
          /\ journal' \in {journal \o <<>>, journal \o <<part>>, journal \o <<part, full>>,
                           journal \o <<full>>}
          /\ message' \in {message, message + 1}
          /\ turn' = t /\ active' = TRUE /\ backendTurn' = t
          /\ UNCHANGED <<provider, matcher, startedTurn, phase, replay, replays, intact>>
          /\ Len(history) < MaxHistory
      BY <1>1 DEF Say, Kept
    <2> HIDE DEF t, i, full, part
    <2>4. <<>> \in Seq(Records) /\ <<part>> \in Seq(Records) /\ <<full>> \in Seq(Records)
          /\ <<part, full>> \in Seq(Records)
      BY <2>2
    <2>5. journal' \in Seq(Records)
      <3>1. journal \in Seq(Records)
        BY DEF Types
      <3>2. \E more \in Seq(Records) : journal' = journal \o more
        BY <2>3, <2>4
      <3> QED
        BY <3>1, <3>2
    <2>6. /\ history' \in Seq([event : Messages, text : Texts, turn : Nat])
          /\ Len(history') <= MaxHistory
      <3> DEFINE said == [event : Messages, text : Texts, turn : Nat]
                 new == [event |-> event, text |-> text, turn |-> t]
      <3>1. history \in Seq(said) /\ new \in said
        BY <2>1 DEF Types
      <3>2. MaxHistory \in Nat
        BY ReplayAssumption
      <3> HIDE DEF said, new
      <3>3. history' = Append(history, new) /\ Len(history) < MaxHistory
        BY <2>3 DEF new
      <3>4. history' \in Seq(said) /\ Len(history') <= MaxHistory
        BY <3>1, <3>2, <3>3
      <3> QED
        BY <3>4 DEF said
    <2> QED
      BY <2>1, <2>3, <2>5, <2>6, SMTT(30) DEF Types
  <1>2. ASSUME NEW t \in Nat PROVE Ended(t) \in Records
    <2>1. Len(journal) + 1 \in Nat
      BY DEF Types
    <2>2. Source("end", t, 0) = <<0, 0, Len(journal) + 1>>
      BY DEF Source
    <2> QED
      BY <1>2, <2>1, <2>2 DEF Ended, Records
  <1>3. ASSUME NEW kept \in BOOLEAN, EndTurn(kept)
        PROVE  Types'
    <2>1. Ended(turn) \in Records
      BY <1>2 DEF Types
    <2>2. journal' \in Seq(Records)
      BY <1>3, <2>1 DEF EndTurn, Types
    <2> QED
      BY <1>3, <2>2 DEF EndTurn, Types
  <1>4. ASSUME NEW m, NEW records, NEW from \in Nat, NEW resume \in BOOLEAN,
               Begin(m, records, from, resume), 1 <= from
        PROVE  /\ replays' \in Nat /\ phase' = "replay" /\ intact' \in BOOLEAN
               /\ replay' \in [from : Nat, next : Nat, resume : BOOLEAN, whole : BOOLEAN]
               /\ 1 <= replay'.from /\ replay'.from <= replay'.next
    <2>1. replays' \in Nat /\ phase' = "replay" /\ intact' \in BOOLEAN
      BY <1>4 DEF Begin, Types
    <2>2. replay' = [from |-> from, next |-> from, resume |-> resume, whole |-> replay'.whole]
          /\ replay'.whole \in BOOLEAN
      BY <1>4 DEF Begin
    <2> QED
      BY <1>4, <2>1, <2>2
  <1>5. ASSUME NEW from \in 1..(Len(history) + 1), Resume(from)
        PROVE  Types'
    <2> DEFINE records == IF active THEN Append(journal, Ended(turn)) ELSE journal
    <2>1. Ended(turn) \in Records
      BY <1>2 DEF Types
    <2>2. records \in Seq(Records)
      BY <2>1 DEF Types
    <2>3. NewReplayMatcher(records) \in Matchers
      BY <2>2, ScanTypes
    <2>4. /\ journal' = records /\ active' = FALSE /\ backendTurn' = startedTurn /\ message' = 0
          /\ matcher' = NewReplayMatcher(records)
          /\ Begin(matcher', records, from, TRUE)
          /\ UNCHANGED <<provider, history, turn, startedTurn>>
      BY <1>5 DEF Resume
    <2>5. from \in Nat /\ 1 <= from
      BY DEF Types
    <2> HIDE DEF records
    <2>6. /\ replays' \in Nat /\ phase' = "replay" /\ intact' \in BOOLEAN
          /\ replay' \in [from : Nat, next : Nat, resume : BOOLEAN, whole : BOOLEAN]
          /\ 1 <= replay'.from /\ replay'.from <= replay'.next
      BY <1>4, <2>4, <2>5
    <2> QED
      BY <2>2, <2>3, <2>4, <2>6 DEF Types, Matchers
  <1>6. ASSUME NEW from \in 1..(Len(history) + 1), Restart(from)
        PROVE  Types'
    <2>1. from \in Nat /\ 1 <= from
      BY DEF Types
    <2>2. /\ Begin(matcher, journal, from, FALSE)
          /\ UNCHANGED <<provider, history, journal, matcher, turn, active, startedTurn,
                         backendTurn, message>>
      BY <1>6 DEF Restart
    <2>3. /\ replays' \in Nat /\ phase' = "replay" /\ intact' \in BOOLEAN
          /\ replay' \in [from : Nat, next : Nat, resume : BOOLEAN, whole : BOOLEAN]
          /\ 1 <= replay'.from /\ replay'.from <= replay'.next
      BY <1>4, <2>1, <2>2
    <2> QED
      BY <2>2, <2>3 DEF Types
  <1>7. ASSUME NEW kept \in BOOLEAN, ReplayNext(kept)
        PROVE  Types'
    <2>1. /\ phase = "replay" /\ replay.next <= Len(history)
          /\ \E whole \in BOOLEAN : replay' = [replay EXCEPT !.next = replay.next + 1, !.whole = whole]
          /\ message' \in {message, message + 1}
          /\ matcher' = CASE Current = <<>> -> Current
                          [] Known -> Matched(Current, Key)
                          [] Over -> Current
                          [] OTHER -> append(Current, Key)
          /\ journal' \in {journal, Append(journal, Key)}
          /\ UNCHANGED <<provider, history, turn, active, startedTurn, backendTurn, phase,
                         replays, intact>>
      BY <1>7, ReplayStep
    <2>2. Key \in Records
      BY <2>1, KeyTypes
    <2>3. matcher' = <<>> \/ matcher' \in Matchers
      <3>1. CASE Current = <<>>
        BY <2>1, <3>1 DEF Known, Over
      <3>2. CASE Current # <<>>
        <4>1. Current \in Matchers
          BY <3>2, CurrentTypes
        <4>2. append(Current, Key) \in Matchers
          BY <2>2, <4>1, Appended
        <4>3. Known => Matched(Current, Key) \in Matchers
          <5> SUFFICES ASSUME Candidates(Current, Key) # {}
                       PROVE  Matched(Current, Key) \in Matchers
            BY DEF Known
          <5>1. Candidates(Current, Key) \in SUBSET Nat
            BY <4>1, CandidateTypes
          <5>2. First(Candidates(Current, Key)) \in Nat
            BY <5>1, FirstOf
          <5> QED
            BY <4>1, <5>2 DEF Matched, Matchers
        <4> QED
          BY <2>1, <3>2, <4>1, <4>2, <4>3
      <3> QED
        BY <3>1, <3>2
    <2>4. journal' \in Seq(Records)
      <3>1. journal \in Seq(Records)
        BY DEF Types
      <3> QED
        BY <2>1, <2>2, <3>1
    <2>5. /\ replay' \in [from : Nat, next : Nat, resume : BOOLEAN, whole : BOOLEAN]
          /\ 1 <= replay'.from /\ replay'.from <= replay'.next
      <3>1. PICK whole \in BOOLEAN : replay' = [replay EXCEPT !.next = replay.next + 1, !.whole = whole]
        BY <2>1
      <3>2. /\ replay \in [from : Nat, next : Nat, resume : BOOLEAN, whole : BOOLEAN]
            /\ 1 <= replay.from /\ replay.from <= replay.next
        BY <2>1 DEF Types
      <3>3. replay' = [from |-> replay.from, next |-> replay.next + 1,
                       resume |-> replay.resume, whole |-> whole]
        BY <3>1, <3>2
      <3>4. replay.from \in Nat /\ replay.next + 1 \in Nat /\ replay.resume \in BOOLEAN
        BY <3>2
      <3>5. /\ replay'.from = replay.from /\ replay'.next = replay.next + 1
            /\ replay.next \in Nat
        BY <3>2, <3>3
      <3>6. replay' \in [from : Nat, next : Nat, resume : BOOLEAN, whole : BOOLEAN]
        BY <3>3, <3>4, Zenon
      <3> QED
        BY <3>2, <3>4, <3>5, <3>6
    <2>6. message' \in Nat
      BY <2>1 DEF Types
    <2>7. /\ provider' = provider /\ history' = history /\ turn' = turn /\ active' = active
          /\ startedTurn' = startedTurn /\ backendTurn' = backendTurn /\ phase' = phase
          /\ replays' = replays /\ intact' = intact
      BY <2>1
    <2> QED
      BY <2>3, <2>4, <2>5, <2>6, <2>7 DEF Types, Matchers
  <1>8. CASE ReplayEnds
    BY <1>8 DEF ReplayEnds, Types, NoReplay
  <1>9. CASE UNCHANGED vars
    BY <1>9 DEF vars, Types
  <1> QED
    BY <1>1, <1>3, <1>5, <1>6, <1>7, <1>8, <1>9 DEF Next

-----------------------------------------------------------------------------
(* What the journal tells.                                                 *)

\* An ID that a message may have had is one of an earlier replay.
LEMMA IDs ==
    ASSUME Types
    PROVE  /\ MaxHistory * replays \in Nat /\ MaxHistory * (replays + 1) \in Nat
           /\ MaxHistory * (replays + 1) = MaxHistory * replays + MaxHistory
           /\ MaxHistory <= MaxHistory * (replays + 1)
  <1>1. MaxHistory \in Nat /\ replays \in Nat
    BY ReplayAssumption DEF Types
  <1>2. MaxHistory * replays \in Nat /\ MaxHistory * (replays + 1) = MaxHistory * replays + MaxHistory
    BY <1>1
  <1> QED
    BY <1>1, <1>2

\* What a live turn or a replay adds: the messages of the journal still come
\* in order when the new ones come after them.
LEMMA Longer ==
    ASSUME NEW s \in Seq(Records), NEW more \in Seq(Records), Len(more) <= 2,
           Rising(s), Paired(s), NEW i \in Nat,
           \A p \in 1..Len(s) : s[p].of < i,
           \A k \in 1..Len(more) : more[k].of \in {0, i},
           Len(more) = 2 => more[1].text = "part" /\ more[1].source = more[2].source
    PROVE  Rising(s \o more) /\ Paired(s \o more)
  <1> DEFINE n == Len(s)
             all == s \o more
  <1>1. /\ n \in Nat /\ Len(more) \in Nat /\ Len(all) = n + Len(more)
        /\ \A p \in 1..n : all[p] = s[p]
        /\ \A k \in 1..Len(more) : all[n + k] = more[k]
    OBVIOUS
  <1>2. \A p \in 1..Len(s) : s[p].of \in Nat
    <2>1. \A p \in 1..Len(s) : s[p] \in Records
      OBVIOUS
    <2> QED
      BY <2>1 DEF Records
  <1>3. ASSUME NEW p \in 1..Len(all), NEW q \in 1..Len(all), p < q,
               all[p].of # 0, all[q].of # 0
        PROVE  /\ all[p].of < all[q].of \/ (all[p].of = all[q].of /\ all[p].text = "part")
               /\ all[p].of = all[q].of => q = p + 1 /\ all[p].source = all[q].source
    <2> HIDE DEF all
    <2>1. CASE q <= n
      <3>1. p \in 1..n /\ q \in 1..n /\ all[p] = s[p] /\ all[q] = s[q]
        BY <1>1, <1>3, <2>1
      <3>2. s[p].of < s[q].of \/ (s[p].of = s[q].of /\ s[p].text = "part")
        BY <1>3, <3>1 DEF Rising, n
      <3>3. s[p].of = s[q].of => q = p + 1 /\ s[p].source = s[q].source
        BY <1>3, <3>1 DEF Paired, n
      <3> QED
        BY <3>1, <3>2, <3>3
    <2>2. CASE q > n
      <3>1. q - n \in 1..Len(more) /\ all[q] = more[q - n]
        <4>1. q - n \in 1..Len(more) /\ n + (q - n) = q
          BY <1>1, <2>2
        <4> QED
          BY <1>1, <4>1
      <3>2. all[q].of = i
        BY <1>3, <3>1
      <3>3. CASE p <= n
        <4>1. p \in 1..n /\ all[p] = s[p]
          BY <1>1, <1>3, <3>3
        <4>2. all[p].of < i /\ all[p].of \in Nat
          BY <1>2, <4>1
        <4> QED
          BY <3>2, <4>2
      <3>4. CASE p > n
        <4>1. p = n + 1 /\ q = n + 2 /\ Len(more) = 2
          <5> DEFINE w == Len(more)
          <5>1. /\ n \in Nat /\ w \in Nat /\ w <= 2
                /\ p \in Nat /\ q \in Nat /\ q <= n + w
            BY <1>1
          <5>2. p < q /\ n < p
            BY <1>1, <1>3, <3>4
          <5> HIDE DEF n, w
          <5>3. p = n + 1 /\ q = n + 2 /\ w = 2
            BY <5>1, <5>2
          <5> QED
            BY <5>3 DEF w
        <4>2. all[p] = more[1] /\ all[q] = more[2] /\ 1 \in 1..Len(more)
          BY <1>1, <4>1
        <4>3. all[p].of = i
          BY <1>3, <4>2
        <4> QED
          BY <1>1, <3>2, <4>1, <4>2, <4>3
      <3> QED
        BY <1>1, <3>3, <3>4
    <2> QED
      BY <1>1, <2>1, <2>2
  <1> HIDE DEF all
  <1>4. Rising(all) /\ Paired(all)
    <2>1. Rising(all)
      BY <1>3 DEF Rising
    <2>2. Paired(all)
      BY <1>3 DEF Paired
    <2> QED
      BY <2>1, <2>2
  <1> QED
    BY <1>4 DEF all

\* The end of a turn is told, and disturbs no order.
LEMMA EndTold ==
    ASSUME Types, Faithful
    PROVE  LET s == Append(journal, Ended(turn)) IN
           /\ \A p \in 1..Len(s) : Told(s[p])
           /\ intact => Rising(s) /\ Paired(s)
  <1> DEFINE s == Append(journal, Ended(turn))
             e == Ended(turn)
  <1>1. journal \in Seq(Records) /\ turn \in Nat
    BY DEF Types
  <1>2. e.of = 0 /\ e.event = "end" /\ e.id = 0 /\ e.text = ""
    BY DEF Ended
  <1>3. Told(e)
    <2>1. 0 <= MaxHistory * (replays + 1)
      BY IDs
    <2> HIDE DEF e
    <2> QED
      BY <1>2, <2>1, Zenon DEF Told
  <1>4. ASSUME NEW p \in 1..Len(s)
        PROVE  Told(s[p])
    <2>1. CASE p = Len(journal) + 1
      BY <1>1, <1>3, <2>1
    <2>2. CASE p # Len(journal) + 1
      <3>1. p \in 1..Len(journal) /\ s[p] = journal[p]
        BY <1>1, <1>4, <2>2
      <3> QED
        BY <3>1 DEF Faithful
    <2> QED
      BY <2>1, <2>2
  <1>5. ASSUME NEW p \in 1..Len(s), s[p].of # 0
        PROVE  p \in 1..Len(journal) /\ s[p] = journal[p]
    <2>1. /\ Len(journal) \in Nat /\ p \in 1..(Len(journal) + 1)
          /\ s[Len(journal) + 1] = e
          /\ \A q \in 1..Len(journal) : s[q] = journal[q]
      BY <1>1
    <2> HIDE DEF s, e
    <2>2. p # Len(journal) + 1
      BY <1>2, <1>5, <2>1
    <2> QED
      BY <2>1, <2>2
  <1> HIDE DEF s
  <1>6. Len(s) = Len(journal) + 1 /\ Len(journal) \in Nat
    BY <1>1 DEF s
  <1>7. intact => Rising(s) /\ Paired(s)
    <2> SUFFICES ASSUME intact PROVE Rising(s) /\ Paired(s)
      BY Zenon
    <2>1. Rising(journal) /\ Paired(journal)
      BY DEF Faithful
    <2>2. Rising(s)
      BY <1>5, <1>6, <2>1 DEF Rising
    <2>3. Paired(s)
      BY <1>5, <1>6, <2>1 DEF Paired
    <2> QED
      BY <2>2, <2>3
  <1> QED
    BY <1>4, <1>7 DEF s

-----------------------------------------------------------------------------
(* A replay that can be matched exactly.                                   *)

\* What the matcher holds when one begins.
LEMMA Begins ==
    ASSUME Types, NEW m, NEW s \in Seq(Records), NEW from \in Nat, 1 <= from,
           Rising(s), \A p \in 1..Len(s) : Told(s[p]), Exact(m, s, from)
    PROVE  LET r == m.records IN
           /\ r \in Seq(Records)
           /\ \A a \in 1..Len(r) : \E p \in 1..Len(s) : r[a] = s[p]
           /\ Rising(r)
           /\ \A p \in 1..Len(s) : \A i \in from..s[p].of : \E a \in 1..Len(r) : r[a].of = i
           /\ \A a \in 1..Len(r) : r[a].id <= MaxHistory * (replays + 1)
           /\ provider.ids # "same" =>
                 \A a \in 1..Len(r) : r[a].text # "part" /\ (r[a].of # 0 => r[a].of >= from)
  <1> DEFINE r == m.records
             there == Recorded(r)
             c == Cardinality(there)
  <1>1. /\ r = NewReplayMatcher(s).records /\ there = 1..c
        /\ provider.ids # "same" => from = 1 /\ \A a \in 1..Len(r) : r[a].text # "part"
    BY DEF Exact
  <1>2. r \in Seq(Records)
    <2>1. NewReplayMatcher(s) \in Matchers
      BY ScanTypes
    <2> QED
      BY <1>1, <2>1 DEF Matchers
  <1>3. \A p \in 1..Len(s) : s[p].of = 0 <=> s[p].event = "end"
    BY DEF Told
  <1>4. /\ \A a \in 1..Len(r) : \E p \in 1..Len(s) : r[a] = s[p]
        /\ Rising(r)
        /\ \A p \in 1..Len(s) : s[p].of # 0 => \E a \in 1..Len(r) : r[a].of >= s[p].of
    BY <1>1, <1>3, ScanRises
  <1> HIDE DEF r
  <1>5. \A p \in 1..Len(s) : s[p].of \in Nat /\ s[p].of <= Len(history) /\ s[p].id \in Nat
    <2> SUFFICES ASSUME NEW p \in 1..Len(s)
                 PROVE  s[p].of \in Nat /\ s[p].of <= Len(history) /\ s[p].id \in Nat
      OBVIOUS
    <2>1. s[p] \in Records /\ Told(s[p]) /\ Len(history) \in Nat
      BY DEF Types
    <2>2. s[p].of \in Nat /\ s[p].id \in Nat
      BY <2>1 DEF Records
    <2>3. s[p].of # 0 => s[p].of <= Len(history)
      BY <2>1 DEF Told
    <2> QED
      BY <2>1, <2>2, <2>3
  <1>6. \A a \in 1..Len(r) : r[a].of \in Nat /\ r[a].of <= Len(history)
    BY <1>4, <1>5
  <1>7. there = {r[a].of : a \in 1..Len(r)} \ {0}
    BY DEF Recorded
  <1>8. c \in Nat
    <2>1. there \in SUBSET Nat /\ \A x \in there : x <= Len(history)
      BY <1>6, <1>7
    <2>2. Len(history) \in Nat
      BY DEF Types
    <2> HIDE DEF there, c
    <2>3. IsFiniteSet(there)
      BY <2>1, <2>2, FS_BoundedSetOfNaturals
    <2> QED
      BY <2>3, FS_CardinalityType DEF c
  <1> HIDE DEF there, c
  <1>9. ASSUME NEW p \in 1..Len(s), NEW i \in from..s[p].of
        PROVE  \E a \in 1..Len(r) : r[a].of = i
    <2>1. s[p].of \in Nat /\ i \in Nat /\ 1 <= i /\ i <= s[p].of
      BY <1>5
    <2>2. PICK a \in 1..Len(r) : r[a].of >= s[p].of
      BY <1>4, <2>1
    <2>3. r[a].of \in Nat /\ r[a].of # 0
      BY <1>6, <2>1, <2>2
    <2>4. r[a].of \in there
      BY <1>7, <2>3
    <2>5. r[a].of <= c
      BY <1>1, <1>8, <2>4
    <2>6. i \in 1..c
      BY <1>8, <2>1, <2>2, <2>3, <2>5
    <2> QED
      BY <1>1, <1>7, <2>6
  <1>10. \A a \in 1..Len(r) : r[a].id <= MaxHistory * (replays + 1)
    <2>1. \A p \in 1..Len(s) : s[p].id <= MaxHistory * (replays + 1)
      BY DEF Told
    <2> QED
      BY <1>4, <2>1
  <1>11. provider.ids # "same" =>
            \A a \in 1..Len(r) : r[a].text # "part" /\ (r[a].of # 0 => r[a].of >= from)
    BY <1>1, <1>6
  <1> QED
    BY <1>2, <1>4, <1>9, <1>10, <1>11 DEF r

\* A message that the journal holds is matched, and the matcher stops at the
\* record of that message.
LEMMA Matches ==
    ASSUME Types, Faithful, phase = "replay", intact, ~CaughtUp
    PROVE  LET k == First(Candidates(Current, Key)) IN
           /\ replay.next <= Len(history) /\ matcher # <<>> /\ Known
           /\ k \in 1..Len(matcher.records) /\ matcher.records[k].of = replay.next
  <1> DEFINE r == matcher.records
             i == replay.next
             S == Candidates(Current, Key)
             from == {a \in Current.next..Current.limit : sameStream(Current.records[a], Key)}
             byID == {a \in from : Key.id # 0 /\ Current.records[a].id = Key.id}
  <1>1. CatchingUp
    BY DEF Faithful
  <1>2. matcher # <<>> /\ r \in Seq(Records) /\ i \in Nat /\ 1 <= i /\ Len(history) \in Nat
    BY <1>1 DEF CatchingUp, Types
  <1>3. \A p \in 1..Len(journal) : journal[p] \in Records /\ Told(journal[p])
    BY DEF Types, Faithful
  <1>4. PICK p \in 1..Len(journal) : ~(journal[p].of < i)
    BY DEF CaughtUp
  <1>5. journal[p].of \in Nat /\ i <= journal[p].of /\ journal[p].of <= Len(history)
    <2>1. journal[p].of \in Nat
      BY <1>3 DEF Records
    <2>2. i <= journal[p].of
      BY <1>2, <1>4, <2>1
    <2>3. journal[p].of # 0 => journal[p].of <= Len(history)
      BY <1>3 DEF Told
    <2> QED
      BY <1>2, <2>1, <2>2, <2>3
  <1>6. i <= Len(history) /\ i \in 1..Len(history)
    BY <1>2, <1>5
  <1>7. /\ Key \in Records /\ Key.of = i
        /\ Key.event = history[i].event /\ Key.text = history[i].text
        /\ Key.id = CASE provider.ids = "none" -> 0 [] provider.ids = "same" -> i
                      [] OTHER -> MaxHistory * replays + i
    BY <1>6, KeyTypes
  <1>8. /\ Current \in Matchers /\ Current # <<>> /\ Current.records = r
        /\ Current.next = Cursor /\ Current.limit = Len(r)
    <2>1. /\ Current = <<>> \/ Current \in Matchers
          /\ Current # <<>> /\ Current.records = r
          /\ i = replay.from => Current.next = 1 /\ Current.limit = Len(r)
          /\ i # replay.from => Current = matcher
      BY <1>2, CurrentTypes
    <2>2. i # replay.from => matcher.limit = Len(r)
      BY <1>1 DEF CatchingUp
    <2> QED
      BY <2>1, <2>2 DEF Cursor
  <1>9. Cursor \in Nat /\ 1 <= Cursor
    BY <1>1, <1>8 DEF CatchingUp, Matchers
  <1> HIDE DEF r
  <1>10. ASSUME NEW a \in 1..Len(r)
         PROVE  /\ r[a] \in Records /\ r[a].of \in Nat /\ r[a].id \in Nat
                /\ r[a].of = 0 <=> r[a].event = "end"
                /\ r[a].of # 0 => /\ r[a].event = history[r[a].of].event
                                  /\ r[a].text \in {"part", history[r[a].of].text}
                /\ provider.ids = "same" => r[a].id = r[a].of
    <2>1. PICK q \in 1..Len(journal) : r[a] = journal[q]
      BY <1>1 DEF CatchingUp, r
    <2>2. r[a] \in Records /\ Told(r[a])
      BY <1>3, <2>1
    <2>3. r[a].of \in Nat /\ r[a].id \in Nat
      BY <2>2 DEF Records
    <2> QED
      BY <2>2, <2>3 DEF Told
  <1>11. /\ Rising(r)
         /\ \A a \in 1..Len(r) : r[a].of >= i => Cursor <= a
         /\ \A a \in 1..Len(r) : r[a].id <= MaxHistory * replays
         /\ provider.ids # "same" =>
               \A a \in 1..Len(r) : /\ r[a].text # "part"
                                    /\ r[a].of # 0 /\ Cursor <= a => r[a].of >= i
    BY <1>1 DEF CatchingUp, r
  <1>12. PICK a \in 1..Len(r) : r[a].of = i
    <2>1. i \in i..journal[p].of
      BY <1>2, <1>5
    <2> QED
      BY <1>1, <2>1 DEF CatchingUp, r
  <1>13. a \in Cursor..Len(r) /\ r[a].event = Key.event
    <2>1. Cursor <= a
      BY <1>2, <1>11, <1>12
    <2>2. r[a].event = history[i].event
      BY <1>2, <1>10, <1>12
    <2> QED
      BY <1>7, <1>9, <2>1, <2>2
  <1>14. from = {b \in Cursor..Len(r) : r[b].event = Key.event}
    BY <1>8 DEF sameStream
  <1>15. byID = {b \in from : Key.id # 0 /\ r[b].id = Key.id}
    BY <1>8
  <1>16. S = IF byID # {} THEN byID ELSE {b \in from : Current.records[b].text = Key.text}
    BY DEF Candidates
  <1> HIDE DEF from, byID, S
  <1>17. S \in SUBSET Nat
    BY <1>8, CandidateTypes DEF S
  <1>18. CASE provider.ids = "same"
    <2>1. Key.id = i /\ i # 0
      BY <1>2, <1>7, <1>18
    <2>2. r[a].id = i
      BY <1>10, <1>12, <1>18
    <2>3. a \in byID
      BY <1>13, <1>14, <1>15, <2>1, <2>2
    <2>4. S = byID /\ S # {}
      BY <1>16, <2>3
    <2>5. First(S) \in byID
      BY <1>17, <2>4, FirstOf
    <2>6. First(S) \in 1..Len(r) /\ r[First(S)].id = i
      BY <1>2, <1>9, <1>14, <1>15, <2>1, <2>5
    <2>7. r[First(S)].of = i
      BY <1>10, <1>18, <2>6
    <2> QED
      BY <1>2, <1>6, <1>8, <2>4, <2>6, <2>7 DEF Known, S, r
  <1>19. CASE provider.ids # "same"
    <2>1. byID = {}
      <3>1. \A b \in from : b \in 1..Len(r)
        BY <1>2, <1>9, <1>14
      <3>2. Key.id = 0 \/ Key.id = MaxHistory * replays + i
        BY <1>7, <1>19
      <3> DEFINE top == MaxHistory * replays
      <3>3. top \in Nat
        BY IDs
      <3>4. \A b \in from : r[b].id <= top /\ r[b].id \in Nat
        BY <1>10, <1>11, <3>1
      <3>5. Key.id = 0 \/ Key.id = top + i
        BY <3>2
      <3> HIDE DEF top
      <3>6. \A b \in from : r[b].id # top + i
        BY <1>2, <3>3, <3>4
      <3> QED
        BY <1>15, <3>5, <3>6
    <2>2. S = {b \in from : r[b].text = Key.text}
      BY <1>8, <1>16, <2>1
    <2>3. r[a].text = Key.text
      <3>1. r[a].text \in {"part", history[i].text} /\ r[a].text # "part"
        BY <1>2, <1>10, <1>11, <1>12, <1>19
      <3> QED
        BY <1>7, <3>1
    <2>4. a \in S
      BY <1>13, <1>14, <2>2, <2>3
    <2> DEFINE k == First(S)
    <2>5. k \in S /\ k <= a
      BY <1>17, <2>4, FirstOf
    <2> HIDE DEF k
    <2>6. k \in 1..Len(r) /\ Cursor <= k /\ r[k].event = Key.event
      BY <1>2, <1>9, <1>14, <2>2, <2>5
    <2>7. r[k].of # 0
      <3>1. r[a].event # "end"
        BY <1>2, <1>10, <1>12
      <3> QED
        BY <1>10, <1>13, <2>6, <3>1
    <2>8. r[k].of >= i /\ r[k].text # "part"
      BY <1>11, <1>19, <2>6, <2>7
    <2>9. r[k].of = i
      <3>1. CASE k = a
        BY <1>12, <3>1
      <3>2. CASE k # a
        <4>1. k < a
          BY <2>5, <2>6, <3>2
        <4>2. r[k].of < r[a].of
          BY <1>2, <1>11, <1>12, <2>6, <2>7, <2>8, <4>1 DEF Rising
        <4> QED
          BY <1>2, <1>10, <1>12, <2>6, <2>8, <4>2
      <3> QED
        BY <3>1, <3>2
    <2> QED
      BY <1>2, <1>6, <1>8, <2>4, <2>6, <2>9 DEF Known, S, r, k
  <1> QED
    BY <1>18, <1>19

-----------------------------------------------------------------------------
(* The steps.                                                              *)

\* What is said live comes after everything the journal has.
LEMMA FaithfulSay ==
    ASSUME Types, Types', Faithful, NEW event \in Messages, NEW text \in Texts,
           NEW kept \in Kept, Say(event, text, kept)
    PROVE  Faithful'
  <1> DEFINE t == IF active THEN turn ELSE turn + 1
             i == Len(history) + 1
             full == [event |-> event, id |-> IF provider.live THEN i ELSE 0, text |-> text,
                      source |-> Source(event, t, message + 1), turn |-> t, of |-> i]
             part == [full EXCEPT !.text = "part"]
             new == [event |-> event, text |-> text, turn |-> t]
  <1>1. /\ history' = Append(history, new) /\ phase = "live" /\ Len(history) < MaxHistory
        /\ \E more \in {<<>>, <<part>>, <<part, full>>, <<full>>} : journal' = journal \o more
        /\ UNCHANGED <<provider, phase, replays, intact>>
    BY ZenonT(60) DEF Say, Kept
  <1>2. t \in Nat /\ i \in Nat /\ Source(event, t, message + 1) \in Nat \X Nat \X Nat
    <2>1. /\ Len(history) \in Nat /\ Len(journal) \in Nat /\ turn \in Nat /\ message \in Nat
          /\ active \in BOOLEAN
      BY SMTT(30) DEF Types
    <2>2. t \in Nat /\ i \in Nat
      BY <2>1
    <2> HIDE DEF t
    <2> QED
      BY <2>1, <2>2 DEF Source
  <1>3. full \in Records /\ part \in Records
    BY <1>2 DEF Records
  <1>4. /\ full.of = i /\ part.of = i /\ part.text = "part" /\ full.text = text
        /\ full.source = part.source /\ full.event = event /\ part.event = event
        /\ full.id = (IF provider.live THEN i ELSE 0) /\ part.id = full.id
    OBVIOUS
  <1>5. PICK more \in {<<>>, <<part>>, <<part, full>>, <<full>>} : journal' = journal \o more
    BY <1>1
  <1>6. new.event = event /\ new.text = text
    OBVIOUS
  <1> HIDE DEF t, full, part, new
  <1>7. /\ more \in Seq(Records) /\ Len(more) <= 2 /\ Len(more) \in Nat
        /\ \A k \in 1..Len(more) : more[k] \in {part, full}
        /\ Len(more) = 2 => more[1] = part /\ more[2] = full
    <2>1. CASE more = <<>>
      BY <2>1
    <2>2. CASE more = <<part>>
      BY <1>3, <2>2
    <2>3. CASE more = <<full>>
      BY <1>3, <2>3
    <2>4. CASE more = <<part, full>>
      <3>1. /\ more \in Seq(Records) /\ Len(more) = 2
            /\ more[1] = part /\ more[2] = full
        BY <1>3, <2>4
      <3>2. \A k \in 1..2 : k = 1 \/ k = 2
        OBVIOUS
      <3> QED
        BY <3>1, <3>2
    <2> QED
      BY <1>5, <2>1, <2>2, <2>3, <2>4
  <1>8. /\ journal \in Seq(Records) /\ Len(history) \in Nat
        /\ Len(history') = i /\ history'[i] = new
        /\ \A k \in 1..Len(history) : history'[k] = history[k]
    BY <1>1, SMTT(30) DEF Types
  <1>9. \A p \in 1..Len(journal) : journal[p].of \in Nat /\ journal[p].of < i
    <2> SUFFICES ASSUME NEW p \in 1..Len(journal)
                 PROVE  journal[p].of \in Nat /\ journal[p].of < i
      OBVIOUS
    <2>1. journal[p] \in Records /\ Told(journal[p])
      BY <1>8 DEF Faithful
    <2>2. journal[p].of \in Nat
      BY <2>1 DEF Records
    <2>3. journal[p].of # 0 => journal[p].of <= Len(history)
      BY <2>1 DEF Told
    <2> QED
      BY <1>8, <2>2, <2>3
  <1>10. intact' => Rising(journal') /\ Paired(journal')
    <2> SUFFICES ASSUME intact PROVE Rising(journal \o more) /\ Paired(journal \o more)
      BY <1>1, <1>5
    <2>1. Rising(journal) /\ Paired(journal)
      BY DEF Faithful
    <2>2. /\ \A k \in 1..Len(more) : more[k].of \in {0, i}
          /\ Len(more) = 2 => more[1].text = "part" /\ more[1].source = more[2].source
      BY <1>4, <1>7
    <2> QED
      BY <1>2, <1>7, <1>8, <1>9, <2>1, <2>2, Longer
  <1>11. ASSUME NEW p \in 1..Len(journal')
         PROVE  Told(journal[p])'
    <2>1. CASE p <= Len(journal)
      <3>1. p \in 1..Len(journal) /\ journal'[p] = journal[p]
        BY <1>5, <1>7, <1>8, <1>11, <2>1
      <3>2. Told(journal[p])
        BY <3>1 DEF Faithful
      <3>3. journal[p].of \in Nat
        BY <1>9, <3>1
      <3>4. journal[p].of # 0 => history'[journal[p].of] = history[journal[p].of]
                                 /\ journal[p].of <= Len(history')
        BY <1>8, <3>2, <3>3 DEF Told
      <3> QED
        BY <1>1, <3>1, <3>2, <3>4 DEF Told
    <2>2. CASE p > Len(journal)
      <3>1. journal'[p] \in {part, full}
        <4>1. /\ Len(journal) \in Nat /\ Len(journal') = Len(journal) + Len(more)
              /\ \A k \in 1..Len(more) : journal'[Len(journal) + k] = more[k]
          BY <1>5, <1>7, <1>8
        <4> DEFINE k == p - Len(journal)
        <4>2. k \in 1..Len(more) /\ Len(journal) + k = p
          BY <1>7, <4>1, <1>11, <2>2
        <4> QED
          BY <1>7, <4>1, <4>2
      <3> DEFINE r == journal'[p]
      <3>2. /\ r.of = i /\ r.event = event /\ r.text \in {"part", text}
            /\ r.id = IF provider.live THEN i ELSE 0
        BY <1>4, <3>1
      <3>3. provider.ids = "same" => provider.live
        BY DEF Types, Providers
      <3>4. i <= MaxHistory * (replays + 1) /\ 0 <= MaxHistory * (replays + 1)
        <4>1. i <= MaxHistory /\ MaxHistory \in Nat /\ i \in Nat
          <5> DEFINE n == Len(history)
          <5>1. n \in Nat /\ n < MaxHistory /\ i = n + 1
            BY <1>1, <1>8
          <5>2. MaxHistory \in Nat
            BY ReplayAssumption
          <5> HIDE DEF n, i
          <5> QED
            BY <5>1, <5>2
        <4> DEFINE top == MaxHistory * (replays + 1)
        <4>2. top \in Nat /\ MaxHistory <= top
          BY IDs
        <4> HIDE DEF top
        <4>3. i <= top /\ 0 <= top
          BY <4>1, <4>2
        <4> QED
          BY <4>3 DEF top
      <3>5. r.of # 0 /\ r.event # "end"
        BY <1>8, <3>2 DEF Messages
      <3>6. r.id <= MaxHistory * (replays + 1)
        BY <3>2, <3>4
      <3>7. r.of <= Len(history') /\ r.event = history'[r.of].event
            /\ r.text \in {"part", history'[r.of].text}
        BY <1>6, <1>8, <3>2
      <3>8. provider'.ids = "same" => r.id = r.of
        BY <1>1, <3>2, <3>3
      <3>9. r.id <= MaxHistory * (replays' + 1)
        BY <1>1, <3>6
      <3> QED
        BY <3>5, <3>7, <3>8, <3>9 DEF Told
    <2> QED
      BY <1>8, <2>1, <2>2
  <1>12. phase' # "replay"
    BY <1>1
  <1> QED
    BY <1>10, <1>11, <1>12, SMTT(30) DEF Faithful

\* A replay that begins finds the messages to come in the matcher.
LEMMA FaithfulBegin ==
    ASSUME Types, Types', NEW s \in Seq(Records), \A p \in 1..Len(s) : Told(s[p]),
           intact => Rising(s) /\ Paired(s),
           NEW from \in Nat, 1 <= from, NEW resume, Begin(matcher', s, from, resume),
           journal' = s, UNCHANGED <<provider, history>>
    PROVE  Faithful'
  <1>1. /\ replays' = replays + 1 /\ replay'.from = from /\ replay'.next = from
        /\ intact' <=> intact /\ matcher' # <<>> /\ Exact(matcher', s, from)
    BY DEF Begin, Types
  <1>2. ASSUME NEW p \in 1..Len(journal')
        PROVE  Told(journal[p])'
    <2>1. Told(s[p]) /\ s[p] \in Records
      BY <1>2
    <2>2. s[p].id \in Nat /\ replays \in Nat /\ MaxHistory \in Nat
      BY <2>1, ReplayAssumption DEF Records, Types
    <2>3. s[p].id <= MaxHistory * (replays + 1)
      BY <2>1 DEF Told
    <2>4. MaxHistory * (replays' + 1) = MaxHistory * (replays + 1) + MaxHistory
      BY <1>1, <2>2
    <2>5. MaxHistory * (replays + 1) \in Nat
      BY IDs
    <2> DEFINE x == MaxHistory * (replays + 1)
               y == MaxHistory * (replays' + 1)
    <2> HIDE DEF x, y
    <2>6. s[p].id <= y
      BY <2>2, <2>3, <2>4, <2>5 DEF x, y
    <2>7. s[p].id <= MaxHistory * (replays' + 1)
      BY <2>6 DEF y
    <2> QED
      BY <2>1, <2>7 DEF Told
  <1>3. ASSUME intact'
        PROVE  Rising(journal') /\ Paired(journal') /\ CatchingUp'
    <2>1. intact /\ matcher' # <<>> /\ Exact(matcher', s, from)
      BY <1>1, <1>3
    <2> DEFINE m == matcher'
               r == m.records
    <2> HIDE DEF m
    <2>2. Exact(m, s, from) /\ Rising(s) /\ Paired(s)
      BY <2>1 DEF m
    <2>3. /\ r \in Seq(Records)
          /\ \A a \in 1..Len(r) : \E p \in 1..Len(s) : r[a] = s[p]
          /\ Rising(r)
          /\ \A p \in 1..Len(s) : \A i \in from..s[p].of : \E a \in 1..Len(r) : r[a].of = i
          /\ \A a \in 1..Len(r) : r[a].id <= MaxHistory * (replays + 1)
          /\ provider.ids # "same" =>
                \A a \in 1..Len(r) : r[a].text # "part" /\ (r[a].of # 0 => r[a].of >= from)
      BY <2>2, Begins
    <2>4. Cursor' = 1
      BY <1>1 DEF Cursor
    <2>5. \A a \in 1..Len(r) : a \in Nat /\ 1 <= a
      BY <2>3
    <2>6. m # <<>>
      BY <2>1 DEF m
    <2> HIDE DEF r
    <2>7. CatchingUp'
      <3>1. r = matcher.records' /\ matcher' # <<>>
        BY <2>6 DEF m, r
      <3>2. Cursor' >= 1 /\ replay'.next = replay'.from
        BY <1>1, <2>4
      <3>3. \A a \in 1..Len(r) : \E p \in 1..Len(journal') : r[a] = journal'[p]
        BY <2>3
      <3>4. \A p \in 1..Len(journal') : \A i \in replay'.next..journal'[p].of :
               \E a \in 1..Len(r) : r[a].of = i
        BY <1>1, <2>3
      <3>5. \A a \in 1..Len(r) : r[a].of >= replay'.next => Cursor' <= a
        BY <2>4, <2>5
      <3>6. \A a \in 1..Len(r) : r[a].id <= MaxHistory * replays'
        BY <1>1, <2>3
      <3>7. provider'.ids # "same" =>
               \A a \in 1..Len(r) : /\ r[a].text # "part"
                                    /\ r[a].of # 0 /\ Cursor' <= a => r[a].of >= replay'.next
        BY <1>1, <2>3
      <3> QED
        BY <2>3, <3>1, <3>2, <3>3, <3>4, <3>5, <3>6, <3>7 DEF CatchingUp
    <2> QED
      BY <2>2, <2>7
  <1> QED
    BY <1>2, <1>3 DEF Faithful

\* A replayed message that the journal has is matched, and one that it does
\* not have comes after everything it has.
LEMMA FaithfulReplay ==
    ASSUME Types, Types', Faithful, NEW kept \in BOOLEAN, ReplayNext(kept)
    PROVE  Faithful'
  <1> DEFINE i == replay.next
  <1>1. /\ phase = "replay" /\ i <= Len(history)
        /\ \E whole \in BOOLEAN : replay' = [replay EXCEPT !.next = i + 1, !.whole = whole]
        /\ matcher' = CASE Current = <<>> -> Current
                        [] Known -> Matched(Current, Key)
                        [] Over -> Current
                        [] OTHER -> append(Current, Key)
        /\ journal' \in {journal, Append(journal, Key)}
        /\ Known => journal' = journal
        /\ UNCHANGED <<provider, history, phase, replays, intact>>
    BY ReplayStep
  <1>2. /\ i \in 1..Len(history) /\ Key \in Records /\ Key.of = i /\ Key.event \in Messages
        /\ Key.event = history[i].event /\ Key.text = history[i].text
        /\ Key.id = CASE provider.ids = "none" -> 0 [] provider.ids = "same" -> i
                      [] OTHER -> MaxHistory * replays + i
    BY <1>1, KeyTypes
  <1>3. /\ journal \in Seq(Records) /\ Len(history) \in Nat /\ Len(history) <= MaxHistory
        /\ replay \in [from : Nat, next : Nat, resume : BOOLEAN, whole : BOOLEAN]
        /\ i \in Nat /\ replay.from <= i /\ replay.from \in Nat
    BY <1>1 DEF Types
  <1>4. replay'.next = i + 1 /\ replay'.from = replay.from /\ replay'.next # replay'.from
    <2>1. replay'.next = i + 1 /\ replay'.from = replay.from
      BY <1>1, <1>3
    <2> QED
      BY <1>3, <2>1
  <1>5. Told(Key)
    <2>1. Key.of # 0 /\ Key.event # "end"
      BY <1>2, <1>3 DEF Messages
    <2>2. provider.ids = "same" => Key.id = Key.of
      BY <1>2
    <2>3. Key.id <= MaxHistory * (replays + 1)
      <3> DEFINE x == MaxHistory * replays
                 y == MaxHistory * (replays + 1)
      <3>1. x \in Nat /\ y \in Nat /\ y = x + MaxHistory /\ MaxHistory \in Nat
        BY IDs, ReplayAssumption
      <3>2. Key.id \in {0, i, x + i}
        BY <1>2
      <3> HIDE DEF x, y
      <3>3. i <= MaxHistory
        BY <1>1, <1>3, <3>1
      <3>4. Key.id <= y
        BY <1>3, <3>1, <3>2, <3>3
      <3> QED
        BY <3>4 DEF y
    <2> QED
      BY <1>1, <1>2, <2>1, <2>2, <2>3, Zenon DEF Told
  <1>6. ASSUME NEW p \in 1..Len(journal')
        PROVE  journal'[p] = Key \/ (p \in 1..Len(journal) /\ journal'[p] = journal[p])
    <2>1. CASE journal' = journal
      BY <1>6, <2>1
    <2>2. CASE journal' = Append(journal, Key)
      <3>1. /\ Len(journal) \in Nat /\ p \in 1..(Len(journal) + 1)
            /\ journal'[Len(journal) + 1] = Key
            /\ \A q \in 1..Len(journal) : journal'[q] = journal[q]
        BY <1>3, <1>6, <2>2
      <3> QED
        BY <3>1
    <2> QED
      BY <1>1, <2>1, <2>2
  <1>7. ASSUME NEW p \in 1..Len(journal')
        PROVE  Told(journal[p])'
    <2>1. Told(journal'[p])
      BY <1>5, <1>6, <1>7 DEF Faithful
    <2> QED
      BY <1>1, <2>1 DEF Told
  <1>8. ASSUME intact', CaughtUp
        PROVE  Rising(journal') /\ Paired(journal') /\ CaughtUp'
    <2>1. Rising(journal) /\ Paired(journal)
      BY <1>1, <1>8 DEF Faithful
    <2>2. CASE journal' = journal
      <3>1. CaughtUp'
        <4>1. \A p \in 1..Len(journal) : journal[p].of \in Nat
          <5>1. \A p \in 1..Len(journal) : journal[p] \in Records
            BY <1>3
          <5> QED
            BY <5>1 DEF Records
        <4> QED
          BY <1>3, <1>4, <1>8, <2>2, <4>1 DEF CaughtUp
      <3> QED
        BY <2>1, <2>2, <3>1
    <2>3. CASE journal' = Append(journal, Key)
      <3> DEFINE more == <<Key>>
      <3>1. /\ journal' = journal \o more /\ more \in Seq(Records) /\ Len(more) = 1
            /\ \A k \in 1..Len(more) : more[k].of \in {0, i}
        BY <1>2, <1>3, <2>3
      <3>2. \A p \in 1..Len(journal) : journal[p].of < i
        BY <1>8 DEF CaughtUp
      <3> HIDE DEF more, i
      <3>3. Rising(journal \o more) /\ Paired(journal \o more)
        <4>1. Len(more) <= 2 /\ Len(more) # 2 /\ i \in Nat
          BY <1>3, <3>1 DEF i
        <4> QED
          BY <1>3, <2>1, <3>1, <3>2, <4>1, Longer
      <3>4. \A p \in 1..Len(journal') : journal'[p].of < i + 1
        <4>1. \A p \in 1..Len(journal) : journal[p].of \in Nat
          <5>1. \A p \in 1..Len(journal) : journal[p] \in Records
            BY <1>3
          <5> QED
            BY <5>1 DEF Records
        <4> QED
          BY <1>2, <1>3, <1>6, <3>2, <4>1
      <3>5. CaughtUp'
        BY <1>4, <3>4 DEF CaughtUp
      <3> QED
        BY <3>1, <3>3, <3>5
    <2> QED
      BY <1>1, <2>2, <2>3
  <1>9. ASSUME intact', ~CaughtUp
        PROVE  Rising(journal') /\ Paired(journal') /\ CatchingUp'
    <2> DEFINE k == First(Candidates(Current, Key))
               r == matcher.records
    <2>1. intact /\ CatchingUp /\ Rising(journal) /\ Paired(journal)
      BY <1>1, <1>9 DEF Faithful
    <2>2. matcher # <<>> /\ Known /\ k \in 1..Len(r) /\ r[k].of = i
      BY <1>1, <1>9, <2>1, Matches
    <2>3. /\ Current \in Matchers /\ Current # <<>> /\ Current.records = r
          /\ replay.next = replay.from => Current.next = 1 /\ Current.limit = Len(r)
          /\ replay.next # replay.from => Current = matcher
      BY <2>2, CurrentTypes
    <2>4. /\ Rising(r)
          /\ \A a \in 1..Len(r) : \E p \in 1..Len(journal) : r[a] = journal[p]
          /\ \A p \in 1..Len(journal) : \A j \in i..journal[p].of : \E a \in 1..Len(r) : r[a].of = j
          /\ \A a \in 1..Len(r) : r[a].id <= MaxHistory * replays
          /\ provider.ids # "same" => \A a \in 1..Len(r) : r[a].text # "part"
          /\ i # replay.from => matcher.limit = Len(r)
      BY <2>1 DEF CatchingUp
    <2>5. Current.limit = Len(r)
      BY <2>3, <2>4
    <2>6. matcher' = [Current EXCEPT !.next = k + 1]
      <3>1. ~Over
        BY <2>2 DEF Over
      <3>2. matcher' = Matched(Current, Key)
        BY <1>1, <2>2, <2>3, <3>1
      <3> QED
        BY <3>2 DEF Matched
    <2>7. /\ matcher'.records = r /\ matcher'.limit = Len(r) /\ matcher'.next = k + 1
          /\ matcher' # <<>>
      BY <2>3, <2>5, <2>6 DEF Matchers
    <2>8. Cursor' = k + 1
      BY <1>4, <2>7 DEF Cursor
    <2>9. \A p \in 1..Len(journal) : journal[p].of \in Nat
      <3>1. \A p \in 1..Len(journal) : journal[p] \in Records
        BY <1>3
      <3> QED
        BY <3>1 DEF Records
    <2>10. \A a \in 1..Len(r) : r[a].of \in Nat /\ a \in Nat
      BY <2>4, <2>9
    <2> HIDE DEF k, r, i
    <2>11. k \in Nat /\ k >= 1 /\ i # 0
      BY <1>2, <1>3, <2>2
    <2>12. ASSUME NEW a \in 1..Len(r), r[a].of >= i + 1
           PROVE  k + 1 <= a
      <3>1. r[a].of # 0 /\ a # k
        BY <1>3, <2>2, <2>10, <2>12
      <3>2. ~(a < k)
        <4> SUFFICES ASSUME a < k PROVE FALSE
          OBVIOUS
        <4>1. r[a].of < r[k].of \/ r[a].of = r[k].of
          BY <2>2, <2>4, <2>11, <3>1 DEF Rising
        <4>2. i \in Nat
          BY <1>3
        <4> QED
          BY <2>2, <2>10, <2>12, <4>1, <4>2
      <3> QED
        BY <2>10, <2>11, <3>1, <3>2
    <2>13. ASSUME provider.ids # "same", NEW a \in 1..Len(r), r[a].of # 0, k + 1 <= a
           PROVE  r[a].of >= i + 1
      <3>1. k < a /\ r[k].text # "part"
        <4>1. k < a
          BY <2>10, <2>11, <2>13
        <4> QED
          BY <2>2, <2>4, <2>13, <4>1
      <3>2. r[k].of < r[a].of
        BY <2>2, <2>4, <2>11, <2>13, <3>1 DEF Rising
      <3> QED
        BY <1>3, <2>2, <2>10, <3>2
    <2>14. ASSUME NEW p \in 1..Len(journal), NEW j \in (i + 1)..journal[p].of
           PROVE  \E a \in 1..Len(r) : r[a].of = j
      <3>1. j \in i..journal[p].of
        BY <1>3, <2>9
      <3> QED
        BY <2>4, <3>1
    <2>15. journal' = journal
      BY <1>1, <2>2
    <2>16. CatchingUp'
      <3>1. r = matcher.records' /\ matcher' # <<>>
        BY <2>7
      <3>2. Cursor' >= 1 /\ matcher'.limit = Len(r)
        BY <2>7, <2>8, <2>11
      <3>3. \A a \in 1..Len(r) : \E p \in 1..Len(journal') : r[a] = journal'[p]
        BY <2>4, <2>15
      <3>4. \A p \in 1..Len(journal') : \A j \in replay'.next..journal'[p].of :
               \E a \in 1..Len(r) : r[a].of = j
        BY <1>4, <2>14, <2>15
      <3>5. \A a \in 1..Len(r) : r[a].of >= replay'.next => Cursor' <= a
        BY <1>4, <2>8, <2>12
      <3>6. \A a \in 1..Len(r) : r[a].id <= MaxHistory * replays'
        BY <1>1, <2>4
      <3>7. provider'.ids # "same" =>
               \A a \in 1..Len(r) : /\ r[a].text # "part"
                                    /\ r[a].of # 0 /\ Cursor' <= a => r[a].of >= replay'.next
        BY <1>1, <1>4, <2>4, <2>8, <2>13
      <3> QED
        BY <2>4, <3>1, <3>2, <3>3, <3>4, <3>5, <3>6, <3>7 DEF CatchingUp
    <2> QED
      BY <2>1, <2>15, <2>16
  <1> QED
    BY <1>7, <1>8, <1>9 DEF Faithful

\* Every step keeps the journal faithful.
LEMMA FaithfulStep ==
    ASSUME Types, Types', Faithful, [Next]_vars
    PROVE  Faithful'
  <1>1. ASSUME NEW event \in Messages, NEW text \in Texts, NEW kept \in Kept, Say(event, text, kept)
        PROVE  Faithful'
    BY <1>1, FaithfulSay
  <1>2. ASSUME NEW kept \in BOOLEAN, EndTurn(kept)
        PROVE  Faithful'
    <2>1. /\ phase' = "live" /\ UNCHANGED <<provider, history, replays, intact>>
          /\ journal' \in {journal, Append(journal, Ended(turn))}
      BY <1>2 DEF EndTurn
    <2>2. /\ \A p \in 1..Len(journal') : Told(journal'[p])
          /\ intact => Rising(journal') /\ Paired(journal')
      <3>1. CASE journal' = journal
        BY <3>1 DEF Faithful
      <3>2. CASE journal' = Append(journal, Ended(turn))
        BY <3>2, EndTold
      <3> QED
        BY <2>1, <3>1, <3>2
    <2>3. \A p \in 1..Len(journal') : Told(journal[p])'
      BY <2>1, <2>2 DEF Told
    <2> QED
      BY <2>1, <2>2, <2>3 DEF Faithful
  <1>3. ASSUME NEW from \in 1..(Len(history) + 1), Resume(from)
        PROVE  Faithful'
    <2> DEFINE s == IF active THEN Append(journal, Ended(turn)) ELSE journal
    <2>1. /\ journal' = s /\ Begin(matcher', s, from, TRUE) /\ UNCHANGED <<provider, history>>
      BY <1>3 DEF Resume
    <2>2. s \in Seq(Records) /\ from \in Nat /\ 1 <= from
      BY <2>1 DEF Types
    <2>3. /\ \A p \in 1..Len(s) : Told(s[p])
          /\ intact => Rising(s) /\ Paired(s)
      <3>1. CASE active
        BY <3>1, EndTold
      <3>2. CASE ~active
        BY <3>2 DEF Faithful
      <3> QED
        BY <3>1, <3>2
    <2> HIDE DEF s
    <2> QED
      BY <2>1, <2>2, <2>3, FaithfulBegin
  <1>4. ASSUME NEW from \in 1..(Len(history) + 1), Restart(from)
        PROVE  Faithful'
    <2>1. /\ journal' = journal /\ Begin(matcher', journal, from, FALSE)
          /\ UNCHANGED <<provider, history>>
      BY <1>4 DEF Restart
    <2>2. journal \in Seq(Records) /\ from \in Nat /\ 1 <= from
      BY DEF Types
    <2>3. /\ \A p \in 1..Len(journal) : Told(journal[p])
          /\ intact => Rising(journal) /\ Paired(journal)
      BY DEF Faithful
    <2> QED
      BY <2>1, <2>2, <2>3, FaithfulBegin
  <1>5. ASSUME NEW kept \in BOOLEAN, ReplayNext(kept)
        PROVE  Faithful'
    BY <1>5, FaithfulReplay
  <1>6. CASE ReplayEnds
    BY <1>6 DEF ReplayEnds, Faithful, Told
  <1>7. CASE UNCHANGED vars
    BY <1>7 DEF vars, Faithful, Told, CaughtUp, CatchingUp, Cursor
  <1> QED
    BY <1>1, <1>2, <1>3, <1>4, <1>5, <1>6, <1>7 DEF Next

\* The journal is faithful in every state.
LEMMA FaithfulInvariance == Spec => [](Types /\ Faithful)
  <1>1. Init => Types /\ Faithful
    <2> SUFFICES ASSUME Init PROVE Types /\ Faithful
      OBVIOUS
    <2>1. Types
      <3>1. /\ history \in Seq([event : Messages, text : Texts, turn : Nat])
            /\ Len(history) <= MaxHistory /\ journal \in Seq(Records)
        <4>1. history = <<>> /\ journal = <<>> /\ MaxHistory \in Nat
          BY ReplayAssumption DEF Init
        <4>2. \A S : <<>> \in Seq(S) /\ Len(<<>>) = 0
          OBVIOUS
        <4> QED
          BY <4>1, <4>2
      <3>2. replay \in [from : Nat, next : Nat, resume : BOOLEAN, whole : BOOLEAN]
        BY Zenon DEF Init, NoReplay
      <3>3. /\ provider \in Providers /\ matcher = <<>> /\ turn = 0 /\ active = FALSE
            /\ startedTurn \in 0..1 /\ backendTurn = 0 /\ message = 0 /\ phase = "live"
            /\ replays = 0 /\ intact = TRUE
        BY Zenon DEF Init
      <3>4. /\ turn \in Nat /\ startedTurn \in Nat /\ backendTurn \in Nat /\ message \in Nat
            /\ replays \in Nat
        BY <3>3
      <3>5. active \in BOOLEAN /\ intact \in BOOLEAN
        BY <3>3, Zenon
      <3>6. phase \in {"live", "replay"} /\ phase # "replay"
        BY <3>3
      <3> QED
        BY <3>1, <3>2, <3>3, <3>4, <3>5, <3>6, Zenon DEF Types
    <2>2. Faithful
      BY DEF Init, Faithful, Rising, Paired
    <2> QED
      BY <2>1, <2>2
  <1>2. Types /\ Faithful /\ [Next]_vars => (Types /\ Faithful)'
    BY TypesStep, FaithfulStep
  <1> QED
    BY <1>1, <1>2, PTL DEF Spec

\* While its replays can be matched exactly, a session's journal holds no
\* message twice and holds them in order, through any number of crashes,
\* resumes and restarts (ReplayMatcher.Match and deliverNow).
THEOREM ReplayNeverDuplicates == Spec => []NoDuplicates
  <1>1. Types /\ Faithful => NoDuplicates
    <2> SUFFICES ASSUME Types, Faithful, intact, NEW i \in Entries, NEW j \in Entries, i < j
                 PROVE  journal[i].of < journal[j].of
      BY DEF NoDuplicates
    <2>1. /\ i \in 1..Len(journal) /\ j \in 1..Len(journal) /\ Len(journal) \in Nat
          /\ journal[i].of # 0 /\ journal[j].of # 0
          /\ i < Len(journal) =>
                journal[i + 1].of # journal[i].of \/ journal[i + 1].source # journal[i].source
      BY DEF Entries, Types
    <2>2. Rising(journal) /\ Paired(journal)
      BY DEF Faithful
    <2>3. journal[i].of < journal[j].of \/ journal[i].of = journal[j].of
      BY <2>1, <2>2 DEF Rising
    <2>4. journal[i].of = journal[j].of => j = i + 1 /\ journal[i].source = journal[j].source
      BY <2>1, <2>2 DEF Paired
    <2> QED
      BY <2>1, <2>3, <2>4
  <1> QED
    BY <1>1, FaithfulInvariance, PTL

-----------------------------------------------------------------------------
(* Where the matcher's records are in the journal.                         *)

\* No other snapshot of the message follows among the first n records.
LastSnapshot(s, n, p) ==
    p < n => s[p + 1].of # s[p].of \/ s[p + 1].source # s[p].source

\* The records r are some of the first n of s, in their order, each the last
\* snapshot of its message there; e says where they are.
Backing(e, r, s, n) ==
    /\ \A a \in 1..Len(r) :
          /\ e[a] \in 1..n /\ r[a] = s[e[a]]
          /\ r[a].of # 0 => LastSnapshot(s, n, e[a])
    /\ \A a, b \in 1..Len(r) : a < b => e[a] < e[b]

Backed ==
    backed /\ matcher # <<>> => \E e : Backing(e, matcher.records, journal, Len(journal))

\* append and the journal take the same record.
LEMMA Backs ==
    ASSUME NEW s \in Seq(Records), NEW n \in 1..Len(s), NEW m \in Matchers,
           NEW e, Backing(e, m.records, s, n - 1),
           \A p, q \in 1..Len(s) :
              s[p].of # 0 /\ s[p].of = s[q].of => s[p].event = s[q].event
    PROVE  \E f : Backing(f, append(m, s[n]).records, s, n)
  <1> DEFINE old == m.records
             last == Len(old)
             key == s[n]
             r == append(m, key).records
             f == [a \in 1..Len(r) |-> IF a = Len(r) THEN n ELSE e[a]]
  <1>1. /\ key \in Records /\ old \in Seq(Records) /\ last \in Nat /\ n \in Nat /\ 1 <= n
        /\ Len(s) \in Nat /\ n <= Len(s)
    BY DEF Matchers
  <1>2. /\ append(m, key) \in Matchers /\ r # <<>> /\ r[Len(r)] = key
        /\ \A a \in 1..(Len(r) - 1) : a <= last /\ r[a] = old[a]
        /\ \/ /\ Len(r) = last + 1
              /\ last > 0 => old[last].source # key.source \/ old[last].event # key.event
           \/ Len(r) = last /\ last > 0 /\ old[last].event = key.event
    <2> DEFINE k == key
    <2>1. k \in Records
      BY <1>1
    <2> HIDE DEF k
    <2>2. LET t == append(m, k).records
              l == Len(m.records)
          IN  /\ append(m, k) \in Matchers
              /\ t # <<>> /\ t[Len(t)] = k
              /\ \A a \in 1..(Len(t) - 1) : a <= l /\ t[a] = m.records[a]
              /\ \/ /\ Len(t) = l + 1
                    /\ l > 0 => \/ m.records[l].source # k.source
                                \/ m.records[l].event # k.event
                 \/ Len(t) = l /\ l > 0 /\ m.records[l].event = k.event
      BY <2>1, Appended, Zenon
    <2> QED
      BY <2>2 DEF k
  <1>3. r \in Seq(Records) /\ Len(r) \in Nat /\ Len(r) > 0
    BY <1>2, SMTT(30) DEF Matchers
  <1>4. /\ \A a \in 1..last : /\ e[a] \in 1..(n - 1) /\ old[a] = s[e[a]]
                              /\ old[a].of # 0 => LastSnapshot(s, n - 1, e[a])
        /\ \A a, b \in 1..last : a < b => e[a] < e[b]
    BY DEF Backing
  <1> HIDE DEF r, old, key
  <1>5. f[Len(r)] = n /\ \A a \in 1..(Len(r) - 1) : a \in 1..last /\ f[a] = e[a] /\ r[a] = old[a]
    BY <1>1, <1>2, <1>3
  <1> HIDE DEF f
  <1>6. ASSUME NEW a \in 1..(Len(r) - 1)
        PROVE  /\ f[a] \in 1..(n - 1) /\ r[a] = s[f[a]]
               /\ r[a].of # 0 => LastSnapshot(s, n, f[a])
    <2>1. /\ a \in 1..last /\ f[a] \in 1..(n - 1) /\ r[a] = s[f[a]] /\ f[a] = e[a]
          /\ r[a].of # 0 => LastSnapshot(s, n - 1, f[a])
      BY <1>4, <1>5
    <2>2. CASE f[a] < n - 1
      BY <1>1, <2>1, <2>2 DEF LastSnapshot
    <2>3. CASE f[a] = n - 1
      <3>1. a = last
        <4> SUFFICES ASSUME a # last PROVE FALSE
          OBVIOUS
        <4>1. a < last /\ last \in 1..last
          BY <1>1, <2>1
        <4>2. e[a] < e[last] /\ e[last] \in 1..(n - 1)
          BY <1>4, <2>1, <4>1
        <4> QED
          BY <1>1, <2>1, <2>3, <4>2
      <3>2. old[last].source # key.source \/ old[last].event # key.event
        BY <1>1, <1>2, <1>3, <3>1
      <3>3. old[last] = s[n - 1] /\ r[a] = s[n - 1] /\ n - 1 \in 1..Len(s) /\ n \in 1..Len(s)
        BY <1>1, <1>5, <2>1, <2>3, <3>1
      <3>4. r[a].of # 0 => s[n].of # s[n - 1].of \/ s[n].source # s[n - 1].source
        BY <3>2, <3>3 DEF key
      <3>5. (n - 1) + 1 = n
        BY <1>1
      <3> QED
        BY <2>1, <2>3, <3>4, <3>5 DEF LastSnapshot
    <2> QED
      BY <1>1, <2>1, <2>2, <2>3
  <1>7. ASSUME NEW a \in 1..Len(r)
        PROVE  /\ f[a] \in 1..n /\ r[a] = s[f[a]]
               /\ r[a].of # 0 => LastSnapshot(s, n, f[a])
    <2>1. CASE a = Len(r)
      BY <1>1, <1>2, <1>5, <2>1 DEF LastSnapshot, key
    <2>2. CASE a # Len(r)
      <3>1. a \in 1..(Len(r) - 1)
        BY <1>3, <2>2
      <3>2. f[a] \in 1..(n - 1)
        BY <1>6, <3>1
      <3>3. f[a] \in 1..n
        BY <1>1, <3>2
      <3> QED
        BY <1>6, <3>1, <3>3
    <2> QED
      BY <2>1, <2>2
  <1>8. ASSUME NEW a \in 1..Len(r), NEW b \in 1..Len(r), a < b
        PROVE  f[a] < f[b]
    <2>1. a \in 1..(Len(r) - 1)
      BY <1>3, <1>8
    <2>2. CASE b = Len(r)
      BY <1>1, <1>5, <1>6, <2>1, <2>2
    <2>3. CASE b # Len(r)
      <3>1. b \in 1..(Len(r) - 1)
        BY <1>3, <2>3
      <3> QED
        BY <1>4, <1>5, <1>8, <2>1, <3>1
    <2> QED
      BY <2>2, <2>3
  <1>9. Backing(f, r, s, n)
    BY <1>7, <1>8 DEF Backing
  <1> QED
    BY <1>9 DEF r, key

\* The matcher of a Resume holds records of the journal.
LEMMA ScanBacked ==
    ASSUME NEW records \in Seq(Records),
           \A p, q \in 1..Len(records) :
              records[p].of # 0 /\ records[p].of = records[q].of => records[p].event = records[q].event
    PROVE  \E e : Backing(e, NewReplayMatcher(records).records, records, Len(records))
  <1>1. PICK g : /\ g[0] = Empty
                 /\ \A n \in 1..Len(records) : g[n] = append(g[n - 1], records[n])
                 /\ NewReplayMatcher(records) =
                       [g[Len(records)] EXCEPT !.limit = Len(g[Len(records)].records)]
    BY Scan
  <1> DEFINE P(n) == g[n] \in Matchers /\ \E e : Backing(e, g[n].records, records, n)
             bad == {n \in 0..Len(records) : ~P(n)}
  <1>2. P(0)
    <2>1. g[0] \in Matchers /\ g[0].records = <<>>
      BY <1>1 DEF Empty, Matchers
    <2>2. Backing(<<>>, g[0].records, records, 0)
      BY <2>1 DEF Backing
    <2> QED
      BY <2>1, <2>2
  <1>3. ASSUME NEW n \in 1..Len(records), P(n - 1)
        PROVE  P(n)
    <2>1. PICK e : Backing(e, g[n - 1].records, records, n - 1)
      BY <1>3
    <2> DEFINE m == g[n - 1]
    <2>2. m \in Matchers /\ records[n] \in Records /\ g[n] = append(m, records[n])
      BY <1>1, <1>3
    <2>3. Backing(e, m.records, records, n - 1)
      BY <2>1
    <2> HIDE DEF m
    <2>4. \E f : Backing(f, append(m, records[n]).records, records, n)
      BY <2>2, <2>3, Backs
    <2>5. append(m, records[n]) \in Matchers
      BY <2>2, Appended
    <2> QED
      BY <2>2, <2>4, <2>5
  <1>4. bad = {}
    <2> SUFFICES ASSUME bad # {} PROVE FALSE
      OBVIOUS
    <2>1. bad \in SUBSET Nat /\ bad \in SUBSET (0..Len(records))
      OBVIOUS
    <2> HIDE DEF P
    <2>2. PICK n \in bad : \A y \in bad : n <= y
      <3> HIDE DEF bad
      <3> QED
        BY <2>1, Least
    <2>3. n # 0
      BY <1>2
    <2>4. n - 1 \in 0..Len(records) /\ ~(n <= n - 1) /\ n \in 1..Len(records)
      BY <2>1, <2>3
    <2>5. P(n - 1)
      BY <2>2, <2>4
    <2> QED
      BY <1>3, <2>4, <2>5
  <1> HIDE DEF P
  <1>5. P(Len(records))
    BY <1>4
  <1>6. NewReplayMatcher(records).records = g[Len(records)].records
    BY <1>1, <1>5, SMTT(30) DEF P, Matchers
  <1> QED
    BY <1>5, <1>6 DEF P

\* Live turns add records of a new message, or of none.
LEMMA StillBacked ==
    ASSUME NEW s \in Seq(Records), NEW more \in Seq(Records), NEW r \in Seq(Records),
           NEW e, Backing(e, r, s, Len(s)),
           \A p \in 1..Len(s), k \in 1..Len(more) : s[p].of # 0 => s[p].of # more[k].of
    PROVE  Backing(e, r, s \o more, Len(s \o more))
  <1> DEFINE all == s \o more
             n == Len(s)
             N == Len(all)
  <1>1. /\ n \in Nat /\ Len(more) \in Nat /\ N = n + Len(more) /\ Len(r) \in Nat
        /\ \A p \in 1..n : all[p] = s[p]
        /\ \A k \in 1..Len(more) : all[n + k] = more[k]
    OBVIOUS
  <1> HIDE DEF all, N
  <1>2. ASSUME NEW a \in 1..Len(r)
        PROVE  /\ e[a] \in 1..N /\ r[a] = all[e[a]]
               /\ r[a].of # 0 => LastSnapshot(all, N, e[a])
    <2>1. /\ e[a] \in 1..n /\ r[a] = s[e[a]]
          /\ r[a].of # 0 => LastSnapshot(s, n, e[a])
      BY DEF Backing
    <2>2. e[a] \in 1..N /\ all[e[a]] = s[e[a]]
      BY <1>1, <2>1
    <2>3. CASE e[a] < n
      <3>1. e[a] + 1 \in 1..n
        BY <1>1, <2>1, <2>3
      <3>2. all[e[a] + 1] = s[e[a] + 1]
        BY <1>1, <3>1
      <3> QED
        BY <2>1, <2>2, <2>3, <3>2 DEF LastSnapshot
    <2>4. CASE e[a] = n
      <3>1. CASE N = n
        BY <2>1, <2>2, <2>4, <3>1 DEF LastSnapshot
      <3>2. CASE N # n
        <4>1. 1 \in 1..Len(more) /\ all[n + 1] = more[1]
          BY <1>1, <3>2
        <4>2. s[e[a]].of # 0 => s[e[a]].of # more[1].of
          BY <2>1, <4>1
        <4> QED
          BY <2>1, <2>2, <2>4, <4>1, <4>2 DEF LastSnapshot
      <3> QED
        BY <3>1, <3>2
    <2> QED
      BY <1>1, <2>1, <2>2, <2>3, <2>4
  <1>3. Backing(e, r, all, N)
    BY <1>2 DEF Backing
  <1> QED
    BY <1>3 DEF all, N

\* What Say adds.
LEMMA Said ==
    ASSUME Types, NEW event \in Messages, NEW text \in Texts, NEW kept \in Kept,
           Say(event, text, kept)
    PROVE  \E more \in Seq(Records) :
              /\ journal' = journal \o more
              /\ \A k \in 1..Len(more) : more[k].of = Len(history) + 1
  <1> DEFINE t == IF active THEN turn ELSE turn + 1
             i == Len(history) + 1
             full == [event |-> event, id |-> IF provider.live THEN i ELSE 0, text |-> text,
                      source |-> Source(event, t, message + 1), turn |-> t, of |-> i]
             part == [full EXCEPT !.text = "part"]
  <1>1. \E more \in {<<>>, <<part>>, <<part, full>>, <<full>>} : journal' = journal \o more
    BY ZenonT(60) DEF Say, Kept
  <1>2. t \in Nat /\ i \in Nat /\ Source(event, t, message + 1) \in Nat \X Nat \X Nat
    <2>1. /\ Len(history) \in Nat /\ Len(journal) \in Nat /\ turn \in Nat /\ message \in Nat
          /\ active \in BOOLEAN
      BY SMTT(30) DEF Types
    <2>2. t \in Nat /\ i \in Nat
      BY <2>1
    <2> HIDE DEF t
    <2> QED
      BY <2>1, <2>2 DEF Source
  <1>3. full \in Records /\ part \in Records
    BY <1>2 DEF Records
  <1>4. full.of = i /\ part.of = i
    OBVIOUS
  <1>5. PICK more \in {<<>>, <<part>>, <<part, full>>, <<full>>} : journal' = journal \o more
    BY <1>1
  <1> HIDE DEF t, full, part, i
  <1>6. more \in Seq(Records) /\ \A k \in 1..Len(more) : more[k] \in {part, full}
    <2>1. CASE more = <<>>
      BY <2>1
    <2>2. CASE more = <<part>>
      BY <1>3, <2>2
    <2>3. CASE more = <<full>>
      BY <1>3, <2>3
    <2>4. CASE more = <<part, full>>
      <3>1. /\ more \in Seq(Records) /\ Len(more) = 2
            /\ more[1] = part /\ more[2] = full
        BY <1>3, <2>4
      <3>2. \A k \in 1..2 : k = 1 \/ k = 2
        OBVIOUS
      <3> QED
        BY <3>1, <3>2
    <2> QED
      BY <1>5, <2>1, <2>2, <2>3, <2>4
  <1>7. \A k \in 1..Len(more) : more[k].of = i
    BY <1>4, <1>6
  <1> QED
    BY <1>5, <1>6, <1>7 DEF i

\* What a step of the replay keeps, in detail.
LEMMA ReplayKeeps ==
    ASSUME NEW kept \in BOOLEAN, ReplayNext(kept)
    PROVE  /\ phase = "replay" /\ replay.next <= Len(history)
           /\ matcher' = CASE Current = <<>> -> Current
                           [] Known -> Matched(Current, Key)
                           [] Over -> Current
                           [] OTHER -> append(Current, Key)
           /\ journal' = IF Known \/ Over \/ ~kept THEN journal ELSE Append(journal, Key)
           /\ replay' = [replay EXCEPT !.next = replay.next + 1,
                            !.whole = /\ replay.whole /\ kept
                                      /\ ~(/\ Current # <<>>
                                           /\ Len(append(Current, Key).records) = Len(Current.records)
                                           /\ ~Known /\ ~Over)]
           /\ backed' = (backed /\ (Current = <<>> \/ kept))
           /\ UNCHANGED <<provider, history, backendTurn, phase, replays>>
  BY DEF ReplayNext, Key, Current, Known, Over

\* A replay keeps the matcher and the journal together.
LEMMA BackedReplay ==
    ASSUME Types, Types', Faithful, Faithful', Backed, NEW kept \in BOOLEAN, ReplayNext(kept)
    PROVE  Backed'
  <1> SUFFICES ASSUME backed', matcher' # <<>>
               PROVE  \E e : Backing(e, matcher'.records, journal', Len(journal'))
    BY DEF Backed
  <1>1. /\ matcher' = CASE Current = <<>> -> Current
                        [] Known -> Matched(Current, Key)
                        [] Over -> Current
                        [] OTHER -> append(Current, Key)
        /\ journal' = IF Known \/ Over \/ ~kept THEN journal ELSE Append(journal, Key)
        /\ backed' = (backed /\ (Current = <<>> \/ kept))
        /\ phase = "replay" /\ replay.next <= Len(history)
    BY ReplayKeeps
  <1>2. Current # <<>> /\ matcher # <<>> /\ Current \in Matchers /\ Current.records = matcher.records
    <2>1. Current # <<>>
      BY <1>1 DEF Known, Over
    <2> QED
      BY <2>1, CurrentTypes DEF Current
  <1>3. backed /\ kept
    BY <1>1, <1>2
  <1>4. PICK e : Backing(e, Current.records, journal, Len(journal))
    BY <1>2, <1>3 DEF Backed
  <1>5. CASE Known
    <2>1. matcher'.records = Current.records
      <3>1. matcher' = Matched(Current, Key)
        BY <1>1, <1>2, <1>5 DEF Over
      <3> QED
        BY <1>2, <3>1 DEF Matched, Matchers
    <2> QED
      BY <1>1, <1>4, <1>5, <2>1
  <1>6. CASE Over
    <2>1. matcher' = Current
      BY <1>1, <1>2, <1>6 DEF Over
    <2> QED
      BY <1>1, <1>4, <1>6, <2>1
  <1>7. CASE ~Known /\ ~Over
    <2> DEFINE s == journal'
               n == Len(journal) + 1
    <2>1. s = Append(journal, Key) /\ matcher' = append(Current, Key)
      BY <1>1, <1>2, <1>3, <1>7
    <2>2. journal \in Seq(Records) /\ Key \in Records
      BY <1>1, KeyTypes DEF Types
    <2>3. /\ s \in Seq(Records) /\ Len(s) = n /\ n \in 1..Len(s) /\ s[n] = Key
          /\ Len(journal) \in Nat /\ n - 1 = Len(journal)
          /\ \A p \in 1..Len(journal) : s[p] = journal[p]
      BY <2>1, <2>2
    <2>4. \A p, q \in 1..Len(s) : s[p].of # 0 /\ s[p].of = s[q].of => s[p].event = s[q].event
      BY DEF Faithful, Told
    <2> HIDE DEF s
    <2>5. Backing(e, Current.records, s, n - 1)
      <3> DEFINE r == Current.records
      <3> SUFFICES Backing(e, r, s, n - 1)
        OBVIOUS
      <3>1. Backing(e, r, journal, Len(journal))
        BY <1>4
      <3> HIDE DEF r, n
      <3>2. ASSUME NEW a \in 1..Len(r)
            PROVE  /\ e[a] \in 1..(n - 1) /\ r[a] = s[e[a]]
                   /\ r[a].of # 0 => LastSnapshot(s, n - 1, e[a])
        <4>1. /\ e[a] \in 1..Len(journal) /\ r[a] = journal[e[a]]
              /\ r[a].of # 0 => LastSnapshot(journal, Len(journal), e[a])
          BY <3>1 DEF Backing
        <4>2. e[a] \in 1..(n - 1) /\ s[e[a]] = journal[e[a]]
          BY <2>3, <4>1
        <4>3. e[a] < n - 1 => s[e[a] + 1] = journal[e[a] + 1]
          <5> SUFFICES ASSUME e[a] < n - 1 PROVE s[e[a] + 1] = journal[e[a] + 1]
            OBVIOUS
          <5>1. e[a] + 1 \in 1..Len(journal)
            BY <2>3, <4>1
          <5> QED
            BY <2>3, <5>1
        <4> QED
          BY <2>3, <4>1, <4>2, <4>3 DEF LastSnapshot
      <3> QED
        BY <3>1, <3>2 DEF Backing
    <2> HIDE DEF n
    <2>6. \E f : Backing(f, append(Current, s[n]).records, s, n)
      BY <1>2, <2>3, <2>4, <2>5, Backs
    <2> QED
      BY <2>1, <2>3, <2>6 DEF s
  <1> QED
    BY <1>5, <1>6, <1>7

\* Every step keeps them together.
LEMMA BackedStep ==
    ASSUME Types, Types', Faithful, Faithful', Backed, [Next]_vars
    PROVE  Backed'
  <1>1. ASSUME NEW more \in Seq(Records), journal' = journal \o more, UNCHANGED <<matcher, backed>>,
               \A p \in 1..Len(journal), k \in 1..Len(more) :
                  journal[p].of # 0 => journal[p].of # more[k].of
        PROVE  Backed'
    <2> SUFFICES ASSUME backed, matcher # <<>>
                 PROVE  \E e : Backing(e, matcher.records, journal', Len(journal'))
      BY <1>1 DEF Backed
    <2>1. journal \in Seq(Records) /\ matcher.records \in Seq(Records)
      BY DEF Types
    <2>2. PICK e : Backing(e, matcher.records, journal, Len(journal))
      BY DEF Backed
    <2>3. Backing(e, matcher.records, journal \o more, Len(journal \o more))
      BY <1>1, <2>1, <2>2, StillBacked
    <2> QED
      BY <1>1, <2>3
  <1>2. ASSUME NEW event \in Messages, NEW text \in Texts, NEW kept \in Kept, Say(event, text, kept)
        PROVE  Backed'
    <2>1. PICK more \in Seq(Records) : /\ journal' = journal \o more
                                       /\ \A k \in 1..Len(more) : more[k].of = Len(history) + 1
      BY <1>2, Said
    <2>2. ASSUME NEW p \in 1..Len(journal), NEW k \in 1..Len(more), journal[p].of # 0
          PROVE  journal[p].of # more[k].of
      <3>1. journal \in Seq(Records) /\ Len(history) \in Nat
        BY SMTT(30) DEF Types
      <3>2. journal[p] \in Records /\ Told(journal[p])
        BY <3>1 DEF Faithful
      <3>3. journal[p].of <= Len(history) /\ journal[p].of \in Nat
        BY <2>2, <3>2 DEF Told, Records
      <3>4. more[k].of = Len(history) + 1
        BY <2>1
      <3> QED
        BY <3>1, <3>3, <3>4
    <2>3. UNCHANGED <<matcher, backed>>
      BY <1>2 DEF Say
    <2> QED
      BY <1>1, <2>1, <2>2, <2>3
  <1>3. ASSUME NEW kept \in BOOLEAN, EndTurn(kept)
        PROVE  Backed'
    <2>1. UNCHANGED <<matcher, backed>> /\ journal' \in {journal, Append(journal, Ended(turn))}
      BY <1>3 DEF EndTurn
    <2>2. CASE journal' = journal
      BY <2>1, <2>2 DEF Backed
    <2>3. CASE journal' = Append(journal, Ended(turn))
      <3> DEFINE e == Ended(turn)
                 more == <<e>>
      <3>1. e.of = 0
        BY DEF Ended
      <3>2. e \in Records
        <4>1. turn \in Nat /\ Len(journal) \in Nat
          BY DEF Types
        <4> QED
          BY <4>1 DEF Ended, Source, Records
      <3> HIDE DEF e
      <3>3. more \in Seq(Records) /\ \A k \in 1..Len(more) : more[k].of = 0
        BY <3>1, <3>2
      <3>4. journal' = journal \o more
        <4>1. journal \in Seq(Records)
          BY DEF Types
        <4> QED
          BY <2>3, <3>2, <4>1 DEF e
      <3> HIDE DEF more
      <3> QED
        BY <1>1, <2>1, <3>3, <3>4
    <2> QED
      BY <2>1, <2>2, <2>3
  <1>4. ASSUME NEW from \in 1..(Len(history) + 1), Resume(from)
        PROVE  Backed'
    <2>1. matcher' = NewReplayMatcher(journal')
      BY <1>4 DEF Resume
    <2>2. journal' \in Seq(Records)
      BY DEF Types
    <2>3. \A p, q \in 1..Len(journal') :
             journal'[p].of # 0 /\ journal'[p].of = journal'[q].of
                => journal'[p].event = journal'[q].event
      BY DEF Faithful, Told
    <2>4. \E e : Backing(e, NewReplayMatcher(journal').records, journal', Len(journal'))
      BY <2>2, <2>3, ScanBacked
    <2> QED
      BY <2>1, <2>4 DEF Backed
  <1>5. ASSUME NEW from \in 1..(Len(history) + 1), Restart(from)
        PROVE  Backed'
    BY <1>5 DEF Restart, Backed
  <1>6. ASSUME NEW kept \in BOOLEAN, ReplayNext(kept)
        PROVE  Backed'
    BY <1>6, BackedReplay
  <1>7. CASE ReplayEnds
    BY <1>7 DEF ReplayEnds, Backed
  <1>8. CASE UNCHANGED vars
    BY <1>8 DEF vars, Backed
  <1> QED
    BY <1>2, <1>3, <1>4, <1>5, <1>6, <1>7, <1>8 DEF Next

-----------------------------------------------------------------------------
(* What a whole replay has found so far.                                   *)

\* The replayed messages up to n that are not of a turn held to be over.
Due(m, n) == {j \in 1..n : ~MatchesCompletedTurn(m, [turn |-> Stamp(j, backendTurn)])}

\* The record is of a message and says what message j says.
Full(record, j) ==
    record.of # 0 /\ record.event = history[j].event /\ record.text = history[j].text

\* Or it is message j itself, cut short.
Says(record, j) ==
    \/ Full(record, j)
    \/ record.of # 0 /\ record.of = j /\ record.text = "part" /\ provider.ids = "same"

\* Each of them has a record of its own in the matcher, which says the same
\* and which no later one can match.
Found(h, m, n) ==
    /\ \A j \in Due(m, n) :
          /\ h[j] \in 1..Len(m.records)
          /\ h[j] < m.next \/ m.limit < h[j]
          /\ Says(m.records[h[j]], j)
    /\ \A j, k \in Due(m, n) : j # k => h[j] # h[k]

\* While a replay is whole, each message it brought is recorded.
WholeSoFar ==
    phase = "replay" /\ replay.whole =>
        /\ backed /\ replay.from = 1
        /\ matcher = <<>> =>
              \A i \in 1..(replay.next - 1) :
                 \E p \in 1..Len(journal) :
                    /\ journal[p].of = i /\ Full(journal[p], i)
                    /\ LastSnapshot(journal, Len(journal), p)
        /\ matcher # <<>> =>
              /\ \A a \in 1..Len(matcher.records) :
                    replay.next = replay.from \/ a <= matcher.limit =>
                       matcher.records[a].id <= MaxHistory * replays
              /\ replay.next # replay.from =>
                    1 <= matcher.next /\ matcher.limit <= Len(matcher.records)
              /\ \E h : Found(h, matcher, replay.next - 1)

\* Message i gets record k, which was between the cursor and the limit or
\* was not there before.
LEMMA FoundNext ==
    ASSUME NEW i \in Nat, 1 <= i, NEW c \in Matchers, NEW m \in Matchers,
           NEW h, Found(h, c, i - 1),
           m.completed = c.completed, m.limit = c.limit, c.next <= m.next,
           Len(c.records) <= Len(m.records),
           \A a \in 1..Len(c.records) : m.records[a] = c.records[a],
           NEW k \in 1..Len(m.records), k < m.next \/ m.limit < k, Says(m.records[k], i),
           (c.next <= k /\ k <= c.limit) \/ Len(c.records) < k
    PROVE  \E g : Found(g, m, i)
  <1> DEFINE g == [j \in 1..i |-> IF j = i THEN k ELSE h[j]]
  <1>1. /\ c.next \in Nat /\ c.limit \in Nat /\ m.next \in Nat /\ m.limit \in Nat
        /\ Len(c.records) \in Nat /\ Len(m.records) \in Nat /\ k \in Nat
    BY DEF Matchers
  <1>2. Due(m, i) \subseteq 1..i /\ \A j \in Due(m, i) : j # i => j \in Due(c, i - 1)
    <2>1. \A j \in 1..i : j # i => j \in 1..(i - 1)
      OBVIOUS
    <2> QED
      BY <2>1 DEF Due, MatchesCompletedTurn
  <1>3. g[i] = k /\ \A j \in 1..i : j # i => g[j] = h[j]
    OBVIOUS
  <1> HIDE DEF g
  <1>4. ASSUME NEW j \in Due(m, i), j # i
        PROVE  /\ g[j] \in 1..Len(m.records)
               /\ g[j] < m.next \/ m.limit < g[j]
               /\ Says(m.records[g[j]], j)
               /\ g[j] # k
    <2>1. /\ j \in Due(c, i - 1) /\ g[j] = h[j]
      BY <1>2, <1>3, <1>4
    <2>2. /\ g[j] \in 1..Len(c.records) /\ (g[j] < c.next \/ c.limit < g[j])
          /\ Says(c.records[g[j]], j)
      BY <2>1 DEF Found
    <2>3. g[j] \in 1..Len(m.records) /\ (g[j] < m.next \/ m.limit < g[j]) /\ g[j] # k
      BY <1>1, <2>2, SMTT(30)
    <2>4. Says(m.records[g[j]], j)
      BY <2>2
    <2> QED
      BY <2>3, <2>4
  <1>5. ASSUME NEW j \in Due(m, i)
        PROVE  /\ g[j] \in 1..Len(m.records)
               /\ g[j] < m.next \/ m.limit < g[j]
               /\ Says(m.records[g[j]], j)
    <2>1. CASE j = i
      BY <1>3, <2>1
    <2>2. CASE j # i
      BY <1>4, <2>2
    <2> QED
      BY <2>1, <2>2
  <1>6. ASSUME NEW j \in Due(m, i), NEW l \in Due(m, i), j # l
        PROVE  g[j] # g[l]
    <2>1. CASE j = i
      BY <1>3, <1>4, <1>6, <2>1
    <2>2. CASE l = i
      BY <1>3, <1>4, <1>6, <2>2
    <2>3. CASE j # i /\ l # i
      <3>1. j \in Due(c, i - 1) /\ l \in Due(c, i - 1) /\ g[j] = h[j] /\ g[l] = h[l]
        BY <1>2, <1>3, <2>3
      <3> QED
        BY <1>6, <3>1 DEF Found
    <2> QED
      BY <2>1, <2>2, <2>3
  <1>7. Found(g, m, i)
    BY <1>5, <1>6 DEF Found
  <1> QED
    BY <1>7

\* The record that Match takes says what the message says.
LEMMA Takes ==
    ASSUME Types, Faithful, phase = "replay", replay.next <= Len(history),
           Current \in Matchers, Known,
           \A a \in 1..Len(Current.records) : \E p \in 1..Len(journal) : Current.records[a] = journal[p],
           \A a \in 1..Len(Current.records) :
              a <= Current.limit => Current.records[a].id <= MaxHistory * replays,
           1 <= Current.next, Current.limit <= Len(Current.records)
    PROVE  LET k == First(Candidates(Current, Key)) IN
           /\ k \in 1..Len(Current.records) /\ Current.next <= k /\ k <= Current.limit
           /\ Says(Current.records[k], replay.next)
  <1> DEFINE r == Current.records
             i == replay.next
             S == Candidates(Current, Key)
             k == First(S)
             from == {a \in Current.next..Current.limit : sameStream(r[a], Key)}
             byID == {a \in from : Key.id # 0 /\ r[a].id = Key.id}
  <1>1. /\ i \in 1..Len(history) /\ Key \in Records /\ Key.of = i
        /\ Key.event \in Messages
        /\ Key.event = history[i].event /\ Key.text = history[i].text
        /\ Key.id = CASE provider.ids = "none" -> 0 [] provider.ids = "same" -> i
                      [] OTHER -> MaxHistory * replays + i
    BY KeyTypes
  <1>2. S = IF byID # {} THEN byID ELSE {a \in from : r[a].text = Key.text}
    BY DEF Candidates
  <1>3. S # {} /\ S \in SUBSET Nat /\ S \subseteq Current.next..Current.limit
    BY CandidateTypes DEF Known
  <1>4. k \in S
    <2> HIDE DEF S
    <2> QED
      BY <1>3, FirstOf
  <1>5. Current.next \in Nat /\ Current.limit \in Nat /\ Len(r) \in Nat
    BY DEF Matchers
  <1>6. k \in from /\ (k \in byID \/ r[k].text = Key.text)
    <2> HIDE DEF from, byID, S, k
    <2>1. byID \subseteq from
      BY DEF byID
    <2> QED
      BY <1>2, <1>4, <2>1
  <1>7. k \in 1..Len(r) /\ Current.next <= k /\ k <= Current.limit /\ r[k].event = Key.event
    <2>1. k \in Current.next..Current.limit /\ r[k].event = Key.event
      <3> HIDE DEF S, k, r
      <3> QED
        BY <1>6 DEF sameStream
    <2> HIDE DEF k, r
    <2> QED
      BY <1>5, <2>1 DEF r
  <1>8. PICK p \in 1..Len(journal) : r[k] = journal[p]
    <2> HIDE DEF k
    <2> QED
      BY <1>7
  <1>9. Told(r[k]) /\ r[k] \in Records
    <2>1. journal \in Seq(Records)
      BY DEF Types
    <2> HIDE DEF r, k
    <2> QED
      BY <1>8, <2>1 DEF Faithful
  <1> HIDE DEF k, r, S
  <1>10. /\ r[k].of # 0 /\ history[r[k].of].event = history[i].event
         /\ r[k].text \in {"part", history[r[k].of].text}
    BY <1>1, <1>7, <1>9 DEF Told, Messages
  <1>11. Says(r[k], i)
    <2>1. CASE r[k].text = Key.text
      <3>1. Full(r[k], i)
        BY <1>1, <1>7, <1>10, <2>1 DEF Full
      <3> QED
        BY <3>1 DEF Says
    <2>2. CASE k \in byID
      <3>1. Key.id # 0 /\ r[k].id = Key.id
        BY <2>2
      <3>2. CASE provider.ids = "same"
        <4>1. r[k].of = i
          BY <1>1, <1>9, <1>10, <3>1, <3>2 DEF Told
        <4> QED
          BY <1>1, <1>7, <1>10, <3>2, <4>1 DEF Says, Full
      <3>3. CASE provider.ids # "same"
        <4>1. Key.id = MaxHistory * replays + i
          BY <1>1, <3>1, <3>3
        <4>2. r[k].id <= MaxHistory * replays
          BY <1>7 DEF r
        <4>3. MaxHistory * replays \in Nat
          BY IDs
        <4> DEFINE x == MaxHistory * replays
        <4> HIDE DEF x
        <4> QED
          BY <1>1, <3>1, <4>1, <4>2, <4>3 DEF x
      <3> QED
        BY <3>2, <3>3
    <2> QED
      BY <1>6, <2>1, <2>2
  <1> QED
    BY <1>7, <1>11 DEF k, r, S

\* The replay brings its next message.
LEMMA WholeReplay ==
    ASSUME Types, Types', Faithful, Backed, WholeSoFar, NEW kept \in BOOLEAN, ReplayNext(kept)
    PROVE  WholeSoFar'
  <1> DEFINE i == replay.next
             c == Current
             key == Key
  <1>1. /\ phase = "replay" /\ i <= Len(history)
        /\ matcher' = CASE c = <<>> -> c
                        [] Known -> Matched(c, key)
                        [] Over -> c
                        [] OTHER -> append(c, key)
        /\ journal' = IF Known \/ Over \/ ~kept THEN journal ELSE Append(journal, key)
        /\ replay' = [replay EXCEPT !.next = i + 1,
                         !.whole = /\ replay.whole /\ kept
                                   /\ ~(/\ c # <<>>
                                        /\ Len(append(c, key).records) = Len(c.records)
                                        /\ ~Known /\ ~Over)]
        /\ backed' = (backed /\ (c = <<>> \/ kept))
        /\ UNCHANGED <<provider, history, backendTurn, phase, replays>>
    BY ReplayKeeps
  <1>2. /\ replay \in [from : Nat, next : Nat, resume : BOOLEAN, whole : BOOLEAN]
        /\ 1 <= replay.from /\ replay.from <= i /\ i \in Nat /\ replay.from \in Nat
    BY <1>1, SMTT(30) DEF Types
  <1>3. /\ replay'.next = i + 1 /\ replay'.from = replay.from
        /\ replay'.whole => /\ replay.whole /\ kept
                            /\ ~(/\ c # <<>>
                                 /\ Len(append(c, key).records) = Len(c.records)
                                 /\ ~Known /\ ~Over)
    <2> DEFINE whole == /\ replay.whole /\ kept
                        /\ ~(/\ c # <<>>
                             /\ Len(append(c, key).records) = Len(c.records)
                             /\ ~Known /\ ~Over)
    <2>1. replay' = [replay EXCEPT !.next = i + 1, !.whole = whole]
      BY <1>1
    <2> HIDE DEF whole
    <2>2. /\ replay'.next = i + 1 /\ replay'.from = replay.from
          /\ replay'.whole = whole
      BY <1>2, <2>1
    <2> QED
      BY <2>2 DEF whole
  <1> SUFFICES ASSUME replay'.whole PROVE WholeSoFar'
    BY DEF WholeSoFar
  <1>4. /\ replay.whole /\ kept
        /\ ~(/\ c # <<>>
             /\ Len(append(c, key).records) = Len(c.records)
             /\ ~Known /\ ~Over)
    BY <1>3
  <1>5. backed /\ replay.from = 1 /\ backed'
    BY <1>1, <1>4 DEF WholeSoFar
  <1>6. key \in Records /\ key.of = i /\ key.event \in Messages /\ i \in 1..Len(history)
        /\ key.event = history[i].event /\ key.text = history[i].text
        /\ key.turn = Stamp(i, backendTurn)
    BY <1>1, KeyTypes DEF Key
  <1>7. replay'.next # replay'.from
    BY <1>2, <1>3
  <1>8. CASE c = <<>>
    <2>1. matcher = <<>> /\ matcher' = <<>> /\ journal' = Append(journal, key)
      <3>1. matcher = <<>> /\ ~Known /\ ~Over
        BY <1>8, CurrentTypes DEF Known, Over
      <3> QED
        BY <1>1, <1>4, <1>8, <3>1
    <2>2. \A j \in 1..(i - 1) : \E p \in 1..Len(journal) :
             /\ journal[p].of = j /\ Full(journal[p], j)
             /\ LastSnapshot(journal, Len(journal), p)
      BY <1>1, <1>4, <2>1 DEF WholeSoFar
    <2> DEFINE s == journal'
               n == Len(journal)
    <2>3. /\ n \in Nat /\ Len(s) = n + 1 /\ s[n + 1] = key
          /\ \A p \in 1..n : s[p] = journal[p]
      <3>1. journal \in Seq(Records)
        BY DEF Types
      <3> QED
        BY <1>6, <2>1, <3>1
    <2> HIDE DEF s, n, key, i
    <2>4. ASSUME NEW j \in 1..i
          PROVE  \E p \in 1..Len(s) : /\ s[p].of = j /\ Full(s[p], j)
                                      /\ LastSnapshot(s, Len(s), p)
      <3>1. CASE j = i
        <4>1. n + 1 \in 1..Len(s) /\ s[n + 1].of = j /\ LastSnapshot(s, Len(s), n + 1)
          BY <1>6, <2>3, <3>1 DEF LastSnapshot
        <4>2. Full(s[n + 1], j)
          BY <1>2, <1>6, <2>3, <3>1 DEF Full, i
        <4> QED
          BY <4>1, <4>2
      <3>2. CASE j # i
        <4>1. j \in 1..(i - 1)
          BY <1>2, <3>2 DEF i
        <4>2. PICK p \in 1..n : /\ journal[p].of = j /\ Full(journal[p], j)
                                /\ LastSnapshot(journal, n, p)
          BY <2>2, <4>1 DEF n, i
        <4>3. p \in 1..Len(s) /\ s[p].of = j /\ Full(s[p], j)
          BY <2>3, <4>2
        <4>4. CASE p = n
          BY <1>6, <2>3, <3>2, <4>3, <4>4 DEF LastSnapshot
        <4>5. CASE p # n
          <5>1. p < n /\ p + 1 \in 1..n
            BY <2>3, <4>5
          <5>2. s[p] = journal[p] /\ s[p + 1] = journal[p + 1]
            BY <2>3, <5>1
          <5> QED
            BY <4>2, <4>3, <5>1, <5>2 DEF LastSnapshot
        <4> QED
          BY <4>4, <4>5
      <3> QED
        BY <3>1, <3>2
    <2>5. replay'.next - 1 = i
      BY <1>2, <1>3 DEF i
    <2>6. \A r, j : Full(r, j)' <=> Full(r, j)
      BY <1>1 DEF Full
    <2> QED
      BY <1>3, <1>5, <2>1, <2>4, <2>5, <2>6 DEF WholeSoFar, s
  <1>9. CASE c # <<>>
    <2>1. matcher # <<>> /\ c \in Matchers /\ c.records = matcher.records
      BY <1>9, CurrentTypes DEF Current
    <2>2. PICK e : Backing(e, c.records, journal, Len(journal))
      BY <1>5, <2>1 DEF Backed
    <2>3. \A a \in 1..Len(c.records) : \E p \in 1..Len(journal) : c.records[a] = journal[p]
      BY <2>2 DEF Backing
    <2>4. Len(c.records) \in Nat /\ c.next \in Nat /\ c.limit \in Nat /\ matcher \in Matchers
      <3>1. matcher \in Matchers
        BY <2>1 DEF Matchers, Types
      <3> HIDE DEF c
      <3>2. c.records \in Seq(Records) /\ c.next \in Nat /\ c.limit \in Nat
        BY <2>1 DEF Matchers
      <3> QED
        BY <3>1, <3>2
    <2>5. /\ \A a \in 1..Len(c.records) : a <= c.limit => c.records[a].id <= MaxHistory * replays
          /\ 1 <= c.next /\ c.limit <= Len(c.records) /\ c.completed = matcher.completed
      <3>1. CASE i = replay.from
        <4>1. c.next = 1 /\ c.limit = Len(c.records) /\ c = Reset(matcher)
          BY <2>1, <3>1, CurrentTypes DEF Current
        <4>2. c.completed = matcher.completed
          BY <2>4, <4>1 DEF Reset, Matchers
        <4> QED
          BY <1>1, <1>4, <2>1, <2>4, <3>1, <4>1, <4>2 DEF WholeSoFar
      <3>2. CASE i # replay.from
        <4>1. c = matcher
          BY <3>2, CurrentTypes
        <4> QED
          BY <1>1, <1>4, <2>1, <3>2, <4>1 DEF WholeSoFar
      <3> QED
        BY <3>1, <3>2
    <2>6. PICK h : Found(h, c, i - 1)
      <3>1. PICK h : Found(h, matcher, i - 1)
        BY <1>1, <1>4, <2>1 DEF WholeSoFar
      <3>2. CASE i = replay.from
        <4>1. Due(c, i - 1) = {}
          BY <1>5, <3>2 DEF Due
        <4> QED
          BY <4>1 DEF Found
      <3>3. CASE i # replay.from
        <4>1. c = matcher
          BY <3>3, CurrentTypes
        <4> QED
          BY <3>1, <4>1
      <3> QED
        BY <3>2, <3>3
    <2> DEFINE m == matcher'
    <2>7. /\ m \in Matchers /\ m # <<>> /\ m.limit = c.limit /\ c.next <= m.next
          /\ Len(c.records) <= Len(m.records) /\ Len(m.records) \in Nat
          /\ \A a \in 1..Len(c.records) : m.records[a] = c.records[a]
          /\ \E g : Found(g, m, i)
      <3>1. CASE Known
        <4> DEFINE k == First(Candidates(c, key))
        <4>1. /\ k \in 1..Len(c.records) /\ c.next <= k /\ k <= c.limit
              /\ Says(c.records[k], i)
          BY <1>1, <2>1, <2>3, <2>5, <3>1, Takes
        <4>2. m = Matched(c, key)
          BY <1>1, <1>9, <3>1 DEF Over
        <4> HIDE DEF m, c, key
        <4>3. m = [c EXCEPT !.next = k + 1]
          BY <4>2 DEF Matched
        <4> HIDE DEF k
        <4>4. /\ m \in Matchers /\ m.limit = c.limit /\ m.next = k + 1
              /\ m.records = c.records /\ m.completed = c.completed
          BY <2>1, <2>4, <4>1, <4>3 DEF Matchers
        <4>5. m # <<>>
          BY <4>4, NotNil
        <4>6. c.next <= m.next /\ k < m.next
          BY <2>4, <4>1, <4>4
        <4> HIDE DEF i
        <4>7. i \in Nat /\ 1 <= i
          BY <1>2 DEF i
        <4>8. k \in 1..Len(m.records) /\ Says(m.records[k], i)
          BY <4>1, <4>4
        <4>9. \E g : Found(g, m, i)
          BY <2>1, <2>4, <2>6, <4>1, <4>4, <4>6, <4>7, <4>8, FoundNext, SMTT(30)
        <4> QED
          BY <2>4, <4>4, <4>5, <4>6, <4>9
      <3>2. CASE Over
        <4>1. m = c
          BY <1>1, <1>9, <3>2 DEF Over
        <4>2. MatchesCompletedTurn(c, key)
          BY <3>2 DEF Over
        <4>3. MatchesCompletedTurn(c, [turn |-> Stamp(i, backendTurn)])
          BY <1>6, <4>2 DEF MatchesCompletedTurn
        <4> HIDE DEF c, i, m
        <4>4. Due(c, i) = Due(c, i - 1)
          <5>1. i \in Nat
            BY <1>2 DEF i
          <5>2. /\ \A j \in 1..i : j \in 1..(i - 1) \/ j = i
                /\ \A j \in 1..(i - 1) : j \in 1..i
            BY <5>1
          <5> QED
            BY <4>3, <5>2 DEF Due
        <4>5. Found(h, c, i)
          BY <2>6, <4>4 DEF Found
        <4> QED
          BY <1>9, <2>1, <2>4, <4>1, <4>5
      <3>3. CASE ~Known /\ ~Over
        <4>1. m = append(c, key)
          BY <1>1, <1>9, <3>3
        <4>2. Len(m.records) # Len(c.records)
          BY <1>4, <1>9, <3>3, <4>1
        <4> HIDE DEF m, c, key
        <4>3. /\ m \in Matchers
              /\ m.records # <<>> /\ m.records[Len(m.records)] = key
              /\ \A a \in 1..(Len(m.records) - 1) :
                    a <= Len(c.records) /\ m.records[a] = c.records[a]
              /\ \/ Len(m.records) = Len(c.records) + 1
                 \/ Len(m.records) = Len(c.records)
          BY <1>6, <2>1, <4>1, Appended, SMTT(30)
        <4>4. Len(m.records) = Len(c.records) + 1 /\ Len(m.records) \in Nat
          BY <2>4, <4>2, <4>3
        <4>5. /\ \A a \in 1..Len(c.records) : m.records[a] = c.records[a]
              /\ Len(m.records) - 1 = Len(c.records)
          BY <2>4, <4>3, <4>4
        <4>6. m.limit = c.limit /\ m.next = c.next /\ m.completed = c.completed
          <5>1. key.event # "end"
            BY <1>6 DEF Messages
          <5>2. \/ m = [c EXCEPT !.records[Len(c.records)] = key]
                \/ m = [c EXCEPT !.records = Append(@, key), !.completed = @]
            BY <4>1, <5>1 DEF append
          <5> QED
            BY <2>1, <5>2 DEF Matchers
        <4>7. m # <<>>
          BY <4>3, NotNil
        <4> DEFINE k == Len(m.records)
        <4>8. /\ k \in 1..Len(m.records) /\ m.limit < k /\ Len(c.records) < k
          BY <2>4, <2>5, <4>4, <4>6
        <4>9. Says(m.records[k], i)
          <5>1. m.records[k] = key /\ key.of # 0 /\ key.of = i
            BY <1>2, <1>6, <4>3
          <5>2. Full(key, i)
            BY <1>6, <5>1 DEF Full
          <5> QED
            BY <5>1, <5>2 DEF Says
        <4> HIDE DEF i, k
        <4>10. i \in Nat /\ 1 <= i /\ c.next <= m.next /\ Len(c.records) <= Len(m.records)
          BY <1>2, <2>4, <4>4, <4>6 DEF i
        <4>11. \E g : Found(g, m, i)
          BY <2>1, <2>6, <4>3, <4>5, <4>6, <4>8, <4>9, <4>10, FoundNext
        <4> QED
          BY <4>3, <4>4, <4>5, <4>6, <4>7, <4>10, <4>11
      <3> QED
        BY <3>1, <3>2, <3>3
    <2> HIDE DEF c, m, key
    <2>8. (\E g : Found(g, matcher, replay.next - 1))'
      <3>1. PICK g : Found(g, m, i)
        BY <2>7
      <3>2. replay'.next - 1 = i
        BY <1>2, <1>3
      <3>3. \A j : Stamp(j, backendTurn)' = Stamp(j, backendTurn)
        BY <1>1 DEF Stamp
      <3>4. Due(matcher, replay.next - 1)' = Due(m, i)
        BY <3>2, <3>3 DEF Due, MatchesCompletedTurn, m
      <3>5. \A r, j : Says(r, j)' <=> Says(r, j)
        BY <1>1 DEF Says, Full
      <3> DEFINE D == Due(m, i)
      <3>6. /\ \A j \in D : /\ g[j] \in 1..Len(m.records)
                            /\ g[j] < m.next \/ m.limit < g[j]
                            /\ Says(m.records[g[j]], j)
            /\ \A j, k \in D : j # k => g[j] # g[k]
        BY <3>1 DEF Found
      <3> HIDE DEF D
      <3>7. Found(g, matcher, replay.next - 1)'
        BY <3>4, <3>5, <3>6 DEF Found, D, m
      <3> QED
        BY <3>7
    <2>9. \A a \in 1..Len(m.records) : a <= m.limit => m.records[a].id <= MaxHistory * replays
      BY <2>4, <2>5, <2>7
    <2>10. 1 <= m.next /\ m.limit <= Len(m.records)
      <3>1. m.next \in Nat /\ m.limit \in Nat
        BY <2>7 DEF Matchers
      <3> QED
        BY <2>4, <2>5, <2>7, <3>1
    <2> QED
      BY <1>1, <1>3, <1>5, <1>7, <2>7, <2>8, <2>9, <2>10 DEF WholeSoFar, m
  <1> QED
    BY <1>8, <1>9

\* A replay begins.
LEMMA WholeBegins ==
    ASSUME Types, Types', Backed', NEW from \in Nat, NEW resume \in BOOLEAN,
           Begin(matcher', journal', from, resume),
           \A p \in 1..Len(journal') : Told(journal'[p])
    PROVE  WholeSoFar'
  <1>1. /\ replays' = replays + 1 /\ replay'.next = from /\ replay'.from = from
        /\ replay'.whole = (from = 1 /\ backed')
    BY DEF Begin
  <1> SUFFICES ASSUME replay'.whole PROVE WholeSoFar'
    BY DEF WholeSoFar
  <1>2. from = 1 /\ backed'
    BY <1>1
  <1>3. \A i \in 1..(replay'.next - 1) : FALSE
    BY <1>1, <1>2
  <1>4. ASSUME matcher' # <<>>
        PROVE  /\ \A a \in 1..Len(matcher'.records) : matcher'.records[a].id <= MaxHistory * replays'
               /\ (\E h : Found(h, matcher, replay.next - 1))'
    <2>1. PICK e : Backing(e, matcher'.records, journal', Len(journal'))
      BY <1>2, <1>4 DEF Backed
    <2>2. ASSUME NEW a \in 1..Len(matcher'.records)
          PROVE  matcher'.records[a].id <= MaxHistory * replays'
      <3>1. e[a] \in 1..Len(journal') /\ matcher'.records[a] = journal'[e[a]]
        BY <2>1 DEF Backing
      <3>2. matcher'.records[a].id <= MaxHistory * (replays + 1)
        BY <3>1 DEF Told
      <3> QED
        BY <1>1, <3>2
    <2>3. Due(matcher, replay.next - 1)' = {}
      BY <1>3 DEF Due
    <2>4. Found(<<>>, matcher, replay.next - 1)'
      BY <2>3 DEF Found
    <2> QED
      BY <2>2, <2>4
  <1> QED
    BY <1>1, <1>2, <1>3, <1>4 DEF WholeSoFar

\* Every step keeps what a whole replay has found.
LEMMA WholeStep ==
    ASSUME Types, Types', Faithful, Backed, Backed', WholeSoFar, [Next]_vars
    PROVE  WholeSoFar'
  <1>1. ASSUME NEW event \in Messages, NEW text \in Texts, NEW kept \in Kept, Say(event, text, kept)
        PROVE  WholeSoFar'
    <2>1. phase' # "replay"
      BY <1>1 DEF Say
    <2> QED
      BY <2>1 DEF WholeSoFar
  <1>2. ASSUME NEW kept \in BOOLEAN, EndTurn(kept)
        PROVE  WholeSoFar'
    <2>1. phase' # "replay"
      BY <1>2 DEF EndTurn
    <2> QED
      BY <2>1 DEF WholeSoFar
  <1>3. ASSUME NEW from \in 1..(Len(history) + 1), Resume(from)
        PROVE  WholeSoFar'
    <2>1. /\ journal' = IF active THEN Append(journal, Ended(turn)) ELSE journal
          /\ Begin(matcher', journal', from, TRUE)
      BY <1>3 DEF Resume
    <2>2. \A p \in 1..Len(journal') : Told(journal'[p])
      <3>1. CASE active
        BY <2>1, <3>1, EndTold
      <3>2. CASE ~active
        BY <2>1, <3>2 DEF Faithful
      <3> QED
        BY <3>1, <3>2
    <2>3. from \in Nat
      OBVIOUS
    <2> QED
      BY <2>1, <2>2, <2>3, WholeBegins
  <1>4. ASSUME NEW from \in 1..(Len(history) + 1), Restart(from)
        PROVE  WholeSoFar'
    <2>1. matcher' = matcher /\ journal' = journal /\ Begin(matcher, journal, from, FALSE)
      BY <1>4 DEF Restart
    <2>2. Begin(matcher', journal', from, FALSE)
      BY <2>1
    <2>3. \A p \in 1..Len(journal') : Told(journal'[p])
      BY <2>1 DEF Faithful
    <2>4. from \in Nat
      OBVIOUS
    <2> QED
      BY <2>2, <2>3, <2>4, WholeBegins
  <1>5. ASSUME NEW kept \in BOOLEAN, ReplayNext(kept)
        PROVE  WholeSoFar'
    BY <1>5, WholeReplay
  <1>6. CASE ReplayEnds
    <2>1. phase' # "replay"
      BY <1>6 DEF ReplayEnds
    <2> QED
      BY <2>1 DEF WholeSoFar
  <1>7. CASE UNCHANGED vars
    <2>1. \A r, j : Full(r, j)' <=> Full(r, j)
      BY <1>7 DEF vars, Full
    <2>2. \A r, j : Says(r, j)' <=> Says(r, j)
      BY <1>7, <2>1 DEF vars, Says
    <2>3. \A j : Stamp(j, backendTurn)' = Stamp(j, backendTurn)
      BY <1>7 DEF vars, Stamp
    <2>4. \A m, n : Due(m, n)' = Due(m, n)
      BY <2>3 DEF Due
    <2>5. \A h, m, n : Found(h, m, n)' <=> Found(h, m, n)
      BY <2>2, <2>4 DEF Found
    <2> QED
      BY <1>7, <2>1, <2>5 DEF vars, WholeSoFar
  <1> QED
    BY <1>1, <1>2, <1>3, <1>4, <1>5, <1>6, <1>7 DEF Next

\* Matcher and journal agree, and a whole replay has found its messages.
LEMMA WholeInvariance == Spec => [](Backed /\ WholeSoFar)
  <1>1. Init => Backed /\ WholeSoFar
    BY DEF Init, Backed, WholeSoFar
  <1>2. /\ Types /\ Faithful /\ Types' /\ Faithful' /\ Backed /\ WholeSoFar
        /\ [Next]_vars
        => (Backed /\ WholeSoFar)'
    BY BackedStep, WholeStep
  <1> QED
    BY <1>1, <1>2, FaithfulInvariance, PTL DEF Spec

\* After a whole replay every text is in the journal as often as the provider
\* has it, in records that hold it in full, except what is held for the rest
\* of a turn that had ended and what a truncated record with its ID stands
\* for: also when messages say the same, when the provider has no IDs or new
\* ones, and when records were lost in the middle (ReplayMatcher.Match, Record
\* and Reset, and deliverNow).
THEOREM ReplayMissesNothing == Spec => []NothingMissing
  <1>1. Types /\ Backed /\ WholeSoFar => NothingMissing
    <2> SUFFICES ASSUME Types, Backed, WholeSoFar,
                        phase = "replay", replay.whole, replay.next > Len(history),
                        NEW c \in Messages \X Texts
                 PROVE  Cardinality(Held(c)) >= Cardinality(Owed(c))
      BY DEF NothingMissing
    <2>1. /\ journal \in Seq(Records) /\ Len(journal) \in Nat /\ Len(history) \in Nat
          /\ replay.next \in Nat
      BY SMTT(30) DEF Types
    <2>2. IsFiniteSet(Held(c))
      <3>1. Held(c) \subseteq 1..Len(journal)
        BY DEF Held, Entries
      <3>2. IsFiniteSet(1..Len(journal))
        BY <2>1, FS_Interval
      <3> QED
        BY <3>1, <3>2, FS_Subset
    <2>3. \A j \in Owed(c) : j \in 1..(replay.next - 1)
      BY <2>1 DEF Owed
    <2>4. \E f : /\ \A j \in Owed(c) : f[j] \in Held(c)
                 /\ \A j, k \in Owed(c) : j # k => f[j] # f[k]
      <3>1. CASE matcher = <<>>
        <4>1. \A j \in 1..(replay.next - 1) : \E p \in 1..Len(journal) :
                 /\ journal[p].of = j /\ Full(journal[p], j)
                 /\ LastSnapshot(journal, Len(journal), p)
          BY <3>1 DEF WholeSoFar
        <4> DEFINE At(j) == CHOOSE p \in 1..Len(journal) :
                               /\ journal[p].of = j /\ Full(journal[p], j)
                               /\ LastSnapshot(journal, Len(journal), p)
                   f == [j \in Owed(c) |-> At(j)]
        <4>2. ASSUME NEW j \in Owed(c)
              PROVE  /\ f[j] \in 1..Len(journal) /\ journal[f[j]].of = j
                     /\ Full(journal[f[j]], j)
                     /\ LastSnapshot(journal, Len(journal), f[j])
          BY <2>3, <4>1
        <4> HIDE DEF f
        <4>3. ASSUME NEW j \in Owed(c)
              PROVE  f[j] \in Held(c)
          <5>1. /\ j \in 1..Len(history) /\ history[j].event = c[1] /\ history[j].text = c[2]
            BY DEF Owed
          <5>2. f[j] \in Entries
            BY <4>2, <5>1 DEF Entries, LastSnapshot
          <5> QED
            BY <4>2, <5>1, <5>2 DEF Held, Full
        <4> QED
          BY <4>2, <4>3
      <3>2. CASE matcher # <<>>
        <4>1. backed /\ \E h : Found(h, matcher, replay.next - 1)
          BY <3>2 DEF WholeSoFar
        <4>2. PICK e : Backing(e, matcher.records, journal, Len(journal))
          BY <3>2, <4>1 DEF Backed
        <4>3. PICK h : Found(h, matcher, replay.next - 1)
          BY <4>1
        <4> DEFINE f == [j \in Owed(c) |-> e[h[j]]]
        <4>4. ASSUME NEW j \in Owed(c)
              PROVE  /\ j \in Due(matcher, replay.next - 1)
                     /\ history[j].event = c[1] /\ history[j].text = c[2]
          BY <2>3, <3>2 DEF Owed, Due
        <4>5. ASSUME NEW j \in Owed(c)
              PROVE  f[j] \in Held(c)
          <5>1. h[j] \in 1..Len(matcher.records) /\ Says(matcher.records[h[j]], j)
            BY <4>3, <4>4 DEF Found
          <5>2. /\ e[h[j]] \in 1..Len(journal) /\ matcher.records[h[j]] = journal[e[h[j]]]
                /\ LastSnapshot(journal, Len(journal), e[h[j]])
            BY <4>2, <5>1 DEF Backing, Says, Full
          <5>3. e[h[j]] \in Entries
            BY <5>1, <5>2 DEF Entries, LastSnapshot, Says, Full
          <5>4. Full(journal[e[h[j]]], j)
            <6>1. ~Truncated(j)
              BY DEF Owed
            <6> QED
              BY <5>1, <5>2, <5>3, <6>1 DEF Truncated, Says
          <5> QED
            BY <4>4, <5>3, <5>4 DEF Held, Full
        <4>6. ASSUME NEW j \in Owed(c), NEW k \in Owed(c), j # k
              PROVE  f[j] # f[k]
          <5>1. /\ h[j] \in 1..Len(matcher.records) /\ h[k] \in 1..Len(matcher.records)
                /\ h[j] # h[k]
            BY <4>3, <4>4, <4>6 DEF Found
          <5>2. e[h[j]] \in 1..Len(journal) /\ e[h[k]] \in 1..Len(journal)
            BY <4>2, <5>1 DEF Backing
          <5>3. h[j] < h[k] \/ h[k] < h[j]
            BY <5>1
          <5>4. e[h[j]] < e[h[k]] \/ e[h[k]] < e[h[j]]
            BY <4>2, <5>1, <5>3 DEF Backing
          <5> QED
            BY <5>2, <5>4
        <4> QED
          BY <4>5, <4>6
      <3> QED
        BY <3>1, <3>2
    <2>5. PICK f : /\ \A j \in Owed(c) : f[j] \in Held(c)
                   /\ \A j, k \in Owed(c) : j # k => f[j] # f[k]
      BY <2>4
    <2> DEFINE own == [j \in Owed(c) |-> f[j]]
    <2>6. own \in Injection(Owed(c), Held(c))
      BY <2>5 DEF Injection, IsInjective
    <2>7. Cardinality(Owed(c)) <= Cardinality(Held(c)) /\ IsFiniteSet(Owed(c))
      <3> HIDE DEF own
      <3> QED
        BY <2>2, <2>6, FS_Injection
    <2>8. Cardinality(Owed(c)) \in Nat /\ Cardinality(Held(c)) \in Nat
      BY <2>2, <2>7, FS_CardinalityType
    <2> QED
      BY <2>7, <2>8
  <1> QED
    BY <1>1, FaithfulInvariance, WholeInvariance, PTL
=============================================================================
