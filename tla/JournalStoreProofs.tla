------------------------- MODULE JournalStoreProofs -------------------------
(* What JournalStore promises, for every set of events and every length.   *)
EXTENDS JournalStore, TLAPS

\* The invariants of the run, strengthened by what the writer and a scan in
\* progress know.
Inv ==
    /\ TypeOK
    /\ WriterCurrent
    /\ Consecutive
    /\ AckedSurvives
    /\ NoWriteOnTornTail
    /\ ScanCurrent

\* The elements of a sequence over S are in S.
LEMMA ElementsInSet ==
    ASSUME NEW S, NEW s \in Seq(S)
    PROVE  {s[i] : i \in 1..Len(s)} \subseteq S
  OBVIOUS

\* A prefix of a sequence, as a crash leaves of the file.
LEMMA PrefixOf ==
    ASSUME NEW S, NEW s \in Seq(S), NEW k \in 0..Len(s)
    PROVE  /\ SubSeq(s, 1, k) \in Seq(S)
           /\ Len(SubSeq(s, 1, k)) = k
           /\ \A i \in 1..k : SubSeq(s, 1, k)[i] = s[i]
  OBVIOUS

\* A scan that has not begun.
LEMMA FreshScan ==
    ASSUME NEW owed \in SUBSET Records
    PROVE  /\ Scan(owed) \in Scans
           /\ Scan(owed).at = 0 /\ Scan(owed).last = 0
           /\ Scan(owed).tail = "none" /\ Scan(owed).owed = owed
  BY DEF Scan, Scans

\* A record of the file is one a scan may return, and so is a mixed one.
LEMMA RecordsAreResults ==
    /\ Records \subseteq Results
    /\ \A n \in Nat : Record(n, NoEvent) \in Results
  BY DEF Records, Results, Record

\* The fields of a scan.
LEMMA ScanFields ==
    ASSUME NEW s \in Scans
    PROVE  /\ s.at \in Nat /\ s.last \in Nat /\ s.got \in SUBSET Results
           /\ s.tail \in {"none", "torn", "glued"} /\ s.owed \in SUBSET Records
  BY DEF Scans

\* A scan that has read some more.
LEMMA ScanMoves ==
    ASSUME scan \in Scans, NEW to \in Nat, NEW r \in Results,
           NEW tail \in {"none", "torn", "glued"}
    PROVE  /\ Taken(to, r, tail) \in Scans
           /\ Taken(to, r, tail).at = to /\ Taken(to, r, tail).last = r.sequence
           /\ Taken(to, r, tail).tail = tail /\ Taken(to, r, tail).owed = scan.owed
           /\ Taken(to, r, tail).got = scan.got \cup {r}
  <1>1. r.sequence \in Nat
    BY DEF Results
  <1>2. scan.got \cup {r} \in SUBSET Results /\ scan.owed \in SUBSET Records
    BY ScanFields
  <1> QED
    BY <1>1, <1>2 DEF Taken, Scans

\* A scan that meets a torn tail changes in nothing else.
LEMMA ScanMeetsTail ==
    ASSUME NEW s \in Scans, NEW n, n = [s EXCEPT !.tail = "torn"]
    PROVE  /\ n \in Scans
           /\ n.at = s.at /\ n.last = s.last /\ n.tail = "torn"
           /\ n.owed = s.owed /\ n.got = s.got
  BY DEF Scans

\* A fresh journal satisfies the invariant.
LEMMA InitInv == Init => Inv
  <1> SUFFICES ASSUME Init PROVE Inv
    OBVIOUS
  <1> USE NoEventAssumption, MaxLinesAssumption
  <1>1. TypeOK
    <2>1. lines \in Seq(Records) /\ Len(lines) <= MaxLines
      BY DEF Init
    <2>2. acked \in SUBSET Records
      BY DEF Init
    <2>3. scan \in Scans
      BY FreshScan DEF Init
    <2> QED
      BY <2>1, <2>2, <2>3 DEF Init, TypeOK
  <1>2. WriterCurrent
    BY DEF Init, WriterCurrent, Unlocked
  <1>3. Consecutive /\ AckedSurvives
    BY DEF Init, Consecutive, AckedSurvives
  <1>4. NoWriteOnTornTail
    BY DEF Init, NoWriteOnTornTail
  <1>5. ScanCurrent
    BY DEF Init, ScanCurrent
  <1> QED
    BY <1>1, <1>2, <1>3, <1>4, <1>5 DEF Inv

\* Every step of the Store, of its readers, and every failure preserves what
\* Inv says of the file.
LEMMA NextFile ==
    Inv /\ [Next]_vars =>
        (TypeOK /\ WriterCurrent /\ Consecutive /\ AckedSurvives /\ NoWriteOnTornTail)'
  <1> DEFINE FileInv ==
        TypeOK /\ WriterCurrent /\ Consecutive /\ AckedSurvives /\ NoWriteOnTornTail
  <1> SUFFICES ASSUME Inv, [Next]_vars PROVE FileInv'
    OBVIOUS
  <1> USE NoEventAssumption, MaxLinesAssumption
  <1> USE DEF TypeOK, WriterCurrent, Consecutive, AckedSurvives,
              NoWriteOnTornTail, Unlocked, Records, Record, readVars
  <1>0. FileInv
    BY DEF Inv
  <1>1. CASE OpenWriter
    <2>1. LastSequence(lines) = Len(lines)
      <3>1. CASE lines = << >>
        BY <1>0, <3>1 DEF LastSequence
      <3>2. CASE lines # << >>
        <4>1. Len(lines) \in 1..Len(lines)
          BY <1>0, <3>2
        <4> QED
          BY <1>0, <3>2, <4>1 DEF LastSequence
      <3> QED
        BY <3>1, <3>2
    <2>2. TypeOK'
      <3>1. durable' \in Nat /\ seq' \in Nat
        BY <1>0, <1>1, <2>1 DEF OpenWriter
      <3>2. torn' \in BOOLEAN /\ open' \in BOOLEAN
        BY <1>0, <1>1 DEF OpenWriter
      <3> QED
        BY <1>0, <1>1, <3>1, <3>2 DEF OpenWriter
    <2>3. WriterCurrent'
      BY <1>0, <1>1, <2>1 DEF OpenWriter
    <2>4. Consecutive' /\ AckedSurvives'
      BY <1>0, <1>1 DEF OpenWriter
    <2>5. NoWriteOnTornTail'
      BY <1>0, <1>1 DEF OpenWriter
    <2> QED
      BY <2>2, <2>3, <2>4, <2>5
  <1>2. ASSUME NEW e \in Events, Write(e) PROVE FileInv'
    BY <1>0, <1>2 DEF Write
  <1>3. ASSUME NEW e \in Events, WriteFails(e) PROVE FileInv'
    BY <1>0, <1>3 DEF WriteFails
  <1>4. CASE Sync
    BY <1>0, <1>4 DEF Sync
  <1>5. CASE SyncFails
    BY <1>0, <1>5 DEF SyncFails
  <1>6. CASE Close
    BY <1>0, <1>6 DEF Close
  <1>7. ASSUME NEW next \in {"read", "last"}, SyncSession(next) PROVE FileInv'
    <2>1. scan' \in Scans
      BY <1>0, <1>7, FreshScan DEF SyncSession
    <2> QED
      BY <1>0, <1>7, <2>1 DEF SyncSession
  <1>8. CASE /\ UNCHANGED <<lines, torn, durable, open, seq, holder, acked>>
             /\ reader' \in {"idle", "read", "last", "last_scan"} /\ scan' \in Scans
    BY <1>0, <1>8
  <1>9. CASE ScanLine
    <2>1. lines[scan.at + 1] \in Results /\ lines[scan.at + 1].sequence \in Nat
      <3>1. scan.at + 1 \in 1..Len(lines)
        BY <1>0, <1>9, ScanFields, SMTT(30) DEF ScanLine
      <3>2. lines[scan.at + 1] \in Records
        <4>1. lines \in Seq(Records)
          BY <1>0
        <4> HIDE DEF Records
        <4> QED
          BY <3>1, <4>1
      <3> QED
        BY <3>2, RecordsAreResults
    <2>2. scan.at + 1 \in Nat
      BY <1>0, ScanFields
    <2>3. scan' \in Scans
      <3> DEFINE line == lines[scan.at + 1]
                 to == scan.at + 1
                 tail == scan.tail
      <3>1. scan' = Taken(to, line, tail)
        BY <1>9 DEF ScanLine
      <3>2. /\ scan \in Scans /\ line \in Results /\ to \in Nat
            /\ tail \in {"none", "torn", "glued"}
        BY <1>0, <2>1, <2>2, ScanFields
      <3> HIDE DEF line, to, tail
      <3> QED
        BY ONLY <3>1, <3>2, ScanMoves
    <2> QED
      BY <1>0, <1>8, <1>9, <2>3 DEF ScanLine
  <1>10. CASE ScanGlued
    <2>1. scan' \in Scans
      <3>1. PICK to \in scan.at + 1..Len(lines), n \in scan.last + 1..MaxLines :
              scan' = Taken(to, Record(n, NoEvent), "glued")
        BY <1>10 DEF ScanGlued
      <3>2. scan \in Scans /\ scan.at \in Nat /\ scan.last \in Nat
        BY <1>0, ScanFields
      <3>3. to \in Nat /\ n \in Nat
        BY <3>2
      <3> DEFINE r == Record(n, NoEvent)
      <3>4. r \in Results /\ scan' = Taken(to, r, "glued")
        BY <3>1, <3>3, RecordsAreResults
      <3> HIDE DEF r
      <3> QED
        BY ONLY <3>2, <3>3, <3>4, ScanMoves
    <2> QED
      BY <1>0, <1>8, <1>10, <2>1 DEF ScanGlued
  <1>14. CASE ScanTorn
    <2>1. scan' \in Scans
      BY <1>0, <1>14, ScanMeetsTail DEF ScanTorn
    <2> QED
      BY <1>0, <1>8, <1>14, <2>1 DEF ScanTorn
  <1>15. CASE ScanEnds \/ ScanFails
    <2>1. scan' \in Scans
      BY <1>15, FreshScan DEF ScanEnds, ScanFails
    <2> QED
      BY <1>0, <1>8, <1>15, <2>1 DEF ScanEnds, ScanFails
  <1>16. CASE LastOfWriter
    <2>1. scan' \in Scans
      BY <1>0, <1>16, FreshScan DEF LastOfWriter
    <2> QED
      BY <1>0, <1>8, <1>16, <2>1 DEF LastOfWriter
  <1>11. CASE ProcessDies
    <2>1. scan' \in Scans
      BY <1>11, FreshScan DEF ProcessDies
    <2> QED
      BY <1>0, <1>11, <2>1 DEF ProcessDies
  <1>12. CASE PowerFails
    <2>1. PICK kept \in durable..Len(lines) :
            /\ lines' = SubSeq(lines, 1, kept)
            /\ torn' \in BOOLEAN
            /\ durable' = kept
            /\ open' = FALSE /\ seq' = 0
            /\ holder' = NoEvent /\ reader' = "idle"
            /\ scan' = Scan({}) /\ UNCHANGED acked
      BY <1>12 DEF PowerFails
    <2>2. /\ lines' \in Seq(Records) /\ Len(lines') = kept
          /\ \A i \in 1..kept : lines'[i] = lines[i]
      <3>1. kept \in 0..Len(lines)
        BY <1>0, <2>1
      <3>2. lines \in Seq(Records) /\ lines' = SubSeq(lines, 1, kept)
        BY <1>0, <2>1 DEF TypeOK
      <3> QED
        BY <3>1, <3>2, PrefixOf, ZenonT(60)
    <2>3. TypeOK'
      <3>1. lines' \in Seq(Records) /\ Len(lines') <= MaxLines /\ durable' \in Nat
        BY <1>0, <2>1, <2>2
      <3>2. torn' \in BOOLEAN /\ open' \in BOOLEAN
        BY <1>0, <2>1
      <3>3. seq' \in Nat /\ holder' \in Events \cup {NoEvent}
        BY <1>0, <2>1
      <3>4. scan' \in Scans
        BY <2>1, FreshScan
      <3> QED
        BY <1>0, <2>1, <3>1, <3>2, <3>3, <3>4
    <2>4. WriterCurrent'
      BY <1>0, <2>1, <2>2
    <2>5. Consecutive'
      BY <1>0, <2>1, <2>2, SMTT(30)
    <2>6. AckedSurvives'
      BY <1>0, <2>1, <2>2, SMTT(30)
    <2>7. NoWriteOnTornTail'
      BY <1>0, <2>1
    <2> QED
      BY <2>3, <2>4, <2>5, <2>6, <2>7
  <1>13. CASE UNCHANGED vars
    BY <1>0, <1>13 DEF vars
  <1> QED
    BY <1>1, <1>2, <1>3, <1>4, <1>5, <1>6, <1>7, <1>9, <1>10, <1>11,
       <1>12, <1>13, <1>14, <1>15, <1>16 DEF Next

\* What a scan knows stays true, whatever is written, cut, repaired or
\* acknowledged between two of its steps.
LEMMA NextScan == Inv /\ [Next]_vars => ScanCurrent'
  <1> SUFFICES ASSUME Inv, [Next]_vars, reader' # "idle" PROVE ScanCurrent'
    BY DEF ScanCurrent
  <1> USE DEF readVars
  <1>0. /\ scan \in Scans /\ lines \in Seq(Records) /\ acked \in SUBSET Records
        /\ Consecutive /\ AckedSurvives /\ ScanCurrent
    BY DEF Inv, TypeOK
  <1>1. /\ scan.at \in Nat /\ scan.last \in Nat /\ scan.got \in SUBSET Results
        /\ scan.tail \in {"none", "torn", "glued"} /\ scan.owed \in SUBSET Records
    BY <1>0, ScanFields
  <1>2. \A r \in acked : r.sequence \in 1..Len(lines) /\ lines[r.sequence] = r
    BY <1>0 DEF AckedSurvives, Records
  <1>3. CASE /\ scan' = scan /\ reader # "idle"
             /\ acked \subseteq acked' /\ Len(lines) <= Len(lines')
             /\ Len(lines') \in Nat
    BY <1>0, <1>1, <1>3 DEF ScanCurrent
  <1>4. CASE \E next \in {"read", "last"} : SyncSession(next)
    <2>1. scan' = Scan(acked) /\ lines' = lines /\ acked' = acked
      BY <1>4 DEF SyncSession
    <2>2. /\ scan'.at = 0 /\ scan'.last = 0
          /\ scan'.tail = "none" /\ scan'.owed = acked
      BY <1>0, <2>1, FreshScan
    <2>3. \A r \in acked : ~(r.sequence <= 0)
      BY <1>2
    <2> QED
      BY <1>0, <2>1, <2>2, <2>3 DEF ScanCurrent
  <1>5. CASE ScanLine
    <2> DEFINE line == lines[scan.at + 1]
    <2>1. scan.at + 1 \in 1..Len(lines) /\ reader # "idle"
      BY <1>0, <1>1, <1>5 DEF ScanLine, Scanning
    <2>2. line \in Records /\ line.sequence = scan.at + 1
      BY <1>0, <2>1 DEF Consecutive
    <2>3. line \in Results /\ line.sequence \in Nat /\ scan.at + 1 \in Nat
      BY <2>2, <1>1, RecordsAreResults
    <2>4. scan' = Taken(scan.at + 1, line, scan.tail)
      BY <1>5 DEF ScanLine
    <2>5. /\ scan'.at = scan.at + 1 /\ scan'.last = line.sequence
          /\ scan'.tail = scan.tail /\ scan'.owed = scan.owed
          /\ scan'.got = scan.got \cup {line}
      <3> DEFINE to == scan.at + 1
                 tail == scan.tail
      <3> SUFFICES /\ scan'.at = to /\ scan'.last = line.sequence
                   /\ scan'.tail = tail /\ scan'.owed = scan.owed
                   /\ scan'.got = scan.got \cup {line}
        OBVIOUS
      <3>1. /\ scan' = Taken(to, line, tail) /\ to \in Nat
            /\ tail \in {"none", "torn", "glued"}
        BY <1>1, <2>3, <2>4
      <3> HIDE DEF line, to, tail
      <3> QED
        BY <1>0, <2>3, <3>1, ScanMoves
    <2>6. line.sequence > scan.last /\ lines' = lines /\ acked' = acked
      BY <1>5 DEF ScanLine
    <2>7. \A r \in scan.owed :
             /\ scan.tail # "none" => r.sequence <= scan.at
             /\ r.sequence <= scan.at => r \in scan.got /\ r.sequence <= scan.last
             /\ r.sequence = scan.at + 1 => r = line
             /\ r.sequence \in Nat
      BY <1>0, <1>2, <2>1 DEF ScanCurrent
    <2>8. scan.owed \subseteq acked
      BY <1>0, <2>1 DEF ScanCurrent
    <2> HIDE DEF line
    <2> QED
      BY <1>1, <2>1, <2>2, <2>5, <2>6, <2>7, <2>8 DEF ScanCurrent
  <1>6. CASE ScanTorn
    <2>1. /\ scan'.at = scan.at /\ scan'.last = scan.last /\ scan'.tail = "torn"
          /\ scan'.owed = scan.owed /\ scan'.got = scan.got
      BY <1>0, <1>6, ScanMeetsTail DEF ScanTorn
    <2>2. /\ reader # "idle" /\ scan.at = Len(lines)
          /\ lines' = lines /\ acked' = acked
      BY <1>6 DEF ScanTorn, Scanning
    <2>3. \A r \in scan.owed : r.sequence <= scan.at
      BY <1>0, <1>2, <2>2 DEF ScanCurrent
    <2> QED
      BY <1>0, <1>1, <2>1, <2>2, <2>3 DEF ScanCurrent
  <1>7. CASE ScanGlued
    <2>1. PICK to \in scan.at + 1..Len(lines), n \in scan.last + 1..MaxLines :
            scan' = Taken(to, Record(n, NoEvent), "glued")
      BY <1>7 DEF ScanGlued
    <2> DEFINE r == Record(n, NoEvent)
    <2>2. to \in Nat /\ n \in Nat /\ r \in Results /\ r.sequence = n
      <3>1. to \in Nat /\ n \in Nat
        BY <1>1
      <3>2. r.sequence = n
        BY DEF Record
      <3> QED
        BY <3>1, <3>2, RecordsAreResults
    <2>3. /\ scan'.at = to /\ scan'.last = n /\ scan'.tail = "glued"
          /\ scan'.owed = scan.owed /\ scan'.got = scan.got \cup {r}
      <3>1. scan' = Taken(to, r, "glued")
        BY <2>1
      <3> HIDE DEF r
      <3> QED
        BY <1>0, <2>2, <3>1, ScanMoves
    <2>4. /\ reader # "idle" /\ scan.tail # "none"
          /\ lines' = lines /\ acked' = acked
      BY <1>7 DEF ScanGlued, Scanning
    <2>5. /\ scan.owed \subseteq acked
          /\ \A q \in scan.owed : /\ q.sequence \in Nat /\ q.sequence <= scan.at
                                 /\ q \in scan.got /\ q.sequence <= scan.last
      BY <1>0, <1>2, <2>4 DEF ScanCurrent
    <2> QED
      BY <1>1, <2>2, <2>3, <2>4, <2>5 DEF ScanCurrent
  <1>8. CASE LastOfWriter
    <2>1. scan' = scan /\ reader = "last" /\ acked' = acked /\ lines' = lines
      BY <1>8 DEF LastOfWriter
    <2> QED
      BY <1>0, <1>3, <2>1
  <1>9. CASE \E e \in Events : Write(e)
    <2>1. scan' = scan /\ reader' = reader /\ acked' = acked
      BY <1>9 DEF Write
    <2>2. Len(lines) <= Len(lines') /\ Len(lines') \in Nat
      <3>1. PICK e : lines' = Append(lines, Record(seq + 1, e))
        BY <1>9 DEF Write
      <3> QED
        BY <1>0, <3>1
    <2> QED
      BY <1>3, <2>1, <2>2
  <1>10. CASE \/ OpenWriter \/ Sync \/ SyncFails \/ Close
              \/ \E e \in Events : WriteFails(e)
    <2>1. scan' = scan /\ reader' = reader /\ acked \subseteq acked' /\ lines' = lines
      BY <1>10 DEF OpenWriter, Sync, SyncFails, Close, WriteFails
    <2> QED
      BY <1>0, <1>3, <2>1
  <1>11. CASE UNCHANGED vars
    BY <1>0, <1>3, <1>11 DEF vars
  <1> QED
    BY <1>4, <1>5, <1>6, <1>7, <1>8, <1>9, <1>10, <1>11
    DEF Next, ScanEnds, ScanFails, ProcessDies, PowerFails

\* Both together.
LEMMA NextInv == Inv /\ [Next]_vars => Inv'
  BY NextFile, NextScan DEF Inv

\* The inductive invariant holds in every reachable state.
THEOREM Invariance == Spec => []Inv
  BY InitInv, NextInv, PTL DEF Spec

\* The state stays well typed and the file within its bound.
THEOREM TypeCorrect == Spec => []TypeOK
  BY Invariance, PTL DEF Inv

\* The writer has counted every line, and between Write and Sync the last one
\* is its own.
THEOREM WriterKnowsFile == Spec => []WriterCurrent
  BY Invariance, PTL DEF Inv

\* An Append that returned without an error has put its record where no
\* failed write, failed sync, crash or repair takes it away, at the place its
\* sequence number names: for every set of events and every journal length.
THEOREM Durability == Spec => []AckedSurvives
  BY Invariance, PTL DEF Inv

\* readJournal's monotonicity check never refuses a file this Store wrote, and
\* writerLocked always hands Append a file that ends in a complete line.
THEOREM Readability == Spec => []Readable
  BY Invariance, PTL DEF Inv, Readable

-----------------------------------------------------------------------------
(* The refinement.                                                         *)

\* The events of a file, as the log has them.
Contents(file) == [i \in 1..Len(file) |-> file[i].event]

\* The contents of a file are as long as the file.
LEMMA ContentsType ==
    ASSUME NEW file \in Seq(Records)
    PROVE  Contents(file) \in Seq(Events) /\ Len(Contents(file)) = Len(file)
  <1>1. \A i \in 1..Len(file) : file[i].event \in Events
    <2> SUFFICES ASSUME NEW i \in 1..Len(file) PROVE file[i].event \in Events
      OBVIOUS
    <2>1. file[i] \in Records
      OBVIOUS
    <2> QED
      BY <2>1 DEF Records
  <1>2. Contents(file) \in [1..Len(file) -> Events]
    BY <1>1 DEF Contents
  <1> QED
    BY <1>2 DEF Contents

\* The log's view of an append, and of a cut.
LEMMA ContentsOfAppend ==
    ASSUME NEW file \in Seq(Records), NEW r \in Records
    PROVE  Contents(Append(file, r)) = Append(Contents(file), r.event)
  <1>1. Contents(file) \in Seq(Events) /\ r.event \in Events
    BY ContentsType DEF Records
  <1> QED
    BY <1>1 DEF Contents

\* What a prefix of the file holds.
LEMMA ContentsOfPrefix ==
    ASSUME NEW file \in Seq(Records), NEW k \in 0..Len(file)
    PROVE  Contents(SubSeq(file, 1, k)) = SubSeq(Contents(file), 1, k)
  <1>1. Contents(file) \in Seq(Events) /\ Len(Contents(file)) = Len(file)
    BY ContentsType
  <1>2. SubSeq(file, 1, k) = [i \in 1..k |-> file[i]]
    BY PrefixOf
  <1>3. SubSeq(Contents(file), 1, k) = [i \in 1..k |-> Contents(file)[i]]
    BY <1>1, PrefixOf
  <1> QED
    BY <1>2, <1>3, PrefixOf DEF Contents

\* Every step of the Store is a step of the log or leaves it alone.
LEMMA NextRefines == Inv /\ [Next]_vars => [Log!Next]_(Log!logVars)
  <1> SUFFICES ASSUME Inv, [Next]_vars PROVE [Log!Next]_(Log!logVars)
    OBVIOUS
  <1> USE MaxLinesAssumption, NoEventAssumption
  <1> USE DEF Log!Next, Log!logVars
  <1>0. /\ Len(Contents(lines)) = Len(lines)
        /\ lines \in Seq(Records) /\ durable \in Nat /\ durable <= Len(lines)
    BY DEF Inv, TypeOK, WriterCurrent, Contents
  <1>1. CASE OpenWriter
    BY <1>0, <1>1 DEF OpenWriter, Log!Secure, Contents
  <1>2. ASSUME NEW e \in Events, Write(e) PROVE Log!Next
    <2>1. Record(seq + 1, e) \in Records
      BY DEF Record, Records, Inv, TypeOK
    <2>2. Contents(lines') = Append(Contents(lines), e)
      BY <1>0, <1>2, <2>1, ContentsOfAppend DEF Write, Record
    <2>3. Log!Extend
      BY <1>2, <2>2 DEF Log!Extend, Write, Contents
    <2> QED
      BY <2>3
  <1>3. CASE Sync
    <2>1. /\ Len(lines) = seq + 1 /\ Len(lines) \in 1..Len(lines)
          /\ lines[Len(lines)].event = holder
      BY <1>3 DEF Inv, TypeOK, WriterCurrent, Sync, Record
    <2>2. Contents(lines)[Len(lines)] = holder /\ Contents(lines) # << >>
      BY <1>0, <2>1 DEF Contents
    <2>3. Log!Acknowledge
      BY <1>0, <1>3, <2>1, <2>2 DEF Log!Acknowledge, Sync, Record, Contents
    <2> QED
      BY <2>3
  <1>4. ASSUME NEW next \in {"read", "last"}, SyncSession(next) PROVE [Log!Next]_(Log!logVars)
    BY <1>0, <1>4 DEF SyncSession, Log!Secure, Contents
  <1>5. CASE PowerFails
    <2>1. PICK kept \in durable..Len(lines) :
            lines' = SubSeq(lines, 1, kept) /\ durable' = kept /\ acked' = acked
      BY <1>5 DEF PowerFails
    <2>2. Contents(lines') = SubSeq(Contents(lines), 1, kept)
      BY <1>0, <2>1, ContentsOfPrefix
    <2>3. Log!Lose
      BY <1>0, <2>1, <2>2 DEF Log!Lose, Contents
    <2> QED
      BY <2>3
  <1>6. CASE UNCHANGED <<lines, durable, acked>>
    BY <1>6
  <1> QED
    BY <1>1, <1>2, <1>3, <1>4, <1>5, <1>6
    DEF Next, vars, WriteFails, SyncFails, Close, LastOfWriter, ScanLine,
        ScanTorn, ScanGlued, ScanEnds, ScanFails, ProcessDies

\* The Store implements the durable log: writers, locks, torn tails, failed
\* writes and syncs, restarts and crashes only ever extend it, make it safe,
\* acknowledge what is safe, or lose what is not, and a record's sequence
\* number is its place.
THEOREM Refinement == Spec => ImplementsLog
  <1>1. Init => Log!Init
    BY DEF Init, Log!Init
  <1>2. Inv /\ [Next]_vars => [Log!Next]_(Log!logVars)
    BY NextRefines
  <1> QED
    BY <1>1, <1>2, Invariance, PTL DEF Spec, ImplementsLog, Log!Spec

\* A scan of the file, which holds no lock, returns without an error only
\* with every record that was acknowledged when it began, and a scan that has
\* met no torn tail does not fail; nor does a writer report less than was
\* acknowledged.
THEOREM ReadersMissNothing == Spec => ReadsSeeAcked
  <1> DEFINE Ends ==  /\ scan.owed \subseteq scan.got
                      /\ \A r \in scan.owed : r.sequence <= scan.last
             Last == \A r \in scan.owed : r.sequence <= seq
  <1>1. Inv /\ [Next]_vars =>
            [/\ ScanEnds => Ends
             /\ LastOfWriter /\ open => Last
             /\ ScanFails => scan.tail # "none"]_vars
    <2> SUFFICES ASSUME Inv PROVE /\ ScanEnds => Ends
                                  /\ LastOfWriter /\ open => Last
                                  /\ ScanFails => scan.tail # "none"
      OBVIOUS
    <2>1. /\ scan \in Scans /\ lines \in Seq(Records) /\ acked \in SUBSET Records
          /\ Consecutive /\ AckedSurvives /\ ScanCurrent
      BY DEF Inv, TypeOK
    <2>2. \A r \in acked : r.sequence \in 1..Len(lines)
      BY <2>1 DEF AckedSurvives, Records
    <2>3. /\ scan.at \in Nat /\ scan.last \in Nat
          /\ scan.tail \in {"none", "torn", "glued"}
      BY <2>1, ScanFields
    <2>4. ScanEnds => Ends
      <3> SUFFICES ASSUME ScanEnds PROVE Ends
        OBVIOUS
      <3>1. reader # "idle" /\ (scan.at = Len(lines) \/ scan.tail # "none")
        BY DEF ScanEnds, Scanning
      <3>2. \A r \in scan.owed : r.sequence <= scan.at
        BY <2>1, <2>2, <3>1 DEF ScanCurrent
      <3> QED
        BY <2>1, <3>1, <3>2 DEF ScanCurrent
    <2>5. LastOfWriter /\ open => Last
      <3> SUFFICES ASSUME LastOfWriter, open PROVE Last
        OBVIOUS
      <3>1. seq = Len(lines) /\ reader # "idle"
        BY DEF Inv, WriterCurrent, LastOfWriter
      <3> QED
        BY <2>1, <2>2, <3>1 DEF ScanCurrent
    <2>6. ScanFails => scan.tail # "none"
      <3> SUFFICES ASSUME ScanFails, scan.tail = "none" PROVE FALSE
        OBVIOUS
      <3>1. /\ reader # "idle" /\ scan.at < Len(lines)
            /\ lines[scan.at + 1].sequence <= scan.last
        BY DEF ScanFails, Scanning
      <3>2. scan.at + 1 \in 1..Len(lines) /\ scan.last = scan.at
        BY <2>1, <2>3, <3>1 DEF ScanCurrent
      <3>3. lines[scan.at + 1].sequence = scan.at + 1
        BY <2>1, <3>2 DEF Consecutive
      <3> QED
        BY <2>3, <3>1, <3>2, <3>3
    <2> QED
      BY <2>4, <2>5, <2>6
  <1> QED
    BY <1>1, Invariance, PTL DEF Spec, ReadsSeeAcked
=============================================================================
