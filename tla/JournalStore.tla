---------------------------- MODULE JournalStore ----------------------------
(***************************************************************************)
(* One session's journal in journal/store.go: a JSONL file that a Store    *)
(* appends to under its mutex, that readers scan without it, a piece at a  *)
(* time, and that a process or power failure may cut at any point after    *)
(* the last Sync.                                                          *)
(*                                                                         *)
(* The file is a sequence of complete lines and perhaps a torn tail, the   *)
(* part of a line that ends without a newline.  The file system is taken   *)
(* to keep a prefix of what was written: all of it when only the process   *)
(* dies, at least what was synced when the machine does.                   *)
(***************************************************************************)
EXTENDS Naturals, Sequences

CONSTANTS Events,    \* what a caller appends
          NoEvent,
          MaxLines   \* bound on the length of the file

ASSUME NoEventAssumption == NoEvent \notin Events
ASSUME MaxLinesAssumption == MaxLines \in Nat

VARIABLES lines,     \* the complete lines of the file, as an open file reads
          torn,      \* the file ends in a torn tail
          durable,   \* how many of the lines survive a power failure
          open,      \* the Store holds a writer for the session
          seq,       \* writer.seq, while open
          holder,    \* the event whose Append holds the mutex, or NoEvent
          acked,     \* records whose Append returned without an error
          reader,    \* where a Read or LastSequence call is
          scan       \* how far it has read the file, and what it owes

vars == <<lines, torn, durable, open, seq, holder, acked, reader, scan>>

\* What a reader works with.
readVars == <<reader, scan>>

Record(n, e) == [sequence |-> n, event |-> e]

Records == [sequence : Nat \ {0}, event : Events]

\* readJournal in progress: at is the number of complete lines read, last the
\* lastSequence it compares with, got the records so far.  tail is "torn"
\* while the buffer holds the bytes of a torn tail, and "glued" once such
\* bytes and the end of another line have passed for a record.  owed, which
\* no code keeps, is what was acknowledged when the call was made.
Scan(owed) == [at |-> 0, last |-> 0, got |-> {}, tail |-> "none", owed |-> owed]

\* A record that is not any Append's has NoEvent.
Results == [sequence : Nat, event : Events \cup {NoEvent}]

Scans == [at : Nat, last : Nat, got : SUBSET Results,
          tail : {"none", "torn", "glued"}, owed : SUBSET Records]

TypeOK ==
    /\ lines \in Seq(Records) /\ Len(lines) <= MaxLines
    /\ torn \in BOOLEAN
    /\ durable \in Nat
    /\ open \in BOOLEAN
    /\ seq \in Nat
    /\ holder \in Events \cup {NoEvent}
    /\ acked \in SUBSET Records
    /\ reader \in {"idle", "read", "last", "last_scan"}
    /\ scan \in Scans

Init ==
    /\ lines = << >>
    /\ torn = FALSE
    /\ durable = 0
    /\ open = FALSE
    /\ seq = 0
    /\ holder = NoEvent
    /\ acked = {}
    /\ reader = "idle"
    /\ scan = Scan({})

Unlocked == holder = NoEvent

\* readJournal accepts the file.  Under the mutex, as in writerLocked, nobody
\* writes meanwhile and the scan is one step.
Monotonic(file) ==
    \A i \in 1..Len(file) - 1 : file[i].sequence < file[i + 1].sequence

LastSequence(file) == IF file = << >> THEN 0 ELSE file[Len(file)].sequence

-----------------------------------------------------------------------------
(* Append.                                                                 *)

\* Mutated: a line the writer did not write itself is not counted.
OpenWriter_OffByOne ==
    /\ Unlocked /\ ~open
    /\ Monotonic(lines)
    /\ open' = TRUE
    /\ seq' = LastSequence(lines) - 1
    /\ torn' = FALSE
    /\ durable' = IF torn THEN Len(lines) ELSE durable
    /\ UNCHANGED <<lines, holder, acked, readVars>>

\* writerLocked without a writer: cut the torn tail (and sync), then read the
\* file to find the last sequence.  Append goes on under the same lock, so
\* opening alone is no more than an Append that stops here.
OpenWriter ==
    /\ Unlocked /\ ~open
    /\ Monotonic(lines)
    /\ open' = TRUE
    /\ seq' = LastSequence(lines)
    /\ torn' = FALSE
    /\ durable' = IF torn THEN Len(lines) ELSE durable
    /\ UNCHANGED <<lines, holder, acked, readVars>>

\* Append's Write succeeds; the mutex stays held for the Sync.
Write(e) ==
    /\ Unlocked /\ open
    /\ Len(lines) < MaxLines
    /\ lines' = Append(lines, Record(seq + 1, e))
    /\ holder' = e
    /\ UNCHANGED <<torn, durable, open, seq, acked, readVars>>

\* Write fails, with or without a part of the line in the file: the writer is
\* dropped, so that the next Append repairs the tail.
WriteFails(e) ==
    /\ Unlocked /\ open
    /\ torn' \in {torn, TRUE}
    /\ open' = FALSE
    /\ UNCHANGED <<lines, durable, seq, holder, acked, readVars>>

\* Mutated: acknowledges before the data is on disk.
Sync_NoFlush ==
    /\ ~Unlocked
    /\ seq' = seq + 1
    /\ acked' = acked \cup {Record(seq + 1, holder)}
    /\ holder' = NoEvent
    /\ UNCHANGED <<lines, torn, durable, open, readVars>>

\* Sync succeeds: the record is acknowledged and writer.seq advances.
Sync ==
    /\ ~Unlocked
    /\ durable' = Len(lines)
    /\ seq' = seq + 1
    /\ acked' = acked \cup {Record(seq + 1, holder)}
    /\ holder' = NoEvent
    /\ UNCHANGED <<lines, torn, open, readVars>>

\* Mutated: the writer survives, with the sequence of the line before.
SyncFails_KeepsWriter ==
    /\ ~Unlocked
    /\ holder' = NoEvent
    /\ UNCHANGED <<lines, torn, durable, open, seq, acked, readVars>>

\* Sync fails: Append returns an error, but the line is in the file.
SyncFails ==
    /\ ~Unlocked
    /\ open' = FALSE
    /\ holder' = NoEvent
    /\ UNCHANGED <<lines, torn, durable, seq, acked, readVars>>

Close ==
    /\ Unlocked /\ open
    /\ open' = FALSE
    /\ UNCHANGED <<lines, torn, durable, seq, holder, acked, readVars>>

-----------------------------------------------------------------------------
(* Read, ReadAfter, Tail and LastSequence: syncSession under the mutex,    *)
(* then a scan of the file without it, line by line; what is written, cut  *)
(* or repaired between two of its reads, the later one finds.              *)

SyncSession(next) ==
    /\ Unlocked /\ reader = "idle"
    /\ durable' = IF open THEN Len(lines) ELSE durable
    /\ reader' = next
    /\ scan' = Scan(acked)
    /\ UNCHANGED <<lines, torn, open, seq, holder, acked>>

\* LastSequence returns writer.seq, or scans the file when there is no writer.
LastOfWriter ==
    /\ Unlocked /\ reader = "last"
    /\ reader' = IF open THEN "idle" ELSE "last_scan"
    /\ scan' = IF open THEN Scan({}) ELSE scan
    /\ UNCHANGED <<lines, torn, durable, open, seq, holder, acked>>

Scanning == reader \in {"read", "last_scan"}

\* The scan has taken r for the line that ends at line to of the file.
Taken(to, r, tail) ==
    [at |-> to, last |-> r.sequence, got |-> scan.got \cup {r}, tail |-> tail,
     owed |-> scan.owed]

\* A complete line, with a number above the one before.
ScanLine ==
    /\ Scanning /\ scan.tail # "torn" /\ scan.at < Len(lines)
    /\ lines[scan.at + 1].sequence > scan.last
    /\ scan' = Taken(scan.at + 1, lines[scan.at + 1], scan.tail)
    /\ UNCHANGED <<lines, torn, durable, open, seq, holder, acked, reader>>

\* ReadBytes gets the torn tail and, finding no newline, will read again.
ScanTorn ==
    /\ Scanning /\ scan.tail # "torn" /\ scan.at = Len(lines) /\ torn
    /\ scan' = [scan EXCEPT !.tail = "torn"]
    /\ UNCHANGED <<lines, torn, durable, open, seq, holder, acked, reader>>

\* The tail was repaired and lines were appended since it was read: its bytes
\* and what follows them in a later line pass for a line, and that decodes,
\* to a record with some sequence number.
ScanGlued ==
    /\ Scanning /\ scan.tail = "torn"
    /\ \E to \in scan.at + 1..Len(lines), n \in scan.last + 1..MaxLines :
           scan' = Taken(to, Record(n, NoEvent), "glued")
    /\ UNCHANGED <<lines, torn, durable, open, seq, holder, acked, reader>>

\* Mutated: an end of file that comes with bytes ends the scan before they
\* are looked at.
ScanEnds_DropsLine ==
    /\ Scanning
    /\ scan.at + 1 >= Len(lines) \/ scan.tail = "torn"
    /\ reader' = "idle"
    /\ scan' = Scan({})
    /\ UNCHANGED <<lines, torn, durable, open, seq, holder, acked>>

\* The end of the file, or of what is there behind a torn tail that was
\* longer than what replaced it: readJournal drops the torn bytes, Read returns
\* scan.got and LastSequence scan.last.
ScanEnds ==
    /\ Scanning
    /\ IF scan.at = Len(lines) THEN torn => scan.tail = "torn" ELSE scan.tail = "torn"
    /\ reader' = "idle"
    /\ scan' = Scan({})
    /\ UNCHANGED <<lines, torn, durable, open, seq, holder, acked>>

\* readJournal's errors: a glued line that does not decode, or a number that
\* is not above the one before.  Nothing is returned.
ScanFails ==
    /\ Scanning /\ scan.at < Len(lines)
    /\ scan.tail = "torn" \/ lines[scan.at + 1].sequence <= scan.last
    /\ reader' = "idle"
    /\ scan' = Scan({})
    /\ UNCHANGED <<lines, torn, durable, open, seq, holder, acked>>

-----------------------------------------------------------------------------
(* Failures.                                                               *)

\* The process dies: what it wrote stays in the file, and a Write that was
\* under way may leave a torn tail.
ProcessDies ==
    /\ open' = FALSE
    /\ seq' = 0
    /\ holder' = NoEvent
    /\ reader' = "idle"
    /\ scan' = Scan({})
    /\ torn' \in IF open /\ Unlocked THEN {torn, TRUE} ELSE {torn}
    /\ UNCHANGED <<lines, durable, acked>>

\* The machine dies: lines after the synced ones may be cut, the first of
\* those lost in its middle.
PowerFails ==
    \E kept \in durable..Len(lines) :
        /\ lines' = SubSeq(lines, 1, kept)
        /\ torn' \in IF torn \/ kept < Len(lines) \/ (open /\ Unlocked)
                     THEN BOOLEAN ELSE {FALSE}
        /\ durable' = kept
        /\ open' = FALSE
        /\ seq' = 0
        /\ holder' = NoEvent
        /\ reader' = "idle"
        /\ scan' = Scan({})
        /\ UNCHANGED acked

-----------------------------------------------------------------------------
Next ==
    \/ OpenWriter
    \/ \E e \in Events : Write(e) \/ WriteFails(e)
    \/ Sync \/ SyncFails \/ Close
    \/ SyncSession("read") \/ SyncSession("last") \/ LastOfWriter
    \/ ScanLine \/ ScanTorn \/ ScanGlued \/ ScanEnds \/ ScanFails
    \/ ProcessDies \/ PowerFails

Spec == Init /\ [][Next]_vars

-----------------------------------------------------------------------------
(* Properties.                                                             *)

\* An Append that returned without an error "durably appends record": the
\* record is in the part of the file that no failure takes away, at the
\* position its sequence number names.
AckedSurvives ==
    \A r \in acked : r.sequence <= durable /\ r.sequence <= Len(lines)
                     /\ lines[r.sequence] = r

\* Sequence numbers are consecutive from 1, so readJournal never rejects the
\* file as non-monotonic.
Consecutive == \A i \in 1..Len(lines) : lines[i].sequence = i

\* A writer never appends to a torn tail: a line glued to the remains of
\* another could not be decoded, and would take the whole journal with it.
NoWriteOnTornTail == open => ~torn

\* The file can always be read back, after any mixture of failed writes,
\* failed syncs, torn tails and restarts.
Readable == Consecutive /\ NoWriteOnTornTail

\* What these invariants rest on: only synced lines count as durable, an
\* idle writer has counted every line, and an Append between its Write and
\* its Sync has put its own record, and nothing else, at the end.
WriterCurrent ==
    /\ durable <= Len(lines)
    /\ open /\ Unlocked => seq = Len(lines)
    /\ ~Unlocked => /\ open
                    /\ Len(lines) = seq + 1
                    /\ lines[Len(lines)] = Record(seq + 1, holder)

\* Readers scan the file without the mutex.  A Read that returns without an
\* error still returns every record that was acknowledged before it was
\* called, the number LastSequence returns is not below theirs, and only a
\* scan that has met a torn tail, repaired behind its back, can fail.
ReadsSeeAcked ==
    [][/\ ScanEnds => /\ scan.owed \subseteq scan.got
                      /\ \A r \in scan.owed : r.sequence <= scan.last
       /\ LastOfWriter /\ open => \A r \in scan.owed : r.sequence <= seq
       /\ ScanFails => scan.tail # "none"]_vars

\* What that rests on: the scan has what it owes of the part it has read, a
\* torn tail is met only behind everything it owes, and until then its last
\* number is its place in the file.
ScanCurrent ==
    reader # "idle" =>
        /\ scan.owed \subseteq acked
        /\ scan.at <= Len(lines)
        /\ scan.tail = "none" => scan.last = scan.at
        /\ \A r \in scan.owed :
               /\ scan.tail # "none" => r.sequence <= scan.at
               /\ r.sequence <= scan.at => r \in scan.got /\ r.sequence <= scan.last

\* The Store is the log it promises to be: the place of a line is its number.
Log == INSTANCE DurableLog WITH
           log <- [i \in 1..Len(lines) |-> lines[i].event],
           safe <- durable

ImplementsLog == Log!Spec
=============================================================================
