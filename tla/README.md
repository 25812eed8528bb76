# A TLA+ verification of durable-acp

durable-acp hosts Agent Client Protocol agents: it starts provider processes,
serialises the turns of each session through a bounded queue, normalises what
the provider reports into events, and keeps every session in an append-only
journal from which it recovers. This directory holds TLA+ modules translated
from that code, the TLC configurations that check them on small instances, and
TLAPS proofs of the main safety properties for instances of every size.

`PROJECT.json` maps every definition to the source lines it stands for and lists
the components, runs, mutants, findings, hazards and theorems.

## The system

| Component | State | Operations | Talks to |
|---|---|---|---|
| session runtime (`runtime/runtime.go`) | per session: status, dispatching and active flags, active turn ID, queue, pending interaction, last backend session | Create, Start, Send, SendNext, queue edits, BlockDispatch, UnblockDispatch, Interrupt, InterruptActive, RespondInteraction, Restart, Close, Restore | calls the adapter; is called back with events by the adapter's goroutines; appends to the journal; calls the host's sink |
| delta coalescer (`runtime/coalesce.go`) | pending text, timer | Handle, Close, timer callback | between `deliver` and `deliverNow` of the runtime |
| acpx adapter (`adapters/acpx/acpx.go`) | per session: `promptMu`, current turn and its `promptDone`, open interactions, process | SendTurn, runPrompt, Interrupt, RespondInteraction, RestartSession, CloseSession | an ACP process over `client` and `transport` |
| journal store (`journal/store.go`) | one file per session, open writers | Append, Read, Tail, LastSequence, Close | the file system |
| agent process (`transport/process.go`) | pending calls, inbound requests, `done`, pipes | Start, Call, Notify, readLoop, closePending, Close | the agent subprocess |
| replay matcher (`journal/replay.go`) | keys of recorded events | Match, MatchesCompletedTurn, Record, Reset | the runtime, on provider resume |
| engine (`engine.go`) | manifests, settings | Open, Start, Resume, Repair, Prune, Restart, CloseSession, Remove, Close | all of the above |
| worktrees (`worktree/manager.go`) | git worktrees and branches | Create, Reopen, EnsureBranch, Remove, Prune | git |
| antigravity adapter (`adapters/antigravity/antigravity.go`) | per session: current turn and agent, `ready`, `done`, permission channels | as acpx | an agent library |
| client (`client/client.go`) and wire types (`acp/`) | the negotiated connection | Start, Close, routing of requests and notifications, decoding and encoding of the protocol's unions | adapter above, transport below |

What is hard here is concurrency: no lock is held across a call to the adapter,
events are delivered by whichever goroutine emits them, records are appended and
dispatchers started after the lock is released, and the adapter has a lock of
its own that the runtime does not know of. Next comes failure: a host that dies
between two records, writes and syncs that fail half way, an agent that exits
while callers wait. `PROJECT.json` lists each hazard at its line with the
properties aimed at it.

Correctness, by component: the runtime serialises turns, loses no queued request
and no wakeup, and never stays active with a turn nobody will end; after a
restart nothing of the dead process is pending; a closed session stays closed.
The adapter never runs two prompts at once. The journal keeps what it
acknowledged and can always be read back. The coalescer delivers all text, and
in time. The transport answers each call once and leaves no waiter behind. A
session the engine lists as open can be resumed, unless closing it had begun; one that
is closed runs no provider and stays closed; what was removed, or failed to start
before the last step of Start, is gone. A
provider's replay adds to the journal what it lacks and nothing else. A connection
either stands or leaves no process, and a message is read as what its tag says.

## Modules

| Module | Models | Variables |
|---|---|---|
| `TurnNames` | the names runtime and adapter share | |
| `SessionRuntime` | `managedSession` of the runtime; one operator per `r.mu` critical section | its guarded fields, and `image`: what Restore would rebuild from the journal |
| `AcpxSession` | `managedSession` of the acpx adapter; one operator per critical section of `promptMu`, `turnMu`, `interactionMu` | lock, current turn, prompts, interactions |
| `TurnSystem` | both composed with the goroutines that run through them | program counters of senders, dispatchers, prompts, asking handlers and host calls; events in delivery |
| `JournalStore` | one session's journal | the file's lines and torn tail, how much of it is durable, the writer, readers |
| `DeltaCoalescer` | one session's coalescer | pending text, `c.timer` and the timers it no longer points to, snapshots in delivery |
| `AgentProcess` | one `Process` | calls, handlers, `pending`, `inbound`, `done`, pipes, the agent |
| `DurableLog` | what the journal promises: the abstract specification `JournalStore` implements | the log, how much of it is safe, what was acknowledged |
| `Replay` | `ReplayMatcher` and its use by `deliverNow`, over live turns, crashes, Resume and Restart | the provider's history, the journal, the matcher, the replay under way |
| `Worktree` | Git's state for one managed worktree, and the manager's commands on it | |
| `Engine` | one session identity: lifecycle calls and the writers of its manifest | manifest, Git state, runtime session, journal, provider, `manifestMu`, calls |
| `Antigravity` | the antigravity adapter for one session ID | sessions, agents, prompts, permission channels, one goroutine per operation |
| `Wire` | the generated unions: which variant is chosen, which fields are written | (operators only) |
| `Connection` | a client's handshake, then messages decoded and passed on | process, result of Start, the document and what was read |
| `MC*` | instances for TLC | |
| `TurnSystemProofs` | theorems of the turn system: types, queue, prompt lock; wakeups and closing, for every set of operations; and of sessions that nobody interrupts, who has the session and what memory and journal know of it | |
| `JournalStoreProofs`, `DeltaCoalescerProofs`, `AgentProcessProofs`, `EngineProofs`, `AntigravityProofs`, `ReplayProofs`, `ConnectionProofs` | the theorems of that component; those about `Wire` are in `ConnectionProofs` | |

### How the turn system corresponds to the code

A request is named by an element of `Turns`, and so are its turn ID and the one
interaction it may raise (the adapter's `backendID:n` numbering only makes them
unique). A request runs through `sub`: `SendIdle` or `SendBusy` is `send`,
`DispatchQueued` is `dispatchQueued`, `Submit` to `LaunchPrompt` are `submitTurn`
and the adapter's `SendTurn` cut where a lock is released, and `Fail` is
`failSubmission`. An event is delivered by the thread that emitted it in three
steps, because two locks are released on the way: `Deliver` (stamping, and the
coalescer, which drops everything once closed), `Apply` (the locked block of
`deliverNow`) and `Record` (append, sink, dispatcher). `Interrupt`,
`RespondInteraction` and `Close` are calls of `Callers`, one step per block.
`Crash` ends all goroutines, keeps the journal's image and runs `Restore`;
`reconcileRecoveredTurn` then delivers its events like anyone else.

Restore reads the whole journal and folds it. The model keeps the fold instead of
the records (`image`), applying Restore's case for a record when the record is
appended; a failing append skips it. `Close` returns the error when the append of
`session.closed` fails and the session is closed in memory only: a second Close finds
it closed and returns, nothing writes the record, and a restart finds the session open.
The journal itself is `JournalStore`'s subject.

Abstractions: `ReplaceQueuedTurn` changes only a payload and is not
distinguished. `emitQueue` publishes a view and changes nothing the session acts
on. The coalescer always exists, since acpx emits a configuration event when it
opens a session. `process_exited` is emitted by no adapter. A handler that asks
the host is either answered, cancelled by Interrupt, or ended by a stopped
session. A turn ends by its prompt's return, an Interrupt, a Close or a failed
submission; the two session updates that end one while its prompt runs, "error" and
"done", are left out (see *Not modelled*). `Ops` selects the operations and failures a
run contains.

### The journal

The file is its complete lines and perhaps a torn tail. A process that dies
leaves what it wrote; a power failure keeps at least the synced prefix. A Read, and a
LastSequence without a writer, scan the file line by line with no lock held, so that
appends and the repair of a torn tail come between two lines. A scan that has taken in
part of a torn tail goes on where the repaired file does: it may find a line that
cannot be decoded and fail, or one that decodes to a mixture of the torn bytes and a
later line. What is shown of a read that succeeds is that it has every record that was
acknowledged when it was called; a read that met a torn tail may fail although all it
asked for is there, and may return a record that was never appended. The
directory entry of a new file is taken to survive (the code does not sync the
directory), and a disk is taken to keep a prefix of what was appended.

### The coalescer

A text is its length. `c.timer`, timers it no longer points to and callbacks that
fired but wait for the mutex are told apart, because a late callback resets a
newer timer. Delivery happens after the mutex is released, by the read loop, by a
finishing prompt, or by a callback.

### The transport

`closePending` is two steps (closing `done`, then the locked part), each taken by
up to three actors. A write to a full pipe waits; one to a dead agent fails. The
agent replies in any order and repeatedly, may stop reading, and may exit at any
time; `cmd.Wait` closes the output pipe, so unread messages may be lost. A
subprocess of the agent that keeps stderr open would keep `cmd.Wait` waiting; it
is left out.

### The journal as a log

`DurableLog` knows no file, writer, lock or torn line: events enter a log, the log
is made safe, the caller of its last event is told so, and a failure takes some of
what is not safe. The mapping forgets the sequence numbers of the lines (`log` is
their events), so `ImplementsLog` says among other things that the number an Append
returned is the place where its record is found.

### Replay

A message of the provider's history is in the journal as a record, as two
snapshots with one source ID, as the first of them, or not at all. The provider has
no message IDs, stable ones, or new ones at each load; it replays from any message
on and may stop anywhere. `Resume` builds the matcher from the journal, `Restart`
keeps the one there is (perhaps none), and `ReplayNext` is the replay block of
`deliverNow`: reset at the first event, match, or suppress as part of an ended turn,
or record in matcher and journal. Scopes are equal and messages come in one piece.
That a message comes in one piece is a restriction: acpx emits replayed chunks as deltas,
and the coalescer passes the first one on at once. It is a prefix that matches, and moves
the cursor past the record of the message; the snapshot that follows is then recorded
again. For messages replayed in several pieces `NoDuplicates` is false.

Two properties bound what can go wrong. While every replay so far could be matched
exactly (`Exact`: the matcher holds what the journal holds, nothing but the end of
the history is missing, and messages are told apart by IDs or the replay starts at
the beginning), no message is recorded twice or out of order. And whenever a whole
replay went through, no text is recorded in full less often than the provider has it,
with two exceptions: the rest of a turn that had ended, which the code suppresses, and a
message of which the journal has only the first snapshot under the ID the provider gives
it again (`Truncated`). `Match` takes that snapshot for the message, the whole text is
suppressed, and the journal keeps the truncated one for good. A replay is
`whole` if it starts at the beginning, every append of it succeeds, no record replaces
another in the matcher, and the matcher starts from what the journal took (`backed`): `Record` comes
before the append, so after an append that failed a Restart is matched against a record
that is nowhere else; a Resume, which reads the journal, mends that. What
falls outside is listed with the hazards of `journal/replay.go`: equal texts
without IDs in a suffix, colliding source IDs, a matcher that recorded what the
journal refused.

### Engine and worktrees

`Worktree` keeps what the manager's Git commands look at: whether the directory,
the registration and the branch exist, and what is checked out. `Engine` cuts each
call where another goroutine or a crash can come between: `Start` is the checks of
Create, the add, runtime.Create, the manifest, the replay history, the provider and
the update; its rollback is a call of its own that goes on after errors. Any step
may fail (`MaxFaults`), the caller's context may be cancelled, after which every Git
command of the call fails, the host may die between any two steps, and somebody may
change the worktree by hand. Lifecycle calls come one at a time; the writers of the
manifest overlap with them. `updateSession` is two steps under `manifestMu`, the
removal of the manifest one step without it, so the model contains the update that
brings a removed manifest back; the properties except it by name (`revived`), and a
Start that crashed, failed twice or was cancelled (`leaky`).

Three more exceptions are what the code leaves behind, and the properties name them:

* Start's last step is an update of the manifest. When it fails there is no rollback:
  Start returns the error and the session is open with its worktree, its manifest and
  its running provider. `FailedStartLeavesNothing` is about the steps before (`starting`).
* A rollback ignores a manifest that it could not remove and removes the worktree all the
  same. `ManifestIsTrue` excepts the manifest that is left (`orphaned`).
* CloseSession and Remove close the runtime's session before they mark the manifest. If
  the host dies or the update fails in between, the manifest says open and the journal
  closed; Resume refuses the session, Remove goes on. Of an open manifest whose close has
  begun (`closing`) `ManifestIsTrue` says only that workspace and journal are there.

A saved manifest survives every crash in the model; `writePrivate` renames the file
without a sync, so a power failure could still lose it.

### The antigravity adapter

One goroutine of the host for each operation, one for each turn's prompt. A step is
what happens between two acquisitions of `turnMu`, `interactionMu`, the adapter's
`mu` or a channel. A prompt asks for at most one permission; the request's timeout
is the handler returning without an answer. A CloseSession that takes the turn emits no
terminal event, so a turn ends at most once and perhaps without an event. RestartSession
puts the new agent in the old one's place and closes it nowhere: the replaced agent
(`replaced`) stays open after CloseSession, and is the one exception of
`OpenAgentsAreHeld`.

### The client and the wire types

`Wire` describes each union of the generated code as a table: its variants, their
tags, the fields a variant needs and knows, the tags under which UnmarshalJSON
tries it, and the order in which it tries shapes when the tag is absent or unknown.
`UnmarshalJSON` and `MarshalJSON` are written once over the tables. A document is a
tag and a set of fields, each well typed or not. `Connection` runs the handshake
(also with the boolean capabilities that `normalizeInitializeResponse` rewrites),
receives documents of all kinds, and passes on what it read.

## Runs

| Run | Checks | Bounds, and why they suffice |
|---|---|---|
| `turns` | types and queue limit; `SubmitFindsFree`; `RunningIsActive`; `NotStranded`; `JournalCurrent`; `QueueEntriesOnce` | 4 requests, queue of 2, 2 dispatchers: a running turn, a full queue and a sender that is refused, with two dispatchers racing |
| `turns_interrupt` | `NotStranded`, `PromptExclusion` | 2 turns, 2 interrupting callers, failing submissions, failing interrupts: an interrupted turn and its successor |
| `turns_recovery` | `PendingHasTurn`, `ReconcileResolves`, `ClosedIsFinal` | 2 turns that ask the host, 2 callers that answer or close, crashes without limit, closes that fail, succeed, or cannot be recorded: an answer that races another, the turn's end and a restart |
| `turns_live` | `TurnsEnd`, `QueueDrains` | 3 turns, fairness, appends that fail |
| `journal` | `AckedSurvives`, `Readable`, `ReadsSeeAcked`, `ImplementsLog` | 4 lines: one durable, one written and not synced, one after it, and one more behind a scan; failures without limit |
| `coalescer` | `TextDelivered`, `ProducersNeverShorten`; `TextCatchesUp` under fairness | 3 messages of 3 deltas: a first delta, one gathered under a timer, one after a stale callback |
| `process` | one answer per call (`TypeOK`), `AllReleased`; `CloseEnds`, `CallsReturn` under fairness | 1 call, 1 inbound request, pipes of 2 messages: calls share nothing but the pipes and `closePending`, and the request's handler contends for both |
| `replay` | `NoDuplicates`, `NothingMissing` | 3 messages with 2 texts, 2 replays, 1 lost record: equal texts next to and apart from each other, a record missing first, in the middle or last, also from a replay, a replay cut short and the next one; both are proved for every size |
| `engine` | `ManifestIsTrue` (open means resumable unless closing had begun, closed means no provider), `RemovedIsGone`, `FailedStartLeavesNothing`, `ClosedStays` | 1 caller, 2 writers of the manifest, 3 faults, 2 crashes, 1 change by hand: a failing step and a failing step of its rollback, a crash between any two steps, and one more in the call that meets what it left |
| `antigravity` | `OneEnd`, `ResponderHasRoom`, `RestartIsClean`; `CloseReleases`, `TurnsEnd` under fairness | 1 session of 2 turns and 2 agents: a turn and its successor around an interrupt or a restart; sessions share only the map they are looked up in |
| `connection` | `StartDecides`, `TagDecides`, `RequiredSurvive`, `UnknownNeverSelects`, `PassingOnIsStable` | 3 versions, 2 hops, every union with all its tags, absent, unknown and ill-typed ones, and all sets of fields: what two passes do not change a third does not |

Deadlock is not checked where the system may stop: a session with all its
requests done, a closed coalescer, an exited agent, a provider whose history is
complete, a message that was refused.

One more run shows the code do otherwise than a document says: in
`queued_work_lost` `InterruptActive` does not always preserve queued work. The
adapter announces the interrupted turn's end while its prompt still holds
`promptMu`; the dispatcher finds the lock taken and drops the next request.

Some properties hold only for a part of the operations; the hazards in
`PROJECT.json` say so where it matters. With failing submissions `SubmitFindsFree`
fails: their `turn_failed` has no turn ID and can clear the `dispatching` flag of
the request after it. With interrupts `TurnsEnd` fails: an `InterruptActive` that
read one turn and interrupted the next before its `turn_started` was applied leaves
the session active. A history read may return a record that a power failure removes
and whose number is used again, or fail over a torn tail that was repaired behind it; a
timer's snapshot may overtake the complete message; and a message replayed in several
pieces is recorded twice. With an agent that sends a session update "error",
`SubmitFindsFree` and `RunningIsActive` would fail.

### Fairness

A goroutine that can take its next step takes it (weak fairness for each); the
Go scheduler gives no less. An agent answers a prompt unless it waits for the
host; without that no turn need end, and it is what a provider is for. Timers
fire. A permission request that nobody answers returns by its timeout. The host is
never obliged to call, nor the agent to ask, to read, or to exit, nor anything to
fail.

## What is proved

Everything below holds for every size of the model: any sets of requests, callers,
streams, calls, texts, other writers, any number of sessions, turns, agents, messages,
replays, hops, failures and crashes, and any limits. These are all the invariants and
action properties that the passing runs check; only liveness is left to the runs.
Each module proves one inductive invariant, by one lemma per
action or per conjunct, and reads the properties off it; the invariants were first
checked by TLC on the instances of the runs
(those of whole replays, which quantify over functions, on one of two messages). The assumptions on the constants are
stated where they are declared: `None` and the like name no request, event or
manifest, bounds are natural numbers, a message may have a text, and none of a
provider's texts is the mark of an incomplete one.

**The turn system.** `TurnSystemProofs` first shows that each step of the composition
is, for the runtime and for the adapter, one of their operations or a stutter, and then
treats each component's variables apart.

* `TypeCorrect`, `RequestsOnce`, `OnePromptAtATime`. The invariant `SafetyInv` is
  `TypeOK`, `QueueEntriesOnce` and `LockDiscipline`. `PromptExclusion` alone is not
  inductive: that a prompt which starts finds the lock its own needs the request to
  have held it since `TryLock`, and that no request is started twice.
* `NoLostWakeup`, `CloseIsFinal`, for every choice of operations, interrupts and
  failures included. `NotStranded` counts any terminal event in delivery; the invariant
  `Wakeup` only those that still look at the queue or have decided to dispatch. That
  nobody clears the flag in between is `QuietThreads`: a thread delivers only where
  its code waits for the delivery. Closing is final because the record is appended
  to a session that is closed already (`ClosedAgree`), or not appended at all.
* `FlagsSuffice`, `RunningTurnIsKnown`, `InteractionHasTurn`, `RestoreResolves`,
  `JournalTellsTheTurn`. A turn *owns* the session from its dispatch until its terminal
  event is applied or its submission has failed; `OwnerInv` says that one turn at
  most does, and what the flags, the adapter and the events in delivery say of it.
  `AskInv` adds the journal: what is recorded of the owner, of its interaction, and of
  a restore cut short.

  The hypotheses are named, and without them the properties are false.
  `Uninterrupted`: with an interrupt, or a submission the agent refuses, an event
  without a turn ID can clear the flags of the next turn. `JournalWorks`, for
  interactions and the journal: a record that could not be appended is not restored.
  `NeverClosed`, where memory is compared with a prompt still running: Close silences
  the sink first. To these comes one that the model makes and no theorem names: a turn is
  not ended by the agent's session updates. An "error" update (`acpx.go:855`) makes the
  adapter emit `turn_failed` for the current turn while its prompt goes on; the runtime
  then takes the session for idle, the next submission finds `promptMu` taken, and
  `SubmitFindsFree` and `RunningIsActive` do not hold. The runs that check a property satisfy the theorem's hypotheses;
  `turns_recovery` does so with crashes, failing closes and questions to the host.

**The journal.** `TypeCorrect`, `WriterKnowsFile`, `Durability`, `Readability`,
`ReadersMissNothing`. The invariant `Inv` adds `WriterCurrent`: an idle writer has
counted every line, and an Append between Write and Sync has put its own record
last. Without it a failed Sync could hand out a number twice. `ReadersMissNothing` rests
on `ScanCurrent`: of what a scan owes it has all that lies in the part it has read, a torn
tail is met only behind everything it owes, and until then its last number is its place
in the file. `Refinement`: the store
implements `DurableLog`. Under `Inv` opening a writer and syncing are `Secure` or
stutter, `Write` is `Extend`, `Sync` is `Acknowledge`, a power failure is `Lose`, and
every other step leaves the log alone. That the acknowledged number is the length of
the log is `WriterCurrent`.

**The coalescer.** `NoTextLost`, `InPlace`. What was received of a message was
delivered, is in delivery, or is pending (`Accounted`), and nothing in delivery is
longer than what was received (`NoneTooLong`). That the read loop and the prompt
deliver all there is (`ProducersFull`) holds because the read loop takes no delta while
it delivers and because a flush clears what it flushed; a timer's snapshot is
exempt, and it is the one that may arrive late.

**The transport.** `OneAnswer`, `Release`. A call in `pending` has no answer yet, so
whoever takes it out is the only one to send (`Unanswered`); a handler that runs is in
`inbound` or was cancelled (`HandlersKnown`); the read loop's pass through
`closePending` leaves in `pending` only calls that will see `done` before they wait.

**The engine.** `ManifestTellsTheTruth`, `RemoveIsComplete`, `RollbackIsComplete`,
`ClosingIsFinal`, for one goroutine that makes the lifecycle calls (`Callers = {c}`), as
in the run: two overlapping Starts do break the properties, and nothing in the code
excludes them. The invariant says for each step of each call what it knows of the
manifest (`Written`), of the runtime's session (`Stopped`, `Unstarted`), of the
workspace (`Trees`, `Removing`, `Uncreated`) and of the lock (`Locks`): who holds
`manifestMu` writes back what the manifest still says, unless it was removed meanwhile.
`Marked` adds what the properties except: until closing begins the runtime's session, or
the one it would restore, is active (`Resumes`), and a Start that returned before its last
step has left nothing (`Undone`).
The Git commands are lemmas of their own (`AddResult` to `PruneResult`): with a live
context, the two halves of Remove succeed on every state of the workspace, and
`rollback` clears every state that `add` can leave.

**The antigravity adapter.** `EndsOnce`, `AnswerIsDelivered`, `RestartIsSafe`. A turn
is active, taken by an Interrupt, or over (`TurnsOnce`); a channel in the map, or in
the hands of RespondInteraction, has room (`Channels`); an agent belongs to one session
or to the restart that made it (`Owned`), a session being restarted has no turn
(`Restarts`), and every open agent but a replaced one is the current agent of a session
that is not closed yet or in the hands of a restart (`OpenAgentsAreHeld`, inductive with
`Opening`: the agent of a session being started is not open).

**Replay.** `ReplayNeverDuplicates`. `Faithful` says that each record of the journal is
the end of a turn or tells of a message of the history, with an ID no later replay
gives anew; that, while replays can be matched exactly, the messages come in order
(`Rising`) and only the snapshots of one message share it (`Paired`); and that a replay
under way is past all the journal holds (`CaughtUp`) or finds the next message at or
after its cursor (`CatchingUp`). Without the last part the invariant is not inductive: the
cursor could be past the record of the next message, which would be recorded again.

`ReplayMissesNothing` asks nothing of the IDs or of the matching. `Backed` gives the
place in the journal of each of the matcher's records, in order and each the last
snapshot of its message there; `WholeSoFar` gives each message replayed so far a
record of its own which says the same and lies before the cursor or behind the limit,
where no later message can match it. Composed, the two map what the journal owes
injectively into what it holds, and the cardinalities follow.

The scan in `NewReplayMatcher` is a loop over the journal. What it yields (`Scan`,
`ScanRises`, `ScanBacked`) is proved by the least counterexample: a set of natural
numbers that is not empty has a least element, so the first n at which the claim fails
follows an n at which it holds.

**The connection and the wire types.** `StartEndsOneWay` needs of the handshake only
that an agent runs while it is called and that no capability is stored before Start
ends (`Handshake`). For the unions, `Table` states what the generated tables have in
common: the encoder writes the tag that the decoder switches on, a key a variant must
have is neither optional nor left out when it is written, under a tag it is not of a
type that is written in another kind, and no two variants have one tag. A lemma for each
union (`EveryTable`) shows that it is so. `Journey` then follows a document from peer to peer: if
the tag it was sent with is a variant's own, it still has it, and the keys that variant
must have (`Keeps`); and after the first hop it is a document that is written as it was
read (`Stable`).

* `TagsDecide`, `RequiredKeysSurvive`, `OnlySelectedSelects`: the tag decides which
  variant is read at every hop; a variant writes back what it must have; and no
  answer without the tag of a selection acquires it. They hold whatever other keys a
  document has.
* `PassedOnUnchanged`: a decoded value, written and read again, is the same value. This
  one depends on the kinds a document's keys have: an elicitation schema without
  a tag whose `default` and `items` both have a kind of their own would be read as the
  variant that keeps such fields only at the second hop. `Documents` has one odd key at most.

Model-checked only: the liveness properties (`TurnsEnd` of both adapters, `QueueDrains`,
`TextCatchesUp`, `CloseEnds`, `CallsReturn`, `CloseReleases`), since the prover has no
ENABLED and no rule for fairness.

## Not modelled

* Of the runtime: Start with a first prompt, ReconcileTurn, queue views (nothing
  acts on them), configuration versions and the catalog cache. Restart is a step of
  `Engine` and `Replay`; its last block, which resets flags that a Send may have set
  since, is not in the turn system: RestartSession replaces the adapter's session
  object and with it `promptMu`, of which the turn system has one.
* Of the acpx adapter: `RestartOnExit`; the session update "error", for which `observe`
  emits a `turn_failed` for the current turn while its prompt runs on (it multiplies the
  states of the interrupt run beyond what TLC finishes, and breaks what the other runs
  check, as said above); the update "done" of Cursor and `scheduleDoneCompletion`; the
  translation of other updates, and the selection of model and mode beyond its failure.
* Of the engine: settings, values of configurations, history, and lifecycle calls
  that overlap. Nothing in the code excludes two Starts of one ID or a CloseSession
  during Start; what they break is listed under the hazards.
* Of the antigravity adapter: the translation of updates, the catalog, directories.
* Of the wire types: `SessionConfigSelectOptions`, told apart by the shape of an
  array, and records without code of their own. The client's calls go straight to
  the transport.
* Command lookup, display and provider options have no state of their own; the
  schema generator runs at build time.

## Plan

1. Turn system: a prompt lock per adapter session, then Restart and
   `RestartOnExit`; Start with a first prompt; ReconcileTurn.
2. Engine: lifecycle calls that overlap, with the conditions under which they keep
   the properties.
3. An abstract specification of a session as a serial server of requests, and the
   conditions under which the turn system and the antigravity adapter implement it.
