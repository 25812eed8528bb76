------------------------------- MODULE Engine -------------------------------
(***************************************************************************)
(* The life of one session identity in the Engine (src/engine.go): Start,  *)
(* Resume, Repair, Prune, Restart, CloseSession, Remove and Engine.Close,  *)
(* each a sequence of steps over                                           *)
(*   the manifest sessions/<id>.json, a session's only durable record;     *)
(*   the Git state of its managed worktree (module Worktree);              *)
(*   the runtime's session and its provider process;                       *)
(*   the journal, of which Restore only folds created/closed here.         *)
(* Callers make the lifecycle calls; Updaters are the goroutines that      *)
(* rewrite the manifest meanwhile (SetConfiguration, recordTurnSubmission, *)
(* persistRuntimeConfiguration).  The host may crash between any two       *)
(* steps, a step may fail, a context may be cancelled, and somebody may    *)
(* change the worktree by hand.                                            *)
(***************************************************************************)
EXTENDS Worktree, FiniteSets

CONSTANTS
    Callers,      \* goroutines making lifecycle calls
    Updaters,     \* goroutines rewriting the manifest
    None,         \* no manifest, no lock holder, no session
    MaxFaults,    \* steps that may fail
    MaxCrashes,   \* host crashes
    MaxTampers    \* changes made to the worktree by hand

Modes == {"managed", "existing"}
Manifests == [mode : Modes, closed : BOOLEAN]

ASSUME EngineAssumption ==
    /\ MaxFaults \in Nat /\ MaxCrashes \in Nat /\ MaxTampers \in Nat
    /\ Callers \cap Updaters = {} /\ None \notin Callers \cup Updaters
    /\ None \notin Manifests \cup {"active", "closed"}

VARIABLES
    manifest,     \* None or [mode, closed]
    git,          \* the managed worktree's Git state
    sess,         \* runtime.sessions[id]: None, "active" or "closed"
    journal,      \* what Restore reads: None, "active" or "closed"
    provider,     \* the adapter runs a provider process for the session
    mu,           \* manifestMu: its holder or None
    call,         \* the lifecycle calls in progress
    updater,      \* the manifest updates in progress
    up,           \* the Engine is open
    faults, crashes, tampers,
    \* History, read by the properties only:
    tampered,     \* this identity's worktree was changed by hand
    revived,      \* an update wrote the manifest back after its removal
    leaky,        \* a Start crashed, failed twice, or was cancelled, or a Remove was cancelled
    removed,      \* the last call was a Remove of a managed session that
                  \* returned nil with its context live
    starting,     \* the last call was a Start that did not get to its last step
    closing,      \* runtime.Close was called on the session: by CloseSession,
                  \* Remove, or the rollback of its Start
    orphaned      \* a rollback could not remove the manifest

vars == <<manifest, git, sess, journal, provider, mu, call, updater, up,
          faults, crashes, tampers, tampered, revived, leaky, removed,
          starting, closing, orphaned>>

disk == <<manifest, git, journal>>
budget == <<faults, crashes, tampers>>
marks == <<starting, closing, orphaned>>
history == <<tampered, revived, leaky, removed, marks>>

Ops == {"start", "resume", "repair", "restart", "close", "remove"}
Steps == {"idle", "createCheck", "add", "rollbackAdd", "rtCreate", "save", "prepare",
          "rtStart", "adapterStart", "started", "rtRestart", "rtClose", "update", "updateSave",
          "reload", "rmTree", "rmBranch", "unlink", "forget"}

\* entry is the Session a call has loaded or built; failed says that Start is
\* rolling back; branchExisted is Create's local.
Idle == [op |-> "none", pc |-> "idle", live |-> TRUE, failed |-> FALSE,
         entry |-> None, branchExisted |-> FALSE]
Calls == [op : Ops \cup {"none"}, pc : Steps, live : BOOLEAN, failed : BOOLEAN,
          entry : Manifests \cup {None}, branchExisted : BOOLEAN]

NotUpdating == [pc |-> "idle", entry |-> None]

TypeOK ==
    /\ manifest \in Manifests \cup {None}
    /\ git \in GitStates
    /\ sess \in {None, "active", "closed"}
    /\ journal \in {None, "active", "closed"}
    /\ provider \in BOOLEAN
    /\ mu \in Callers \cup Updaters \cup {None}
    /\ call \in [Callers -> Calls]
    /\ updater \in [Updaters -> [pc : {"idle", "save"}, entry : Manifests \cup {None}]]
    /\ up \in BOOLEAN
    /\ faults \in 0..MaxFaults /\ crashes \in 0..MaxCrashes /\ tampers \in 0..MaxTampers
    /\ {tampered, revived, leaky, removed, starting, closing, orphaned} \subseteq BOOLEAN

Init ==
    /\ manifest = None /\ git = CleanGit /\ sess = None /\ journal = None
    /\ provider = FALSE /\ mu = None /\ up = TRUE
    /\ call = [c \in Callers |-> Idle]
    /\ updater = [u \in Updaters |-> NotUpdating]
    /\ faults = 0 /\ crashes = 0 /\ tampers = 0
    /\ tampered = FALSE /\ revived = FALSE /\ leaky = FALSE /\ removed = FALSE
    /\ starting = FALSE /\ closing = FALSE /\ orphaned = FALSE

-----------------------------------------------------------------------------
At(c, pc) == up /\ call[c].pc = pc
Goto(c, pc) == call' = [call EXCEPT ![c].pc = pc]
Return(c) == call' = [call EXCEPT ![c] = Idle]

\* An error: Start rolls back what it has made so far (rollbackStart), every
\* other call just returns it.
Fail(c) ==
    IF call[c].op = "start" /\ ~call[c].failed
    THEN call' = [call EXCEPT ![c] = [call[c] EXCEPT !.pc = "rtClose", !.failed = TRUE]]
    ELSE Return(c)

\* A step that fails though nothing in the model explains why.
Fault == faults < MaxFaults /\ faults' = faults + 1

\* A failing step of a rollback leaves something behind.
FaultIn(c) == Fault /\ leaky' = (leaky \/ call[c].failed)

-----------------------------------------------------------------------------
\* Start, up to the workspace: a manifest that exists is an error (or a
\* resume, which BeginLoaded covers); an existing workspace is only inspected.
BeginStart(c, mode) ==
    /\ At(c, "idle") /\ manifest = None
    /\ call' = [call EXCEPT ![c] =
          [Idle EXCEPT !.op = "start", !.entry = [mode |-> mode, closed |-> FALSE],
                       !.pc = IF mode = "managed" THEN "createCheck" ELSE "rtCreate"]]
    /\ removed' = FALSE /\ tampered' = FALSE /\ revived' = FALSE
    /\ leaky' = (git # CleanGit \/ sess # None \/ provider)
    /\ starting' = TRUE /\ closing' = FALSE /\ orphaned' = FALSE
    /\ UNCHANGED <<disk, sess, provider, mu, updater, up, budget>>

\* Create, up to the add: the target must not exist; whether the branch does
\* decides what a rollback may delete.
CreateCheck(c) ==
    /\ At(c, "createCheck")
    /\ IF git.dir \/ ~call[c].live THEN Return(c)
       ELSE call' = [call EXCEPT ![c] = [call[c] EXCEPT !.pc = "add", !.branchExisted = git.branch]]
    /\ UNCHANGED <<disk, sess, provider, mu, updater, up, budget, history>>

\* git worktree add, and the Inspect of its result.
Add(c) ==
    /\ At(c, "add")
    /\ \E fault \in BOOLEAN :
          /\ IF fault THEN Fault ELSE faults' = faults
          /\ \E r \in WorktreeAdd(git, call[c].live, fault) :
                /\ git' = r.git
                /\ Goto(c, IF r.ok /\ ~fault /\ InspectOK(r.git, call[c].live) THEN "rtCreate" ELSE "rollbackAdd")
    /\ UNCHANGED <<manifest, sess, journal, provider, mu, updater, up, crashes, tampers, history>>

RollbackAdd(c) ==
    /\ At(c, "rollbackAdd")
    /\ git' = Rollback(git, call[c].live, call[c].branchExisted)
    /\ Return(c)
    /\ UNCHANGED <<manifest, sess, journal, provider, mu, updater, up, budget, history>>

\* runtime.Create: a session the runtime knows is refused; one whose
\* session.created cannot be journaled is forgotten again.
RuntimeCreate(c) ==
    /\ At(c, "rtCreate")
    /\ \/ /\ sess = None
          /\ sess' = "active" /\ journal' = "active" /\ Goto(c, "save")
          /\ UNCHANGED <<faults, leaky>>
       \/ /\ \/ sess # None /\ UNCHANGED <<faults, leaky>>
             \/ sess = None /\ FaultIn(c)
          /\ Fail(c)
          /\ UNCHANGED <<sess, journal>>
    /\ UNCHANGED <<manifest, git, provider, mu, updater, up, crashes, tampers, tampered, revived, removed, marks>>

\* saveSession, under manifestMu.  Only a Start with a provider session to
\* resume prepares for its replay.
Save(c) ==
    /\ At(c, "save") /\ mu = None
    /\ \/ /\ manifest' = call[c].entry
          /\ \E pc \in {"prepare", "rtStart"} : Goto(c, pc)
          /\ UNCHANGED <<faults, leaky>>
       \/ FaultIn(c) /\ Fail(c) /\ UNCHANGED manifest
    /\ UNCHANGED <<git, sess, journal, provider, mu, updater, up, crashes, tampers, tampered, revived, removed, marks>>

\* prepareReplay reads the whole journal (SetReplayHistory: the session must
\* be known to the runtime).
Prepare(c) ==
    /\ At(c, "prepare")
    /\ \/ sess # None /\ Goto(c, "rtStart") /\ UNCHANGED <<faults, leaky>>
       \/ sess = None /\ Fail(c) /\ UNCHANGED <<faults, leaky>>
       \/ FaultIn(c) /\ Fail(c)
    /\ UNCHANGED <<disk, sess, provider, mu, updater, up, crashes, tampers, tampered, revived, removed, marks>>

\* runtime.Start, up to the adapter: the status is checked here and not again.
RuntimeStart(c) ==
    /\ At(c, "rtStart")
    /\ IF sess = "active" THEN Goto(c, "adapterStart") ELSE Fail(c)
    /\ UNCHANGED <<disk, sess, provider, mu, updater, up, budget, history>>

\* adapter.StartSession.
AdapterStart(c) ==
    /\ At(c, "adapterStart")
    /\ \/ call[c].live /\ provider' = TRUE /\ Goto(c, "started") /\ UNCHANGED <<faults, leaky>>
       \/ /\ \/ ~call[c].live /\ UNCHANGED <<faults, leaky>>
             \/ FaultIn(c)
          /\ Fail(c) /\ UNCHANGED provider
    /\ UNCHANGED <<disk, sess, mu, updater, up, crashes, tampers, tampered, revived, removed, marks>>

\* session.started is journaled; a failure here is a failed Start although
\* the provider runs.
Started(c) ==
    /\ At(c, "started")
    /\ \/ Goto(c, "update") /\ UNCHANGED <<faults, leaky>>
       \/ FaultIn(c) /\ Fail(c)
    /\ UNCHANGED <<disk, sess, provider, mu, updater, up, crashes, tampers, tampered, revived, removed, marks>>

-----------------------------------------------------------------------------
\* The calls that begin with loadSession.  Resume refuses a closed session
\* and one whose worktree is not on its branch, and restores what the runtime
\* does not know; Repair checks the branch out; Remove restores and closes an
\* open session first.
Restored == IF sess # None THEN sess ELSE journal

BeginLoaded(c, op) ==
    /\ At(c, "idle") /\ manifest # None
    /\ LET managed == manifest.mode = "managed"
           next(pc) == call' = [call EXCEPT ![c] = [Idle EXCEPT !.op = op, !.entry = manifest, !.pc = pc]]
       IN  \/ /\ op = "resume" /\ ~manifest.closed /\ (managed => ReopenOK(git, TRUE))
              /\ sess' = Restored /\ next("prepare") /\ UNCHANGED git
           \/ /\ op = "repair"
              /\ git' = IF managed THEN EnsureBranch(git, TRUE).git ELSE git
              /\ (managed => EnsureBranch(git, TRUE).ok)
              /\ next("update") /\ UNCHANGED sess
           \/ op = "restart" /\ sess = "active" /\ next("rtRestart") /\ UNCHANGED <<git, sess>>
           \/ op = "close" /\ sess # None /\ next("rtClose") /\ UNCHANGED <<git, sess>>
           \/ op = "remove" /\ ~manifest.closed /\ sess' = Restored /\ next("rtClose") /\ UNCHANGED git
           \/ op = "remove" /\ manifest.closed /\ next("reload") /\ UNCHANGED <<git, sess>>
    /\ removed' = FALSE /\ starting' = FALSE
    /\ UNCHANGED <<manifest, journal, provider, mu, updater, up, budget, tampered, revived, leaky,
                   closing, orphaned>>

\* adapter.RestartSession: a failed restart leaves no provider.
RuntimeRestart(c) ==
    /\ At(c, "rtRestart")
    /\ \/ provider' = TRUE /\ Goto(c, "update") /\ UNCHANGED faults
       \/ provider' = FALSE /\ Fault /\ Return(c)
    /\ UNCHANGED <<disk, sess, mu, updater, up, crashes, tampers, history>>

\* runtime.Close: the adapter's session first, then the status and the
\* session.closed record.  Whatever it answers, a rollback goes on.
RuntimeClose(c) ==
    LET next == IF call[c].failed THEN Goto(c, "forget") ELSE Goto(c, "update")
        stop == IF call[c].failed THEN Goto(c, "forget") ELSE Return(c)
    IN  /\ At(c, "rtClose")
        /\ \/ sess = None /\ stop /\ UNCHANGED <<sess, provider, journal, faults, leaky>>
           \/ sess = "closed" /\ next /\ UNCHANGED <<sess, provider, journal, faults, leaky>>
           \/ /\ sess = "active"
              /\ \/ /\ provider' = FALSE /\ sess' = "closed" /\ journal' = "closed"
                    /\ next /\ UNCHANGED <<faults, leaky>>
                 \/ /\ provider' = FALSE /\ sess' = "closed" /\ UNCHANGED journal
                    /\ FaultIn(c) /\ stop
                 \/ FaultIn(c) /\ stop /\ UNCHANGED <<sess, provider, journal>>
        /\ closing' = TRUE
        /\ UNCHANGED <<manifest, git, mu, updater, up, crashes, tampers, tampered, revived, removed,
                       starting, orphaned>>

\* updateSession: the manifest is loaded, changed and written back in one
\* critical section of manifestMu.
UpdateLoad(c) ==
    /\ At(c, "update") /\ mu = None
    /\ IF manifest = None THEN Return(c) /\ UNCHANGED mu
       ELSE /\ mu' = c
            /\ call' = [call EXCEPT ![c] =
                  [call[c] EXCEPT !.entry = [manifest EXCEPT !.closed = @ \/ call[c].op \in {"close", "remove"}],
                                  !.pc = "updateSave"]]
    /\ starting' = FALSE
    /\ UNCHANGED <<disk, sess, provider, updater, up, budget, tampered, revived, leaky, removed,
                   closing, orphaned>>

UpdateSave(c) ==
    /\ At(c, "updateSave")
    /\ mu' = None
    /\ \/ /\ manifest' = call[c].entry /\ UNCHANGED faults
          /\ IF call[c].op = "remove" THEN Goto(c, "reload") ELSE Return(c)
       \/ Fault /\ Return(c) /\ UNCHANGED manifest
    /\ UNCHANGED <<git, sess, journal, provider, updater, up, crashes, tampers, history>>

-----------------------------------------------------------------------------
\* Remove reloads the manifest it closed and removes a managed worktree.
Reload(c) ==
    /\ At(c, "reload")
    /\ IF manifest = None THEN Return(c)
       ELSE call' = [call EXCEPT ![c] =
               [call[c] EXCEPT !.entry = manifest,
                               !.pc = IF manifest.mode = "managed" THEN "rmTree" ELSE "unlink"]]
    /\ UNCHANGED <<disk, sess, provider, mu, updater, up, budget, history>>

\* worktrees.Remove, in its two steps.  A rollback ignores what it answers;
\* it comes last there, and first in Remove.
RmTree(c) ==
    LET r == RemoveTree(git, call[c].live)
    IN  /\ At(c, "rmTree")
        /\ \/ git' = r.git /\ (IF r.ok THEN Goto(c, "rmBranch") ELSE Return(c)) /\ UNCHANGED <<faults, leaky>>
           \/ FaultIn(c) /\ Return(c) /\ UNCHANGED git
        /\ UNCHANGED <<manifest, sess, journal, provider, mu, updater, up, crashes, tampers, tampered, revived, removed, marks>>

\* Mutant: Remove is done once the worktree is gone.
RmBranch_Skips(c) ==
    LET r == DeleteBranch(git, call[c].live)
    IN  /\ At(c, "rmBranch")
        /\ IF call[c].failed THEN git' = r.git /\ Return(c) ELSE Goto(c, "unlink") /\ UNCHANGED git
        /\ UNCHANGED <<manifest, sess, journal, provider, mu, updater, up, budget, history>>

RmBranch(c) ==
    LET r == DeleteBranch(git, call[c].live)
    IN  /\ At(c, "rmBranch")
        /\ \/ /\ git' = r.git
              /\ IF r.ok /\ ~call[c].failed THEN Goto(c, "unlink") ELSE Return(c)
              /\ UNCHANGED <<faults, leaky>>
           \/ FaultIn(c) /\ Return(c) /\ UNCHANGED git
        /\ UNCHANGED <<manifest, sess, journal, provider, mu, updater, up, crashes, tampers, tampered, revived, removed, marks>>

\* os.Remove of the manifest, which does not take manifestMu.  Remove returns
\* its error; a rollback ignores it and goes on to remove the worktree.
Unlink(c) ==
    LET rolling == IF call[c].entry.mode = "managed" THEN Goto(c, "rmTree") ELSE Return(c)
    IN  /\ At(c, "unlink")
        /\ \/ /\ manifest' = None
              /\ IF call[c].failed THEN rolling ELSE Goto(c, "forget")
              /\ UNCHANGED <<faults, leaky, orphaned>>
           \/ /\ FaultIn(c) /\ UNCHANGED manifest
              /\ orphaned' = (orphaned \/ call[c].failed)
              /\ IF call[c].failed THEN rolling ELSE Return(c)
        /\ UNCHANGED <<git, sess, journal, provider, mu, updater, up, crashes, tampers, tampered,
                       revived, removed, starting, closing>>

\* Mutant: a rollback removes the worktree and leaves the manifest.
Forget_KeepsManifest(c) ==
    /\ At(c, "forget")
    /\ sess' = IF sess = "closed" THEN None ELSE sess
    /\ IF call[c].failed /\ call[c].entry.mode = "managed" THEN Goto(c, "rmTree") ELSE Return(c)
    /\ UNCHANGED <<disk, provider, mu, updater, up, budget, history>>

\* runtime.Forget drops a closed session and refuses any other.
Forget(c) ==
    /\ At(c, "forget")
    /\ sess' = IF sess = "closed" THEN None ELSE sess
    /\ IF call[c].failed THEN Goto(c, "unlink") /\ UNCHANGED removed
       ELSE /\ Return(c)
            /\ removed' = (sess # "active" /\ call[c].entry.mode = "managed" /\ call[c].live)
    /\ UNCHANGED <<disk, provider, mu, updater, up, budget, tampered, revived, leaky, marks>>

-----------------------------------------------------------------------------
\* Mutant: the manifest is loaded before manifestMu is taken.
UpdaterLoad_Unlocked(u) ==
    /\ up /\ updater[u].pc = "idle" /\ sess # None /\ manifest # None
    /\ updater' = [updater EXCEPT ![u] = [pc |-> "save", entry |-> manifest]]
    /\ UNCHANGED <<disk, sess, provider, mu, call, up, budget, history>>

\* The other writers of the manifest.  SetConfiguration and
\* persistRuntimeConfiguration need the runtime's session.
UpdaterLoad(u) ==
    /\ up /\ updater[u].pc = "idle" /\ mu = None
    /\ sess # None /\ manifest # None
    /\ mu' = u
    /\ updater' = [updater EXCEPT ![u] = [pc |-> "save", entry |-> manifest]]
    /\ UNCHANGED <<disk, sess, provider, call, up, budget, history>>

UpdaterSave(u) ==
    /\ up /\ updater[u].pc = "save"
    /\ mu' = None
    /\ updater' = [updater EXCEPT ![u] = NotUpdating]
    /\ manifest' = updater[u].entry
    /\ revived' = (revived \/ manifest = None)
    /\ UNCHANGED <<git, sess, journal, provider, call, up, budget, tampered, leaky, removed, marks>>

\* The caller's context is cancelled; every later Git command of the call fails.
Cancel(c) ==
    /\ up /\ call[c].pc # "idle" /\ call[c].live
    /\ call' = [call EXCEPT ![c].live = FALSE]
    /\ leaky' = (leaky \/ call[c].op \in {"start", "remove"})
    /\ UNCHANGED <<disk, sess, provider, mu, updater, up, budget, tampered, revived, removed, marks>>

\* Prune of the source repository.
Prune ==
    /\ up /\ WorktreePrune(git) # git
    /\ git' = WorktreePrune(git)
    /\ UNCHANGED <<manifest, sess, journal, provider, mu, call, updater, up, budget, history>>

\* Somebody deletes the worktree's directory, checks another branch out, or
\* deletes the branch.
Tamper ==
    /\ tampers < MaxTampers /\ tampers' = tampers + 1 /\ tampered' = TRUE
    /\ \/ git.dir /\ git' = [git EXCEPT !.dir = FALSE]
       \/ git.dir /\ git.head = "own" /\ git' = [git EXCEPT !.head = "other"]
       \/ git.branch /\ git.head # "own" /\ git' = [git EXCEPT !.branch = FALSE]
    /\ UNCHANGED <<manifest, sess, journal, provider, mu, call, updater, up, faults, crashes, revived, leaky, removed, marks>>

\* The host dies, or closes the Engine between calls: Shutdown stops the
\* providers and changes nothing durable.
Stop(crash) ==
    /\ up /\ up' = FALSE
    /\ IF crash THEN crashes < MaxCrashes /\ crashes' = crashes + 1
       ELSE mu = None /\ (\A c \in Callers : call[c].pc = "idle") /\ UNCHANGED crashes
    /\ leaky' = (leaky \/ \E c \in Callers : call[c].op = "start")
    /\ sess' = None /\ provider' = FALSE /\ mu' = None
    /\ call' = [c \in Callers |-> Idle]
    /\ updater' = [u \in Updaters |-> NotUpdating]
    /\ UNCHANGED <<disk, faults, tampers, tampered, revived, removed, marks>>

\* Open finds the home as it was left.
Open ==
    /\ ~up /\ up' = TRUE
    /\ UNCHANGED <<disk, sess, provider, mu, call, updater, budget, history>>

Advance(c) ==
    \/ CreateCheck(c) \/ Add(c) \/ RollbackAdd(c) \/ RuntimeCreate(c) \/ Save(c)
    \/ Prepare(c) \/ RuntimeStart(c) \/ AdapterStart(c) \/ Started(c) \/ RuntimeRestart(c)
    \/ RuntimeClose(c) \/ UpdateLoad(c) \/ UpdateSave(c) \/ Reload(c) \/ RmTree(c)
    \/ RmBranch(c) \/ Unlink(c) \/ Forget(c)

Next ==
    \/ \E c \in Callers :
          \/ \E mode \in Modes : BeginStart(c, mode)
          \/ \E op \in Ops \ {"start"} : BeginLoaded(c, op)
          \/ Advance(c) \/ Cancel(c)
    \/ \E u \in Updaters : UpdaterLoad(u) \/ UpdaterSave(u)
    \/ Prune \/ Tamper \/ Open
    \/ \E crash \in BOOLEAN : Stop(crash)

Spec == Init /\ [][Next]_vars

-----------------------------------------------------------------------------
(* Properties *)

Settled == \A c \in Callers : call[c].pc = "idle"

\* A session the Engine lists as open can be resumed: its worktree is there
\* and on its branch, and what the runtime knows of it, or would restore from
\* the journal, is an active session.  Start makes the worktree before the
\* manifest, its rollback removes the manifest before the worktree, and Remove
\* closes the session before it touches either.  When runtime.Close has been
\* called, the manifest may still say open under a session that is closed, if
\* the host died or the update failed in between; such a session still has
\* its worktree and its journal, for Remove to go on with.  An open manifest
\* that a rollback failed to remove has neither (orphaned).
OpenCanResume ==
    (manifest # None /\ ~manifest.closed /\ ~tampered /\ ~revived /\ ~orphaned) =>
        /\ journal # None
        /\ closing \/ Restored = "active"
        /\ manifest.mode = "managed" => git.branch /\ ReopenOK(git, TRUE)

\* A session marked closed has no provider: CloseSession stops it first and
\* Resume refuses a closed session.
ClosedStopsProvider == (manifest # None /\ manifest.closed /\ ~revived) => ~provider

\* What the manifest says of a session is true, between any two steps, after
\* any crash and next to any other writer: open means that Resume finds what
\* it needs, unless closing had begun, and closed that its provider is gone.
ManifestIsTrue == OpenCanResume /\ ClosedStopsProvider

\* What Remove reports as removed is gone, however the session came there:
\* after crashes, repairs, pruned registrations and worktrees deleted by hand.
Gone == git = CleanGit /\ ~provider /\ sess = None /\ (manifest = None \/ revived)
RemovedIsGone == (removed /\ Settled) => Gone

\* A Start that fails once, while its caller waits for it, leaves no worktree,
\* branch, manifest, provider or runtime session behind: whatever step up to
\* the start of the provider fails, the rollback undoes all before it.  The
\* update of the manifest that ends a Start is not such a step: when that
\* fails, Start returns its error and leaves the session open and running.
FailedStartLeavesNothing == (Settled /\ starting /\ ~leaky /\ ~tampered) => Gone

\* Marking a session closed is never undone while its manifest exists, though
\* other goroutines rewrite the manifest with what they loaded earlier.
ClosedStays ==
    [][(manifest # None /\ manifest.closed /\ ~revived) => (manifest' = None \/ manifest'.closed)]_vars
=============================================================================
