----------------------------- MODULE EngineProofs -----------------------------
(***************************************************************************)
(* What a session's manifest promises, for any number of other writers of  *)
(* the manifest, of failing steps, of crashes and of changes by hand.  The *)
(* lifecycle calls of the session are made one after the other, as a host  *)
(* that owns the session makes them: c is the goroutine that makes them.   *)
(***************************************************************************)
EXTENDS Engine, TLAPS

\* The session's workspace as Start makes it.
Whole(g) == g.dir /\ g.reg /\ g.branch /\ g.head = "own"

\* Which steps each call goes through.
Flow(c) ==
    LET k == call[c] IN
    /\ k.op = "none" <=> k.pc = "idle"
    /\ k.op = "none" => ~k.failed
    /\ k.op # "none" => k.entry \in Manifests
    /\ k.failed => /\ k.op = "start"
                   /\ k.pc \in {"rtClose", "forget", "unlink", "rmTree", "rmBranch"}
    /\ k.op = "start" => ~k.entry.closed
    /\ k.op = "start" /\ ~k.failed =>
          k.pc \in {"createCheck", "add", "rollbackAdd", "rtCreate", "save", "prepare",
                    "rtStart", "adapterStart", "started", "update", "updateSave"}
    /\ k.pc \in {"createCheck", "add", "rollbackAdd"} => k.entry.mode = "managed"
    /\ k.op = "resume" =>
          k.pc \in {"prepare", "rtStart", "adapterStart", "started", "update", "updateSave"}
    /\ k.op = "repair" => k.pc \in {"update", "updateSave"}
    /\ k.op = "restart" => k.pc \in {"rtRestart", "update", "updateSave"}
    /\ k.op = "close" => k.pc \in {"rtClose", "update", "updateSave"}
    /\ k.op = "remove" => k.pc \in {"rtClose", "update", "updateSave", "reload",
                                     "rmTree", "rmBranch", "unlink", "forget"}

\* Who holds manifestMu writes back what he loaded, unless the manifest was
\* removed meanwhile.
Locks(c) ==
    LET k == call[c] IN
    /\ mu = c <=> k.pc = "updateSave"
    /\ \A u \in Updaters :
          /\ mu = u <=> updater[u].pc = "save"
          /\ updater[u].pc = "save" => /\ updater[u].entry \in Manifests
                                       /\ manifest \in {None, updater[u].entry}
    /\ k.pc = "updateSave" =>
          /\ manifest # None /\ k.entry.mode = manifest.mode
          /\ k.entry.closed = (manifest.closed \/ k.op \in {"close", "remove"})

\* What the call in progress knows of the manifest.
Written(c) ==
    LET k == call[c] IN
    /\ k.pc \in {"createCheck", "add", "rollbackAdd", "rtCreate", "save"} =>
          manifest = None \/ revived
    /\ k.op = "start" /\ k.pc \in {"prepare", "rtStart", "adapterStart", "started",
                                    "update", "updateSave"} => manifest = k.entry
    /\ k.failed /\ k.pc \in {"rmTree", "rmBranch"} => manifest = None \/ revived \/ orphaned
    /\ k.op \in {"resume", "repair", "restart", "close", "remove"} /\ k.pc # "forget" =>
          manifest # None
    /\ k.op = "resume" => ~manifest.closed
    /\ k.op = "remove" /\ k.pc \in {"reload", "rmTree", "rmBranch", "unlink"} => manifest.closed
    /\ k.op = "remove" /\ k.pc \in {"rmTree", "rmBranch", "unlink"} => manifest = k.entry
    /\ k.op = "remove" /\ k.pc = "forget" => manifest = None \/ revived

\* A provider runs for an active session only, and a session marked closed
\* is not active.
Stopped(c) ==
    LET k == call[c] IN
    /\ provider => sess = "active"
    /\ k.pc \in {"adapterStart", "started", "rtRestart"} => sess = "active"
    /\ k.op \in {"close", "remove"} /\ k.pc \in {"update", "updateSave"} => sess # "active"
    /\ manifest # None /\ manifest.closed /\ ~revived => sess # "active"

\* A session with a manifest, or about to have one, has a journal.
Journaled(c) ==
    /\ manifest # None => journal # None
    /\ \A u \in Updaters : updater[u].pc = "save" => journal # None
    /\ call[c].pc = "save" => journal # None

\* An open managed session, and one about to be recorded, has its workspace.
Trees(c) ==
    LET k == call[c] IN
    /\ git.dir => git.reg
    /\ ~git.reg => git.head = "none"
    /\ manifest # None /\ ~manifest.closed /\ manifest.mode = "managed" =>
          tampered \/ revived \/ orphaned \/ Whole(git)
    /\ k.pc \in {"rtCreate", "save"} /\ k.entry.mode = "managed" /\ ~tampered => Whole(git)

\* What Remove has removed by then.
Removing(c) ==
    LET k == call[c] IN
    /\ k.pc = "rmBranch" /\ k.live => ~git.dir /\ ~git.reg /\ git.head = "none"
    /\ k.op = "remove" /\ k.pc \in {"unlink", "forget"} /\ k.entry.mode = "managed" /\ k.live =>
          git = CleanGit
    /\ removed => /\ k.op = "none" /\ git = CleanGit /\ sess = None
                  /\ manifest = None \/ revived

\* The runtime's side of a Start that fails, as long as nothing else does.
Unstarted(c) ==
    LET k == call[c] IN
    ~leaky =>
        /\ k.op \in {"start", "remove"} => k.live
        /\ k.op # "start" /\ manifest = None => sess # "active" /\ (k.op = "none" => sess = None)
        /\ k.op # "start" /\ manifest # None /\ manifest.closed => sess # "active"
        /\ k.op = "remove" /\ k.pc \in {"reload", "rmTree", "rmBranch", "unlink", "forget"} =>
              sess # "active"
        /\ k.pc \in {"createCheck", "add", "rollbackAdd"} => sess = None
        /\ k.failed /\ k.pc = "forget" => sess # "active"
        /\ k.failed /\ k.pc \in {"unlink", "rmTree", "rmBranch"} => sess = None

\* The workspace's side.
Uncreated(c) ==
    LET k == call[c] IN
    ~leaky /\ ~tampered =>
        /\ k.pc \in {"createCheck", "add"} => git = CleanGit
        /\ k.pc \in {"add", "rollbackAdd"} => ~k.branchExisted
        /\ k.op = "start" /\ k.entry.mode = "existing" => git = CleanGit
        /\ k.op # "start" /\ manifest = None => git = CleanGit
        /\ k.op # "start" /\ manifest # None /\ manifest.mode = "existing" => git = CleanGit

Inv(c) ==
    /\ TypeOK /\ Flow(c) /\ Locks(c) /\ Written(c) /\ Stopped(c) /\ Journaled(c)
    /\ Trees(c) /\ Removing(c) /\ Unstarted(c) /\ Uncreated(c)

\* As long as nobody has called runtime.Close, what the journal and the
\* runtime know of the session is active.
Resumes(c) ==
    ~closing /\ ~revived /\ (manifest # None \/ call[c].pc = "save") =>
        journal = "active" /\ sess # "closed"

\* What a Start that did not get to its last step has left once it returned.
Undone(c) ==
    starting /\ ~leaky /\ call[c].op = "none" =>
        /\ manifest = None \/ revived
        /\ sess = None /\ (~tampered => git = CleanGit)

Marked(c) ==
    /\ Resumes(c) /\ Undone(c)
    /\ starting => call[c].op \in {"start", "none"} /\ call[c].pc # "updateSave"
    /\ orphaned => leaky
-----------------------------------------------------------------------------
(* What a step does to the call.                                           *)

Kept(c) == /\ call'[c].op = call[c].op /\ (call'[c].live <=> call[c].live)
           /\ call'[c].entry = call[c].entry
           /\ call'[c].branchExisted <=> call[c].branchExisted

Moved(c, pc) ==
    /\ call' \in [Callers -> Calls] /\ call'[c].pc = pc
    /\ Kept(c) /\ (call'[c].failed <=> call[c].failed)

Ended(c) ==
    /\ call' \in [Callers -> Calls] /\ call'[c].pc = "idle"
    /\ call'[c].op = "none" /\ call'[c].live /\ ~call'[c].failed

RolledBack(c) ==
    /\ call' \in [Callers -> Calls] /\ call'[c].pc = "rtClose"
    /\ Kept(c) /\ call'[c].failed

Begun(c, op, e, pc) ==
    /\ call' \in [Callers -> Calls] /\ call'[c].op = op /\ call'[c].pc = pc
    /\ call'[c].live /\ ~call'[c].failed /\ call'[c].entry = e

Loaded(c, pc, e) ==
    /\ call' \in [Callers -> Calls] /\ call'[c].pc = pc /\ call'[c].op = call[c].op
    /\ call'[c].live <=> call[c].live
    /\ call'[c].failed <=> call[c].failed
    /\ call'[c].entry = e

\* A call that goes on.
LEMMA GotoMoves ==
    ASSUME TypeOK, NEW c \in Callers, NEW pc \in Steps, Goto(c, pc)
    PROVE  Moved(c, pc)
  BY DEF Goto, Moved, Kept, TypeOK, Calls

\* A call that returns.
LEMMA ReturnEnds ==
    ASSUME TypeOK, NEW c \in Callers, Return(c)
    PROVE  Ended(c)
  <1>1. Idle \in Calls
    BY DEF Idle, Calls, Steps
  <1> QED
    BY <1>1 DEF Return, Ended, TypeOK, Idle

\* A call that meets an error.
LEMMA FailEnds ==
    ASSUME TypeOK, NEW c \in Callers, Fail(c)
    PROVE  IF call[c].op = "start" /\ ~call[c].failed THEN RolledBack(c) ELSE Ended(c)
  <1>1. CASE call[c].op = "start" /\ ~call[c].failed
    <2>1. call[c] \in Calls /\ "rtClose" \in Steps /\ TRUE \in BOOLEAN
      BY DEF TypeOK, Steps
    <2>2. ASSUME NEW k \in Calls, NEW q, q = [k EXCEPT !.pc = "rtClose", !.failed = TRUE]
          PROVE  /\ q \in Calls /\ q.pc = "rtClose" /\ q.op = k.op /\ q.live = k.live
                 /\ q.entry = k.entry /\ q.branchExisted = k.branchExisted /\ q.failed = TRUE
      <3>1. /\ DOMAIN q = DOMAIN k /\ q.pc = "rtClose" /\ q.op = k.op /\ q.live = k.live
            /\ q.entry = k.entry /\ q.branchExisted = k.branchExisted /\ q.failed = TRUE
        BY <2>2 DEF Calls
      <3>2. q \in Calls
        BY <2>1, <2>2 DEF Calls
      <3> QED
        BY <3>1, <3>2
    <2>3. call' = [call EXCEPT ![c] = [call[c] EXCEPT !.pc = "rtClose", !.failed = TRUE]]
      BY <1>1 DEF Fail
    <2>4. call'[c] = [call[c] EXCEPT !.pc = "rtClose", !.failed = TRUE]
      BY <2>3 DEF TypeOK
    <2>5. /\ call'[c] \in Calls /\ call'[c].pc = "rtClose" /\ call'[c].failed = TRUE
          /\ call'[c].op = call[c].op /\ call'[c].live = call[c].live
          /\ call'[c].entry = call[c].entry
          /\ call'[c].branchExisted = call[c].branchExisted
      <3> DEFINE k == call[c]
                 q == call'[c]
      <3>1. k \in Calls /\ q = [k EXCEPT !.pc = "rtClose", !.failed = TRUE]
        BY <2>1, <2>4
      <3> HIDE DEF k, q
      <3>2. /\ q \in Calls /\ q.pc = "rtClose" /\ q.op = k.op /\ q.live = k.live
            /\ q.entry = k.entry /\ q.branchExisted = k.branchExisted /\ q.failed = TRUE
        BY <2>1, <2>2, <3>1
      <3> QED
        BY <3>2 DEF k, q
    <2>6. call' \in [Callers -> Calls]
      BY <2>3, <2>4, <2>5 DEF TypeOK
    <2> QED
      BY <1>1, <2>5, <2>6 DEF RolledBack, Kept
  <1>2. CASE ~(call[c].op = "start" /\ ~call[c].failed)
    BY <1>2, ReturnEnds DEF Fail
  <1> QED
    BY <1>1, <1>2

\* A call that begins.
LEMMA CallBegins ==
    ASSUME TypeOK, NEW c \in Callers, NEW op \in Ops, NEW e \in Manifests, NEW pc \in Steps,
           call' = [call EXCEPT ![c] = [Idle EXCEPT !.op = op, !.entry = e, !.pc = pc]]
    PROVE  Begun(c, op, e, pc)
  <1>1. [Idle EXCEPT !.op = op, !.entry = e, !.pc = pc] \in Calls
    BY DEF Idle, Calls
  <1> QED
    BY <1>1 DEF Begun, TypeOK, Idle

\* CreateCheck's update.
LEMMA BranchSeen ==
    ASSUME TypeOK, NEW c \in Callers, NEW b \in BOOLEAN,
           call' = [call EXCEPT ![c] = [call[c] EXCEPT !.pc = "add", !.branchExisted = b]]
    PROVE  /\ call' \in [Callers -> Calls] /\ call'[c].pc = "add" /\ call'[c].op = call[c].op
           /\ call'[c].live <=> call[c].live
           /\ call'[c].failed <=> call[c].failed
           /\ call'[c].entry = call[c].entry
           /\ call'[c].branchExisted <=> b
  BY ZenonT(60) DEF TypeOK, Calls, Steps

\* UpdateLoad's and Reload's.
LEMMA EntryLoaded ==
    ASSUME TypeOK, NEW c \in Callers, NEW e \in Manifests, NEW pc \in Steps,
           call' = [call EXCEPT ![c] = [call[c] EXCEPT !.entry = e, !.pc = pc]]
    PROVE  Loaded(c, pc, e)
  BY ZenonT(60) DEF TypeOK, Calls, Loaded

-----------------------------------------------------------------------------
(* Git.                                                                    *)

\* What holds of the workspace in every state.
Sound(g) == g \in GitStates /\ (g.dir => g.reg) /\ (~g.reg => g.head = "none")

\* git worktree add makes all of the workspace, or says so.
LEMMA AddResult ==
    ASSUME NEW g, Sound(g), NEW live \in BOOLEAN, NEW fault \in BOOLEAN,
           NEW r \in WorktreeAdd(g, live, fault)
    PROVE  Sound(r.git) /\ (r.ok => Whole(r.git))
  <1>1. CASE ~live \/ g.branch \/ g.reg \/ g.dir
    BY <1>1 DEF WorktreeAdd, Refused, Result
  <1>2. CASE live /\ ~g.branch /\ ~g.reg /\ ~g.dir
    <2>1. \/ r = Result(TRUE, [dir |-> TRUE, reg |-> TRUE, branch |-> TRUE, head |-> "own"])
          \/ r = Refused([g EXCEPT !.branch = TRUE])
          \/ r = Refused([g EXCEPT !.branch = TRUE, !.reg = TRUE, !.head = "own"])
          \/ r = Refused([dir |-> TRUE, reg |-> TRUE, branch |-> TRUE, head |-> "own"])
      BY <1>2 DEF WorktreeAdd
    <2> DEFINE f == [dir |-> TRUE, reg |-> TRUE, branch |-> TRUE, head |-> "own"]
    <2>2. Sound(f) /\ Whole(f)
      BY DEF Sound, GitStates, Whole
    <2>3. Sound([g EXCEPT !.branch = TRUE])
      BY DEF Sound, GitStates
    <2>4. Sound([g EXCEPT !.branch = TRUE, !.reg = TRUE, !.head = "own"])
      BY DEF Sound, GitStates
    <2> HIDE DEF f
    <2>5. ASSUME NEW x, r = Refused(x) PROVE ~r.ok /\ r.git = x
      BY <2>5 DEF Refused, Result
    <2>6. r = Result(TRUE, f) => r.git = f
      BY DEF Result
    <2> QED
      BY <2>1, <2>2, <2>3, <2>4, <2>5, <2>6 DEF f
  <1> QED
    BY <1>1, <1>2

\* rollback takes all of it away again.
LEMMA RollbackResult ==
    ASSUME NEW g, Sound(g), NEW live \in BOOLEAN, NEW b \in BOOLEAN
    PROVE  /\ Sound(Rollback(g, live, b))
           /\ live /\ ~b => Rollback(g, live, b) = CleanGit
  <1> DEFINE h == [WorktreeRemove(g, live).git EXCEPT !.dir = FALSE]
  <1>1. Sound(h) /\ ~h.dir /\ (live => ~h.reg)
    BY DEF Sound, GitStates, WorktreeRemove, Result, Refused
  <1>2. Rollback(g, live, b) = IF b THEN h ELSE DeleteBranch(h, live).git
    BY DEF Rollback
  <1> HIDE DEF h
  <1>3. Sound(DeleteBranch(h, live).git)
    BY <1>1 DEF DeleteBranch, Sound, GitStates, Result, Refused
  <1>4. live => DeleteBranch(h, live).git = CleanGit
    BY <1>1 DEF DeleteBranch, Sound, GitStates, Result, Refused, CleanGit
  <1> QED
    BY <1>1, <1>2, <1>3, <1>4

\* Remove's first half succeeds on every workspace, while its caller waits.
LEMMA TreeResult ==
    ASSUME NEW g, Sound(g), NEW live \in BOOLEAN
    PROVE  LET r == RemoveTree(g, live) IN
           /\ Sound(r.git)
           /\ live => r.ok /\ ~r.git.dir /\ ~r.git.reg /\ r.git.head = "none"
           /\ g = CleanGit => r.git = CleanGit
  <1>1. CASE live /\ g.reg
    <2> DEFINE h == [g EXCEPT !.dir = FALSE, !.reg = FALSE, !.head = "none"]
    <2>1. WorktreeRemove(g, live) = Result(TRUE, h)
      BY <1>1 DEF WorktreeRemove
    <2>2. Result(TRUE, h).ok /\ Result(TRUE, h).git = h
      BY DEF Result
    <2>3. Sound(h) /\ ~h.dir /\ ~h.reg /\ h.head = "none"
      BY DEF Sound, GitStates
    <2>4. g # CleanGit
      BY <1>1 DEF CleanGit
    <2> HIDE DEF h
    <2> QED
      BY <1>1, <2>1, <2>2, <2>3, <2>4 DEF RemoveTree
  <1>2. CASE live /\ ~g.reg
    BY <1>2 DEF RemoveTree, WorktreeRemove, WorktreePrune, Result, Refused, Sound, GitStates, CleanGit
  <1>3. CASE ~live
    BY <1>3 DEF RemoveTree, WorktreeRemove, Result, Refused, Sound, GitStates
  <1> QED
    BY <1>1, <1>2, <1>3

\* And its second half, once the worktree is gone.
LEMMA BranchResult ==
    ASSUME NEW g, Sound(g), NEW live \in BOOLEAN
    PROVE  LET r == DeleteBranch(g, live) IN
           /\ Sound(r.git)
           /\ live /\ ~g.dir /\ ~g.reg => r.ok /\ r.git = CleanGit
           /\ g = CleanGit => r.git = CleanGit
  <1>1. CASE ~live \/ ~g.branch
    <2>1. DeleteBranch(g, live) = [ok |-> TRUE, git |-> g]
      BY <1>1 DEF DeleteBranch, Result
    <2>3. DeleteBranch(g, live).ok /\ DeleteBranch(g, live).git = g
      BY <2>1
    <2>2. ~g.branch /\ ~g.dir /\ ~g.reg => g = CleanGit
      BY DEF Sound, GitStates, CleanGit
    <2> QED
      BY <1>1, <2>1, <2>2, <2>3
  <1>2. CASE live /\ g.branch /\ g.reg /\ g.head = "own"
    <2>1. DeleteBranch(g, live).git = g
      BY <1>2 DEF DeleteBranch, Refused, Result
    <2> QED
      BY <1>2, <2>1
  <1>3. CASE live /\ g.branch /\ ~(g.reg /\ g.head = "own")
    <2> DEFINE h == [g EXCEPT !.branch = FALSE]
    <2>1. DeleteBranch(g, live).ok /\ DeleteBranch(g, live).git = h
      BY <1>3 DEF DeleteBranch, Result
    <2>2. Sound(h)
      BY DEF Sound, GitStates
    <2>4. ASSUME ~g.dir, ~g.reg PROVE h = CleanGit
      <3>1. g \in GitStates /\ g.head = "none"
        BY <2>4 DEF Sound
      <3>2. ASSUME NEW x, x = [g EXCEPT !.branch = FALSE] PROVE x = CleanGit
        BY <2>4, <3>1, <3>2 DEF GitStates, CleanGit
      <3> QED
        BY <3>2
    <2>3. g # CleanGit
      BY <1>3 DEF CleanGit
    <2> HIDE DEF h
    <2> QED
      BY <2>1, <2>2, <2>3, <2>4
  <1> QED
    BY <1>1, <1>2, <1>3

\* git worktree prune touches neither a whole workspace nor an empty one.
LEMMA PruneResult ==
    ASSUME NEW g, Sound(g)
    PROVE  /\ Sound(WorktreePrune(g))
           /\ g.dir \/ ~g.reg => WorktreePrune(g) = g
           /\ WorktreePrune(g).dir <=> g.dir
  BY DEF WorktreePrune, Sound, GitStates

\* The invariant's part of this.
LEMMA GitSound ==
    ASSUME NEW c, Inv(c)
    PROVE  Sound(git)
  BY DEF Inv, Trees, TypeOK, Sound

-----------------------------------------------------------------------------
(* Every step preserves the invariant.                                     *)

\* A Start that fails rolls back what it has made.
LEMMA RollbackStep ==
    ASSUME NEW c, Callers = {c}, Inv(c), call[c].op = "start", ~call[c].failed,
           call[c].pc \in {"rtCreate", "save", "prepare", "rtStart", "adapterStart", "started"},
           RolledBack(c), leaky' <=> leaky, leaky' \in BOOLEAN, faults' \in 0..MaxFaults,
           UNCHANGED <<manifest, git, sess, journal, provider, mu, updater, up, crashes,
                       tampers, tampered, revived, removed, marks>>
    PROVE  Inv(c)'
  <1> USE EngineAssumption DEF Inv, marks
  <1>a. TypeOK'
    BY DEF TypeOK, RolledBack, Kept
  <1>b. Flow(c)'
    BY DEF Flow, RolledBack, Kept
  <1>c. Locks(c)'
    BY DEF Locks, RolledBack, Kept
  <1>d. Written(c)'
    BY DEF Written, RolledBack, Kept
  <1>e. Stopped(c)'
    BY DEF Stopped, RolledBack, Kept
  <1>f. Journaled(c)' /\ Trees(c)'
    BY DEF Journaled, Trees, RolledBack, Kept
  <1>g. Removing(c)' /\ Unstarted(c)' /\ Uncreated(c)'
    BY DEF Removing, Unstarted, Uncreated, RolledBack, Kept
  <1> QED
    BY <1>a, <1>b, <1>c, <1>d, <1>e, <1>f, <1>g

\* Any other call that fails returns, and leaves the manifest to the next.
LEMMA EndStep ==
    ASSUME NEW c, Callers = {c}, Inv(c),
           call[c].op \in {"resume", "repair", "restart", "close", "remove"},
           call[c].pc \notin {"updateSave", "forget"}, Ended(c),
           leaky' <=> leaky, leaky' \in BOOLEAN, faults' \in 0..MaxFaults, provider' \in BOOLEAN,
           \/ sess' = sess /\ (provider' => provider)
           \/ sess' = "closed" /\ sess = "active" /\ ~provider',
           git' = git,
           UNCHANGED <<manifest, journal, mu, updater, up, crashes, tampers, tampered,
                       revived, removed>>,
           {starting', closing', orphaned'} \subseteq BOOLEAN, orphaned' <=> orphaned
    PROVE  Inv(c)'
  <1> USE EngineAssumption DEF Inv, marks
  <1>1. manifest # None
    BY DEF Written
  <1>a. TypeOK'
    BY <1>1 DEF TypeOK, Ended
  <1>b. Flow(c)'
    BY <1>1 DEF Flow, Ended
  <1>c. Locks(c)'
    BY <1>1 DEF Locks, Ended
  <1>d. Written(c)'
    BY <1>1 DEF Written, Ended
  <1>e. Stopped(c)'
    BY <1>1 DEF Stopped, Ended
  <1>f. Journaled(c)' /\ Trees(c)'
    BY <1>1 DEF Journaled, Trees, Ended
  <1>g. Removing(c)' /\ Unstarted(c)' /\ Uncreated(c)'
    BY <1>1 DEF Removing, Unstarted, Uncreated, Ended
  <1> QED
    BY <1>a, <1>b, <1>c, <1>d, <1>e, <1>f, <1>g


\* Save.
LEMMA SaveStep ==
    ASSUME NEW c, Callers = {c}, Inv(c), Save(c)
    PROVE  Inv(c)'
  <1> USE EngineAssumption DEF Inv, marks
  <1>1. /\ call[c].pc = "save" /\ mu = None /\ c \in Callers
        /\ call[c].op = "start" /\ ~call[c].failed
        /\ call[c].entry \in Manifests /\ ~call[c].entry.closed
        /\ UNCHANGED <<git, sess, journal, provider, mu, updater, up, crashes, tampers, tampered, revived, removed, marks>>
    BY DEF Save, At, Flow, TypeOK, Calls, Ops
  <1>2. CASE manifest' = call[c].entry /\ (\E pc \in {"prepare", "rtStart"} : Goto(c, pc)) /\ UNCHANGED <<faults, leaky>>
    <2>1. PICK pc \in {"prepare", "rtStart"} : Moved(c, pc)
      BY <1>1, <1>2, GotoMoves DEF Steps
    <2>a. TypeOK'
      BY <1>1, <1>2, <2>1 DEF TypeOK, Moved, Kept
    <2>b. Flow(c)'
      BY <1>1, <1>2, <2>1 DEF Flow, Moved, Kept
    <2>c. Locks(c)'
      BY <1>1, <1>2, <2>1 DEF Locks, Moved, Kept
    <2>d. Written(c)'
      BY <1>1, <1>2, <2>1 DEF Written, Moved, Kept
    <2>e. Stopped(c)'
      BY <1>1, <1>2, <2>1 DEF Stopped, Moved, Kept
    <2>f. Journaled(c)' /\ Trees(c)'
      BY <1>1, <1>2, <2>1 DEF Journaled, Trees, Moved, Kept
    <2>g. Removing(c)' /\ Unstarted(c)' /\ Uncreated(c)'
      BY <1>1, <1>2, <2>1 DEF Removing, Unstarted, Uncreated, Moved, Kept
    <2> QED
      BY <2>a, <2>b, <2>c, <2>d, <2>e, <2>f, <2>g
  <1>3. CASE FaultIn(c) /\ Fail(c) /\ UNCHANGED manifest
    <2>1. RolledBack(c)
      BY <1>1, <1>3, FailEnds
    <2>2. faults' \in 0..MaxFaults /\ (leaky' <=> leaky) /\ leaky' \in BOOLEAN
      BY <1>1, <1>3 DEF FaultIn, Fault, TypeOK
    <2> QED
      BY <1>1, <1>3, <2>1, <2>2, RollbackStep
  <1> QED
    BY <1>2, <1>3 DEF Save

\* Start.
LEMMA BeginStartStep ==
    ASSUME NEW c, Callers = {c}, Inv(c), NEW mode \in Modes, BeginStart(c, mode)
    PROVE  Inv(c)'
  <1> USE EngineAssumption DEF Inv, marks
  <1> DEFINE e == [mode |-> mode, closed |-> FALSE]
             pc == IF mode = "managed" THEN "createCheck" ELSE "rtCreate"
  <1>1. e \in Manifests /\ e.mode = mode /\ ~e.closed /\ pc \in Steps /\ "start" \in Ops
    BY DEF Manifests, Modes, Steps, Ops
  <1>2. /\ c \in Callers /\ call[c].pc = "idle" /\ call[c].op = "none" /\ manifest = None
        /\ removed' = FALSE /\ tampered' = FALSE /\ revived' = FALSE
        /\ starting' = TRUE /\ closing' = FALSE /\ orphaned' = FALSE
        /\ UNCHANGED <<manifest, git, journal, sess, provider, mu, updater, up, faults, crashes, tampers>>
    BY DEF BeginStart, At, Flow, disk, budget
  <1>3. leaky' \in BOOLEAN /\ (~leaky' => git = CleanGit /\ sess = None /\ ~provider)
    BY DEF BeginStart
  <1>4. Begun(c, "start", e, pc)
    BY <1>1, <1>2, CallBegins DEF BeginStart
  <1>5. (mode = "managed" /\ pc = "createCheck") \/ (mode = "existing" /\ pc = "rtCreate")
    BY DEF Modes
  <1> HIDE DEF e, pc
  <1>a. TypeOK'
    BY <1>1, <1>2, <1>3, <1>4, <1>5 DEF TypeOK, Begun
  <1>b. Flow(c)'
    BY <1>1, <1>2, <1>3, <1>4, <1>5 DEF Flow, Begun
  <1>c. Locks(c)'
    BY <1>1, <1>2, <1>3, <1>4, <1>5 DEF Locks, Begun
  <1>d. Written(c)'
    BY <1>1, <1>2, <1>3, <1>4, <1>5 DEF Written, Begun
  <1>e. Stopped(c)'
    BY <1>1, <1>2, <1>3, <1>4, <1>5 DEF Stopped, Begun
  <1>f. Journaled(c)' /\ Trees(c)'
    BY <1>1, <1>2, <1>3, <1>4, <1>5 DEF Journaled, Trees, Begun
  <1>g. Removing(c)' /\ Unstarted(c)' /\ Uncreated(c)'
    BY <1>1, <1>2, <1>3, <1>4, <1>5 DEF Removing, Unstarted, Uncreated, Begun
  <1> QED
    BY <1>a, <1>b, <1>c, <1>d, <1>e, <1>f, <1>g

\* Create, up to the add.
LEMMA CreateCheckStep ==
    ASSUME NEW c, Callers = {c}, Inv(c), CreateCheck(c)
    PROVE  Inv(c)'
  <1> USE EngineAssumption DEF Inv, marks
  <1>1. /\ c \in Callers /\ call[c].pc = "createCheck"
        /\ call[c].op = "start" /\ ~call[c].failed
        /\ UNCHANGED <<manifest, git, journal, sess, provider, mu, updater, up, faults, crashes,
                       tampers, tampered, revived, leaky, removed, marks>>
    BY DEF CreateCheck, At, Flow, TypeOK, Calls, Ops, disk, budget, history
  <1>2. CASE git.dir \/ ~call[c].live
    <2>1. Ended(c)
      BY <1>1, <1>2, ReturnEnds DEF CreateCheck
    <2>2. leaky \/ tampered
      BY <1>1, <1>2 DEF Unstarted, Uncreated, CleanGit
    <2>a. TypeOK'
      BY <1>1, <2>1, <2>2 DEF TypeOK, Ended
    <2>b. Flow(c)'
      BY <1>1, <2>1, <2>2 DEF Flow, Ended
    <2>c. Locks(c)'
      BY <1>1, <2>1, <2>2 DEF Locks, Ended
    <2>d. Written(c)'
      BY <1>1, <2>1, <2>2 DEF Written, Ended
    <2>e. Stopped(c)'
      BY <1>1, <2>1, <2>2 DEF Stopped, Ended
    <2>f. Journaled(c)' /\ Trees(c)'
      BY <1>1, <2>1, <2>2 DEF Journaled, Trees, Ended
    <2>g. Removing(c)' /\ Unstarted(c)' /\ Uncreated(c)'
      BY <1>1, <2>1, <2>2 DEF Removing, Unstarted, Uncreated, Ended
    <2> QED
      BY <2>a, <2>b, <2>c, <2>d, <2>e, <2>f, <2>g
  <1>3. CASE ~(git.dir \/ ~call[c].live)
    <2>1. git.branch \in BOOLEAN /\ (git = CleanGit => ~git.branch)
      BY DEF TypeOK, GitStates, CleanGit
    <2>2. /\ call' \in [Callers -> Calls] /\ call'[c].pc = "add" /\ call'[c].op = call[c].op
          /\ call'[c].live <=> call[c].live
          /\ call'[c].failed <=> call[c].failed
          /\ call'[c].entry = call[c].entry
          /\ call'[c].branchExisted <=> git.branch
      BY <1>1, <1>3, <2>1, BranchSeen DEF CreateCheck
    <2>a. TypeOK'
      BY <1>1, <2>1, <2>2 DEF TypeOK
    <2>b. Flow(c)'
      BY <1>1, <2>1, <2>2 DEF Flow
    <2>c. Locks(c)'
      BY <1>1, <2>1, <2>2 DEF Locks
    <2>d. Written(c)'
      BY <1>1, <2>1, <2>2 DEF Written
    <2>e. Stopped(c)'
      BY <1>1, <2>1, <2>2 DEF Stopped
    <2>f. Journaled(c)' /\ Trees(c)'
      BY <1>1, <2>1, <2>2 DEF Journaled, Trees
    <2>g. Removing(c)' /\ Unstarted(c)' /\ Uncreated(c)'
      BY <1>1, <2>1, <2>2 DEF Removing, Unstarted, Uncreated
    <2> QED
      BY <2>a, <2>b, <2>c, <2>d, <2>e, <2>f, <2>g
  <1> QED
    BY <1>2, <1>3

\* git worktree add.
LEMMA AddStep ==
    ASSUME NEW c, Callers = {c}, Inv(c), Add(c)
    PROVE  Inv(c)'
  <1> USE EngineAssumption DEF Inv, marks
  <1>1. /\ c \in Callers /\ call[c].pc = "add"
        /\ call[c].op = "start" /\ ~call[c].failed /\ call[c].live \in BOOLEAN
        /\ UNCHANGED <<manifest, sess, journal, provider, mu, updater, up, crashes, tampers,
                       tampered, revived, leaky, removed, marks>>
    BY DEF Add, At, Flow, TypeOK, Calls, Ops, history
  <1>2. faults' \in 0..MaxFaults
    BY DEF Add, Fault, TypeOK
  <1>3. \/ Sound(git') /\ Whole(git') /\ Moved(c, "rtCreate")
        \/ Sound(git') /\ Moved(c, "rollbackAdd")
    <2>0. PICK fault \in BOOLEAN : \E r \in WorktreeAdd(git, call[c].live, fault) :
             /\ git' = r.git
             /\ Goto(c, IF r.ok /\ ~fault /\ InspectOK(r.git, call[c].live) THEN "rtCreate" ELSE "rollbackAdd")
      BY DEF Add
    <2>1. PICK r \in WorktreeAdd(git, call[c].live, fault) :
             /\ git' = r.git
             /\ Goto(c, IF r.ok /\ ~fault /\ InspectOK(r.git, call[c].live) THEN "rtCreate" ELSE "rollbackAdd")
      BY <2>0
    <2>2. Sound(r.git) /\ (r.ok => Whole(r.git))
      BY <1>1, GitSound, AddResult
    <2>3. CASE r.ok /\ ~fault /\ InspectOK(r.git, call[c].live)
      BY <1>1, <2>1, <2>2, <2>3, GotoMoves DEF Steps
    <2>4. CASE ~(r.ok /\ ~fault /\ InspectOK(r.git, call[c].live))
      BY <1>1, <2>1, <2>2, <2>4, GotoMoves DEF Steps
    <2> QED
      BY <2>3, <2>4
  <1>a. TypeOK'
    BY <1>1, <1>2, <1>3 DEF TypeOK, Moved, Kept, Sound
  <1>b. Flow(c)'
    BY <1>1, <1>2, <1>3 DEF Flow, Moved, Kept, Sound
  <1>c. Locks(c)'
    BY <1>1, <1>2, <1>3 DEF Locks, Moved, Kept, Sound
  <1>d. Written(c)'
    BY <1>1, <1>2, <1>3 DEF Written, Moved, Kept, Sound
  <1>e. Stopped(c)'
    BY <1>1, <1>2, <1>3 DEF Stopped, Moved, Kept, Sound
  <1>f. Journaled(c)' /\ Trees(c)'
    BY <1>1, <1>2, <1>3 DEF Journaled, Trees, Moved, Kept, Sound, Written
  <1>g. Removing(c)' /\ Unstarted(c)' /\ Uncreated(c)'
    BY <1>1, <1>2, <1>3 DEF Removing, Unstarted, Uncreated, Moved, Kept, Sound, Flow
  <1> QED
    BY <1>a, <1>b, <1>c, <1>d, <1>e, <1>f, <1>g

\* Create's own rollback.
LEMMA RollbackAddStep ==
    ASSUME NEW c, Callers = {c}, Inv(c), RollbackAdd(c)
    PROVE  Inv(c)'
  <1> USE EngineAssumption DEF Inv, marks
  <1>1. /\ c \in Callers /\ call[c].pc = "rollbackAdd" /\ call[c].op = "start" /\ ~call[c].failed
        /\ call[c].live \in BOOLEAN /\ call[c].branchExisted \in BOOLEAN
        /\ UNCHANGED <<manifest, sess, journal, provider, mu, updater, up, faults, crashes, tampers,
                       tampered, revived, leaky, removed, marks>>
    BY DEF RollbackAdd, At, Flow, TypeOK, Calls, Ops, budget, history
  <1>2. Ended(c)
    BY <1>1, ReturnEnds DEF RollbackAdd
  <1>3. /\ Sound(git')
        /\ call[c].live /\ ~call[c].branchExisted => git' = CleanGit
    BY <1>1, GitSound, RollbackResult DEF RollbackAdd
  <1>4. ~leaky /\ ~tampered => git' = CleanGit
    BY <1>1, <1>3 DEF Unstarted, Uncreated
  <1>a. TypeOK'
    BY <1>1, <1>2, <1>3, <1>4 DEF TypeOK, Ended, Sound
  <1>b. Flow(c)'
    BY <1>1, <1>2, <1>3, <1>4 DEF Flow, Ended, Sound
  <1>c. Locks(c)'
    BY <1>1, <1>2, <1>3, <1>4 DEF Locks, Ended, Sound
  <1>d. Written(c)'
    BY <1>1, <1>2, <1>3, <1>4 DEF Written, Ended, Sound
  <1>e. Stopped(c)'
    BY <1>1, <1>2, <1>3, <1>4 DEF Stopped, Ended, Sound
  <1>f. Journaled(c)' /\ Trees(c)'
    BY <1>1, <1>2, <1>3, <1>4 DEF Journaled, Trees, Ended, Sound, Written
  <1>g. Removing(c)' /\ Unstarted(c)' /\ Uncreated(c)'
    BY <1>1, <1>2, <1>3, <1>4 DEF Removing, Unstarted, Uncreated, Ended, Sound
  <1> QED
    BY <1>a, <1>b, <1>c, <1>d, <1>e, <1>f, <1>g

\* runtime.Create.
LEMMA RuntimeCreateStep ==
    ASSUME NEW c, Callers = {c}, Inv(c), RuntimeCreate(c)
    PROVE  Inv(c)'
  <1> USE EngineAssumption DEF Inv, marks
  <1>1. /\ c \in Callers /\ call[c].pc = "rtCreate" /\ call[c].op = "start" /\ ~call[c].failed
        /\ UNCHANGED <<manifest, git, provider, mu, updater, up, crashes, tampers, tampered,
                       revived, removed, marks>>
    BY DEF RuntimeCreate, At, Flow, TypeOK, Calls, Ops
  <1>2. CASE /\ sess = None /\ sess' = "active" /\ journal' = "active" /\ Goto(c, "save")
             /\ UNCHANGED <<faults, leaky>>
    <2>1. Moved(c, "save")
      BY <1>1, <1>2, GotoMoves DEF Steps
    <2>a. TypeOK'
      BY <1>1, <1>2, <2>1 DEF TypeOK, Moved, Kept
    <2>b. Flow(c)'
      BY <1>1, <1>2, <2>1 DEF Flow, Moved, Kept
    <2>c. Locks(c)'
      BY <1>1, <1>2, <2>1 DEF Locks, Moved, Kept
    <2>d. Written(c)'
      BY <1>1, <1>2, <2>1 DEF Written, Moved, Kept
    <2>e. Stopped(c)'
      BY <1>1, <1>2, <2>1 DEF Stopped, Moved, Kept, Written
    <2>f. Journaled(c)' /\ Trees(c)'
      BY <1>1, <1>2, <2>1 DEF Journaled, Trees, Moved, Kept
    <2>g. Removing(c)' /\ Unstarted(c)' /\ Uncreated(c)'
      BY <1>1, <1>2, <2>1 DEF Removing, Unstarted, Uncreated, Moved, Kept
    <2> QED
      BY <2>a, <2>b, <2>c, <2>d, <2>e, <2>f, <2>g
  <1>3. CASE /\ (sess # None /\ UNCHANGED <<faults, leaky>>) \/ (sess = None /\ FaultIn(c))
             /\ Fail(c) /\ UNCHANGED <<sess, journal>>
    <2>1. RolledBack(c)
      BY <1>1, <1>3, FailEnds
    <2>2. faults' \in 0..MaxFaults /\ (leaky' <=> leaky) /\ leaky' \in BOOLEAN
      BY <1>1, <1>3 DEF FaultIn, Fault, TypeOK
    <2> QED
      BY <1>1, <1>3, <2>1, <2>2, RollbackStep
  <1> QED
    BY <1>2, <1>3 DEF RuntimeCreate

\* A failing step of Start or Resume after the manifest is there.
LEMMA FailStep ==
    ASSUME NEW c, Callers = {c}, Inv(c),
           call[c].pc \in {"prepare", "rtStart", "adapterStart", "started"}, Fail(c),
           FaultIn(c) \/ UNCHANGED <<faults, leaky>>,
           UNCHANGED <<manifest, git, sess, journal, provider, mu, updater, up, crashes,
                       tampers, tampered, revived, removed, marks>>
    PROVE  Inv(c)'
  <1> USE EngineAssumption DEF Inv, marks
  <1>1. /\ c \in Callers /\ ~call[c].failed /\ call[c].op \in {"start", "resume"}
    BY DEF Flow, TypeOK, Calls, Ops
  <1>2. faults' \in 0..MaxFaults /\ (leaky' <=> leaky) /\ leaky' \in BOOLEAN /\ provider' \in BOOLEAN
        /\ {starting', closing', orphaned'} \subseteq BOOLEAN /\ (orphaned' <=> orphaned)
    BY <1>1 DEF FaultIn, Fault, TypeOK
  <1>3. CASE call[c].op = "start"
    <2>1. RolledBack(c)
      BY <1>1, <1>3, FailEnds
    <2> QED
      BY <1>1, <1>2, <1>3, <2>1, RollbackStep
  <1>4. CASE call[c].op = "resume"
    <2>1. Ended(c)
      BY <1>1, <1>4, FailEnds
    <2> QED
      BY <1>1, <1>2, <1>4, <2>1, EndStep
  <1> QED
    BY <1>1, <1>3, <1>4

\* The steps of Start and Resume that only go on.
LEMMA GoOnStep ==
    ASSUME NEW c, Callers = {c}, Inv(c),
           \/ call[c].pc = "prepare" /\ Goto(c, "rtStart")
           \/ call[c].pc = "rtStart" /\ sess = "active" /\ Goto(c, "adapterStart")
           \/ call[c].pc = "started" /\ Goto(c, "update"),
           UNCHANGED <<manifest, git, sess, journal, provider, mu, updater, up, faults, crashes,
                       tampers, tampered, revived, leaky, removed, marks>>
    PROVE  Inv(c)'
  <1> USE EngineAssumption DEF Inv, marks
  <1>1. /\ c \in Callers /\ ~call[c].failed /\ call[c].op \in {"start", "resume"}
    BY DEF Flow, TypeOK, Calls, Ops
  <1>2. \/ call[c].pc = "prepare" /\ Moved(c, "rtStart")
        \/ call[c].pc = "rtStart" /\ sess = "active" /\ Moved(c, "adapterStart")
        \/ call[c].pc = "started" /\ Moved(c, "update")
    BY <1>1, GotoMoves DEF Steps
  <1>a. TypeOK'
    BY <1>1, <1>2 DEF TypeOK, Moved, Kept
  <1>b. Flow(c)'
    BY <1>1, <1>2 DEF Flow, Moved, Kept
  <1>c. Locks(c)'
    BY <1>1, <1>2 DEF Locks, Moved, Kept
  <1>d. Written(c)'
    BY <1>1, <1>2 DEF Written, Moved, Kept
  <1>e. Stopped(c)'
    BY <1>1, <1>2 DEF Stopped, Moved, Kept
  <1>f. Journaled(c)' /\ Trees(c)'
    BY <1>1, <1>2 DEF Journaled, Trees, Moved, Kept
  <1>g. Removing(c)' /\ Unstarted(c)' /\ Uncreated(c)'
    BY <1>1, <1>2 DEF Removing, Unstarted, Uncreated, Moved, Kept
  <1> QED
    BY <1>a, <1>b, <1>c, <1>d, <1>e, <1>f, <1>g

\* prepareReplay, runtime.Start and session.started.
LEMMA PrepareStep ==
    ASSUME NEW c, Callers = {c}, Inv(c), Prepare(c) \/ RuntimeStart(c) \/ Started(c)
    PROVE  Inv(c)'
  <1>1. CASE Prepare(c)
    BY <1>1, GoOnStep, FailStep DEF Prepare, At, disk
  <1>2. CASE RuntimeStart(c)
    BY <1>2, GoOnStep, FailStep DEF RuntimeStart, At, disk, budget, history
  <1>3. CASE Started(c)
    BY <1>3, GoOnStep, FailStep DEF Started, At, disk
  <1> QED
    BY <1>1, <1>2, <1>3

\* adapter.StartSession.
LEMMA AdapterStartStep ==
    ASSUME NEW c, Callers = {c}, Inv(c), AdapterStart(c)
    PROVE  Inv(c)'
  <1> USE EngineAssumption DEF Inv, marks
  <1>1. /\ c \in Callers /\ call[c].pc = "adapterStart" /\ ~call[c].failed
        /\ call[c].op \in {"start", "resume"} /\ sess = "active"
        /\ UNCHANGED <<manifest, git, journal, sess, mu, updater, up, crashes, tampers, tampered,
                       revived, removed, marks>>
    BY DEF AdapterStart, At, Flow, Stopped, TypeOK, Calls, Ops, disk
  <1>2. CASE call[c].live /\ provider' = TRUE /\ Goto(c, "started") /\ UNCHANGED <<faults, leaky>>
    <2>1. Moved(c, "started")
      BY <1>1, <1>2, GotoMoves DEF Steps
    <2>a. TypeOK'
      BY <1>1, <1>2, <2>1 DEF TypeOK, Moved, Kept
    <2>b. Flow(c)'
      BY <1>1, <1>2, <2>1 DEF Flow, Moved, Kept
    <2>c. Locks(c)'
      BY <1>1, <1>2, <2>1 DEF Locks, Moved, Kept
    <2>d. Written(c)'
      BY <1>1, <1>2, <2>1 DEF Written, Moved, Kept
    <2>e. Stopped(c)'
      BY <1>1, <1>2, <2>1 DEF Stopped, Moved, Kept
    <2>f. Journaled(c)' /\ Trees(c)'
      BY <1>1, <1>2, <2>1 DEF Journaled, Trees, Moved, Kept
    <2>g. Removing(c)' /\ Unstarted(c)' /\ Uncreated(c)'
      BY <1>1, <1>2, <2>1 DEF Removing, Unstarted, Uncreated, Moved, Kept
    <2> QED
      BY <2>a, <2>b, <2>c, <2>d, <2>e, <2>f, <2>g
  <1>3. CASE FaultIn(c) \/ UNCHANGED <<faults, leaky>>
    <2>1. CASE Fail(c) /\ UNCHANGED provider
      BY <1>1, <1>3, <2>1, FailStep
    <2> QED
      BY <1>2, <2>1 DEF AdapterStart
  <1> QED
    BY <1>2, <1>3 DEF AdapterStart

\* The calls that begin with loadSession.
LEMMA BeginLoadedStep ==
    ASSUME NEW c, Callers = {c}, Inv(c), NEW op \in Ops \ {"start"}, BeginLoaded(c, op)
    PROVE  Inv(c)'
  <1> USE EngineAssumption DEF Inv, marks
  <1>1. /\ c \in Callers /\ call[c].pc = "idle" /\ call[c].op = "none"
        /\ manifest # None /\ manifest \in Manifests /\ op \in Ops /\ op # "start"
        /\ removed' = FALSE /\ starting' = FALSE
        /\ UNCHANGED <<manifest, journal, provider, mu, updater, up, faults, crashes, tampers,
                       tampered, revived, leaky, closing, orphaned>>
    BY DEF BeginLoaded, At, Flow, TypeOK, budget
  <1>2. \A pc \in Steps :
           call' = [call EXCEPT ![c] = [Idle EXCEPT !.op = op, !.entry = manifest, !.pc = pc]] =>
           Begun(c, op, manifest, pc)
    BY <1>1, CallBegins
  <1>3. Restored \in {None, "active", "closed"} /\ (sess = "active" => Restored = "active")
    BY DEF Restored, TypeOK
  <1>4. provider => sess = "active"
    BY DEF Stopped
  <1>5. CASE /\ op = "resume" /\ ~manifest.closed
             /\ sess' = Restored /\ Begun(c, op, manifest, "prepare") /\ UNCHANGED git
    <2>a. TypeOK'
      BY <1>1, <1>3, <1>4, <1>5 DEF TypeOK, Begun
    <2>b. Flow(c)'
      BY <1>1, <1>3, <1>4, <1>5 DEF Flow, Begun
    <2>c. Locks(c)'
      BY <1>1, <1>3, <1>4, <1>5 DEF Locks, Begun
    <2>d. Written(c)'
      BY <1>1, <1>3, <1>4, <1>5 DEF Written, Begun
    <2>e. Stopped(c)'
      BY <1>1, <1>3, <1>4, <1>5 DEF Stopped, Begun
    <2>f. Journaled(c)' /\ Trees(c)'
      BY <1>1, <1>3, <1>4, <1>5 DEF Journaled, Trees, Begun
    <2>g. Removing(c)' /\ Unstarted(c)' /\ Uncreated(c)'
      BY <1>1, <1>3, <1>4, <1>5 DEF Removing, Unstarted, Uncreated, Begun
    <2> QED
      BY <2>a, <2>b, <2>c, <2>d, <2>e, <2>f, <2>g
  <1>6. CASE /\ op = "remove" /\ ~manifest.closed
             /\ sess' = Restored /\ Begun(c, op, manifest, "rtClose") /\ UNCHANGED git
    <2>a. TypeOK'
      BY <1>1, <1>3, <1>4, <1>6 DEF TypeOK, Begun
    <2>b. Flow(c)'
      BY <1>1, <1>3, <1>4, <1>6 DEF Flow, Begun
    <2>c. Locks(c)'
      BY <1>1, <1>3, <1>4, <1>6 DEF Locks, Begun
    <2>d. Written(c)'
      BY <1>1, <1>3, <1>4, <1>6 DEF Written, Begun
    <2>e. Stopped(c)'
      BY <1>1, <1>3, <1>4, <1>6 DEF Stopped, Begun
    <2>f. Journaled(c)' /\ Trees(c)'
      BY <1>1, <1>3, <1>4, <1>6 DEF Journaled, Trees, Begun
    <2>g. Removing(c)' /\ Unstarted(c)' /\ Uncreated(c)'
      BY <1>1, <1>3, <1>4, <1>6 DEF Removing, Unstarted, Uncreated, Begun
    <2> QED
      BY <2>a, <2>b, <2>c, <2>d, <2>e, <2>f, <2>g
  <1>7. CASE /\ op = "restart" /\ sess = "active" /\ Begun(c, op, manifest, "rtRestart")
             /\ UNCHANGED <<git, sess>>
    <2>a. TypeOK'
      BY <1>1, <1>7 DEF TypeOK, Begun
    <2>b. Flow(c)'
      BY <1>1, <1>7 DEF Flow, Begun
    <2>c. Locks(c)'
      BY <1>1, <1>7 DEF Locks, Begun
    <2>d. Written(c)'
      BY <1>1, <1>7 DEF Written, Begun
    <2>e. Stopped(c)'
      BY <1>1, <1>7 DEF Stopped, Begun
    <2>f. Journaled(c)' /\ Trees(c)'
      BY <1>1, <1>7 DEF Journaled, Trees, Begun
    <2>g. Removing(c)' /\ Unstarted(c)' /\ Uncreated(c)'
      BY <1>1, <1>7 DEF Removing, Unstarted, Uncreated, Begun
    <2> QED
      BY <2>a, <2>b, <2>c, <2>d, <2>e, <2>f, <2>g
  <1>8. CASE op = "close" /\ Begun(c, op, manifest, "rtClose") /\ UNCHANGED <<git, sess>>
    <2>a. TypeOK'
      BY <1>1, <1>8 DEF TypeOK, Begun
    <2>b. Flow(c)'
      BY <1>1, <1>8 DEF Flow, Begun
    <2>c. Locks(c)'
      BY <1>1, <1>8 DEF Locks, Begun
    <2>d. Written(c)'
      BY <1>1, <1>8 DEF Written, Begun
    <2>e. Stopped(c)'
      BY <1>1, <1>8 DEF Stopped, Begun
    <2>f. Journaled(c)' /\ Trees(c)'
      BY <1>1, <1>8 DEF Journaled, Trees, Begun
    <2>g. Removing(c)' /\ Unstarted(c)' /\ Uncreated(c)'
      BY <1>1, <1>8 DEF Removing, Unstarted, Uncreated, Begun
    <2> QED
      BY <2>a, <2>b, <2>c, <2>d, <2>e, <2>f, <2>g
  <1>9. CASE /\ op = "remove" /\ manifest.closed /\ Begun(c, op, manifest, "reload")
             /\ UNCHANGED <<git, sess>>
    <2>a. TypeOK'
      BY <1>1, <1>9 DEF TypeOK, Begun
    <2>b. Flow(c)'
      BY <1>1, <1>9 DEF Flow, Begun
    <2>c. Locks(c)'
      BY <1>1, <1>9 DEF Locks, Begun
    <2>d. Written(c)'
      BY <1>1, <1>9 DEF Written, Begun
    <2>e. Stopped(c)'
      BY <1>1, <1>9 DEF Stopped, Begun
    <2>f. Journaled(c)' /\ Trees(c)'
      BY <1>1, <1>9 DEF Journaled, Trees, Begun
    <2>g. Removing(c)' /\ Unstarted(c)' /\ Uncreated(c)'
      BY <1>1, <1>9 DEF Removing, Unstarted, Uncreated, Begun
    <2> QED
      BY <2>a, <2>b, <2>c, <2>d, <2>e, <2>f, <2>g
  <1>10. CASE /\ op = "repair" /\ Begun(c, op, manifest, "update") /\ UNCHANGED sess
              /\ git' = (IF manifest.mode = "managed" THEN EnsureBranch(git, TRUE).git ELSE git)
              /\ manifest.mode = "managed" => EnsureBranch(git, TRUE).ok
    <2>1. /\ Sound(git') /\ (git'.dir <=> git.dir) /\ (git'.reg <=> git.reg)
          /\ (git.branch => git'.branch) /\ (git.head = "own" => git'.head = "own")
          /\ git = CleanGit => git' = CleanGit
      <3>1. CASE manifest.mode = "managed"
        <4>1. git.dir /\ git.reg
          BY <1>10, <3>1 DEF EnsureBranch, InspectOK, Refused, Result
        <4>2. git' = [git EXCEPT !.branch = TRUE, !.head = "own"]
          BY <1>10, <3>1, <4>1 DEF EnsureBranch, InspectOK, Result
        <4>3. git # CleanGit
          BY <4>1 DEF CleanGit
        <4> QED
          BY <4>1, <4>2, <4>3, GitSound DEF Sound, GitStates
      <3>2. CASE manifest.mode # "managed"
        BY <1>10, <3>2, GitSound
      <3> QED
        BY <3>1, <3>2
    <2>a. TypeOK'
      BY <1>1, <1>10, <2>1 DEF TypeOK, Begun, Sound
    <2>b. Flow(c)'
      BY <1>1, <1>10, <2>1 DEF Flow, Begun, Sound
    <2>c. Locks(c)'
      BY <1>1, <1>10, <2>1 DEF Locks, Begun, Sound
    <2>d. Written(c)'
      BY <1>1, <1>10, <2>1 DEF Written, Begun, Sound
    <2>e. Stopped(c)'
      BY <1>1, <1>10, <2>1 DEF Stopped, Begun, Sound
    <2>f. Journaled(c)' /\ Trees(c)'
      BY <1>1, <1>10, <2>1 DEF Journaled, Trees, Begun, Sound, Whole
    <2>g. Removing(c)' /\ Unstarted(c)' /\ Uncreated(c)'
      BY <1>1, <1>10, <2>1 DEF Removing, Unstarted, Uncreated, Begun, Sound
    <2> QED
      BY <2>a, <2>b, <2>c, <2>d, <2>e, <2>f, <2>g
  <1> QED
    BY <1>2, <1>5, <1>6, <1>7, <1>8, <1>9, <1>10 DEF BeginLoaded, Steps

\* A step that fails is counted, and one of a rollback remembered.
LEMMA FaultResult ==
    ASSUME TypeOK, NEW c \in Callers, FaultIn(c) \/ UNCHANGED <<faults, leaky>>
    PROVE  /\ faults' \in 0..MaxFaults
           /\ leaky' \in BOOLEAN
           /\ leaky => leaky'
           /\ ~call[c].failed => (leaky' <=> leaky)
           /\ FaultIn(c) /\ call[c].failed => leaky'
  <1>1. faults' \in 0..MaxFaults
    BY EngineAssumption DEF FaultIn, Fault, TypeOK
  <1>2. leaky \in BOOLEAN /\ call[c].failed \in BOOLEAN
    BY DEF TypeOK, Calls
  <1>3. CASE UNCHANGED <<faults, leaky>> /\ ~FaultIn(c)
    BY <1>1, <1>2, <1>3
  <1>4. CASE FaultIn(c)
    <2>1. leaky' = (leaky \/ call[c].failed)
      BY <1>4 DEF FaultIn
    <2>2. leaky' <=> leaky \/ call[c].failed
      BY <1>2, <2>1
    <2>3. leaky' \in BOOLEAN
      BY <1>2, <2>1
    <2> QED
      BY <1>1, <1>2, <2>2, <2>3
  <1> QED
    BY <1>3, <1>4

\* adapter.RestartSession.
LEMMA RuntimeRestartStep ==
    ASSUME NEW c, Callers = {c}, Inv(c), RuntimeRestart(c)
    PROVE  Inv(c)'
  <1> USE EngineAssumption DEF Inv, marks
  <1>1. /\ c \in Callers /\ call[c].pc = "rtRestart" /\ ~call[c].failed
        /\ call[c].op = "restart" /\ sess = "active"
        /\ UNCHANGED <<manifest, git, journal, sess, mu, updater, up, crashes, tampers, tampered,
                       revived, leaky, removed, marks>>
    BY DEF RuntimeRestart, At, Flow, Stopped, TypeOK, Calls, Ops, disk, history
  <1>2. CASE provider' = TRUE /\ Goto(c, "update") /\ UNCHANGED faults
    <2>1. Moved(c, "update")
      BY <1>1, <1>2, GotoMoves DEF Steps
    <2>a. TypeOK'
      BY <1>1, <1>2, <2>1 DEF TypeOK, Moved, Kept
    <2>b. Flow(c)'
      BY <1>1, <1>2, <2>1 DEF Flow, Moved, Kept
    <2>c. Locks(c)'
      BY <1>1, <1>2, <2>1 DEF Locks, Moved, Kept
    <2>d. Written(c)'
      BY <1>1, <1>2, <2>1 DEF Written, Moved, Kept
    <2>e. Stopped(c)'
      BY <1>1, <1>2, <2>1 DEF Stopped, Moved, Kept
    <2>f. Journaled(c)' /\ Trees(c)'
      BY <1>1, <1>2, <2>1 DEF Journaled, Trees, Moved, Kept
    <2>g. Removing(c)' /\ Unstarted(c)' /\ Uncreated(c)'
      BY <1>1, <1>2, <2>1 DEF Removing, Unstarted, Uncreated, Moved, Kept
    <2> QED
      BY <2>a, <2>b, <2>c, <2>d, <2>e, <2>f, <2>g
  <1>3. CASE provider' = FALSE /\ Fault /\ Return(c)
    <2>1. Ended(c)
      BY <1>1, <1>3, ReturnEnds
    <2>2. faults' \in 0..MaxFaults
      BY <1>3 DEF Fault, TypeOK
    <2>3. leaky' \in BOOLEAN /\ (leaky' <=> leaky)
      BY <1>1 DEF TypeOK
    <2>4. provider' \in BOOLEAN /\ ~provider'
      BY <1>3
    <2>5. {starting', closing', orphaned'} \subseteq BOOLEAN /\ (orphaned' <=> orphaned)
      BY <1>1 DEF TypeOK
    <2> QED
      BY <1>1, <2>1, <2>2, <2>3, <2>4, <2>5, EndStep
  <1> QED
    BY <1>2, <1>3 DEF RuntimeRestart

\* runtime.Close, in CloseSession and Remove.
LEMMA RuntimeCloseStep ==
    ASSUME NEW c, Callers = {c}, Inv(c), RuntimeClose(c), ~call[c].failed
    PROVE  Inv(c)'
  <1> USE EngineAssumption DEF Inv, marks
  <1>1. /\ c \in Callers /\ call[c].pc = "rtClose" /\ call[c].op \in {"close", "remove"}
        /\ closing' = TRUE
        /\ UNCHANGED <<manifest, git, mu, updater, up, crashes, tampers, tampered, revived, removed,
                       starting, orphaned>>
    BY DEF RuntimeClose, At, Flow, TypeOK, Calls, Ops
  <1>2. \/ /\ Goto(c, "update") /\ sess' = "closed"
           /\ provider' = FALSE \/ (sess = "closed" /\ provider' = provider)
           /\ journal' \in {journal, "closed"} /\ UNCHANGED <<faults, leaky>>
        \/ /\ Return(c) /\ journal' = journal
           /\ \/ sess' = sess /\ provider' = provider
              \/ sess' = "closed" /\ sess = "active" /\ provider' = FALSE
           /\ FaultIn(c) \/ UNCHANGED <<faults, leaky>>
    BY DEF RuntimeClose
  <1>3. CASE /\ Goto(c, "update") /\ sess' = "closed"
             /\ provider' = FALSE \/ (sess = "closed" /\ provider' = provider)
             /\ journal' \in {journal, "closed"} /\ UNCHANGED <<faults, leaky>>
    <2>1. Moved(c, "update")
      BY <1>1, <1>3, GotoMoves DEF Steps
    <2>2. ~provider' /\ provider' \in BOOLEAN
      <3>1. CASE provider' = FALSE
        BY <3>1
      <3>2. CASE sess = "closed" /\ provider' = provider
        <4>1. provider \in BOOLEAN /\ ~provider
          BY <3>2 DEF Stopped, TypeOK
        <4> QED
          BY <3>2, <4>1
      <3> QED
        BY <1>3, <3>1, <3>2
    <2>a. TypeOK'
      BY <1>1, <1>3, <2>1, <2>2 DEF TypeOK, Moved, Kept
    <2>b. Flow(c)'
      BY <1>1, <1>3, <2>1, <2>2 DEF Flow, Moved, Kept
    <2>c. Locks(c)'
      BY <1>1, <1>3, <2>1, <2>2 DEF Locks, Moved, Kept
    <2>d. Written(c)'
      BY <1>1, <1>3, <2>1, <2>2 DEF Written, Moved, Kept
    <2>e. Stopped(c)'
      BY <1>1, <1>3, <2>1, <2>2 DEF Stopped, Moved, Kept
    <2>f. Journaled(c)' /\ Trees(c)'
      BY <1>1, <1>3, <2>1, <2>2 DEF Journaled, Trees, Moved, Kept
    <2>g. Removing(c)' /\ Unstarted(c)' /\ Uncreated(c)'
      BY <1>1, <1>3, <2>1, <2>2 DEF Removing, Unstarted, Uncreated, Moved, Kept
    <2> QED
      BY <2>a, <2>b, <2>c, <2>d, <2>e, <2>f, <2>g
  <1>4. CASE /\ Return(c) /\ journal' = journal
             /\ \/ sess' = sess /\ provider' = provider
                \/ sess' = "closed" /\ sess = "active" /\ provider' = FALSE
             /\ FaultIn(c) \/ UNCHANGED <<faults, leaky>>
    <2>1. Ended(c)
      BY <1>1, <1>4, ReturnEnds
    <2>2. faults' \in 0..MaxFaults /\ leaky' \in BOOLEAN /\ (leaky' <=> leaky)
      BY <1>1, <1>4, FaultResult
    <2>3. \/ sess' = sess /\ (provider' => provider)
          \/ sess' = "closed" /\ sess = "active" /\ ~provider'
      BY <1>4
    <2>4. provider' \in BOOLEAN
      <3>1. provider \in BOOLEAN
        BY DEF TypeOK
      <3>2. CASE provider' = provider
        BY <3>1, <3>2
      <3>3. CASE provider' = FALSE
        BY <3>3
      <3> QED
        BY <1>4, <3>2, <3>3
    <2>5. {starting', closing', orphaned'} \subseteq BOOLEAN /\ (orphaned' <=> orphaned)
      BY <1>1 DEF TypeOK
    <2> QED
      BY <1>1, <1>4, <2>1, <2>2, <2>3, <2>4, <2>5, EndStep
  <1> QED
    BY <1>2, <1>3, <1>4

\* runtime.Close, in Start's rollback, which goes on whatever it answers.
LEMMA RollbackCloseStep ==
    ASSUME NEW c, Callers = {c}, Inv(c), RuntimeClose(c), call[c].failed
    PROVE  Inv(c)'
  <1> USE EngineAssumption DEF Inv, marks
  <1>1. /\ c \in Callers /\ call[c].pc = "rtClose" /\ call[c].op = "start"
        /\ closing' = TRUE
        /\ UNCHANGED <<manifest, git, mu, updater, up, crashes, tampers, tampered, revived, removed,
                       starting, orphaned>>
    BY DEF RuntimeClose, At, Flow
  <1>2. Moved(c, "forget")
    <2>1. Goto(c, "forget")
      BY DEF RuntimeClose
    <2> QED
      BY <1>1, <2>1, GotoMoves DEF Steps
  <1>3. /\ \/ sess' = sess /\ provider' = provider
           \/ sess' = "closed" /\ provider' = FALSE
        /\ journal' \in {journal, "closed"}
    BY DEF RuntimeClose
  <1>4. /\ faults' \in 0..MaxFaults /\ leaky' \in BOOLEAN /\ (~leaky' => ~leaky /\ sess' # "active")
    <2>1. FaultIn(c) \/ (UNCHANGED <<faults, leaky>> /\ sess' # "active")
      <3>1. None # "active" /\ "closed" # "active"
        OBVIOUS
      <3> QED
        BY <3>1 DEF RuntimeClose
    <2>2. FaultIn(c) \/ UNCHANGED <<faults, leaky>>
      BY <2>1
    <2> QED
      BY <1>1, <2>1, <2>2, FaultResult
  <1>5. provider' \in BOOLEAN /\ (provider' => sess' = "active")
    <2>1. provider \in BOOLEAN /\ (provider => sess = "active")
      BY DEF TypeOK, Stopped
    <2>2. CASE sess' = sess /\ provider' = provider
      BY <2>1, <2>2
    <2>3. CASE provider' = FALSE
      BY <2>3
    <2> QED
      BY <1>3, <2>2, <2>3
  <1>a. TypeOK'
    BY <1>1, <1>2, <1>3, <1>4, <1>5 DEF TypeOK, Moved, Kept
  <1>b. Flow(c)'
    BY <1>1, <1>2, <1>3, <1>4, <1>5 DEF Flow, Moved, Kept
  <1>c. Locks(c)'
    BY <1>1, <1>2, <1>3, <1>4, <1>5 DEF Locks, Moved, Kept
  <1>d. Written(c)'
    BY <1>1, <1>2, <1>3, <1>4, <1>5 DEF Written, Moved, Kept
  <1>e. Stopped(c)'
    BY <1>1, <1>2, <1>3, <1>4, <1>5 DEF Stopped, Moved, Kept
  <1>f. Journaled(c)' /\ Trees(c)'
    BY <1>1, <1>2, <1>3, <1>4, <1>5 DEF Journaled, Trees, Moved, Kept
  <1>g. Removing(c)' /\ Unstarted(c)' /\ Uncreated(c)'
    BY <1>1, <1>2, <1>3, <1>4, <1>5 DEF Removing, Unstarted, Uncreated, Moved, Kept
  <1> QED
    BY <1>a, <1>b, <1>c, <1>d, <1>e, <1>f, <1>g

\* updateSession's load.
LEMMA UpdateLoadStep ==
    ASSUME NEW c, Callers = {c}, Inv(c), UpdateLoad(c)
    PROVE  Inv(c)'
  <1> USE EngineAssumption DEF Inv, marks
  <1>1. /\ c \in Callers /\ call[c].pc = "update" /\ ~call[c].failed /\ mu = None
        /\ call[c].op \in {"start", "resume", "repair", "restart", "close", "remove"}
        /\ UNCHANGED <<manifest, git, journal, sess, provider, updater, up, faults, crashes, tampers,
                       tampered, revived, leaky, removed, closing, orphaned>>
        /\ starting' = FALSE
    BY DEF UpdateLoad, At, Flow, TypeOK, Calls, Ops, disk, budget, history
  <1>2. manifest # None /\ manifest \in Manifests
    BY <1>1 DEF Written, Flow, TypeOK
  <1> DEFINE e == [manifest EXCEPT !.closed = @ \/ call[c].op \in {"close", "remove"}]
  <1>3. /\ e \in Manifests /\ e.mode = manifest.mode
        /\ e.closed <=> (manifest.closed \/ call[c].op \in {"close", "remove"})
        /\ e.closed = (manifest.closed \/ call[c].op \in {"close", "remove"})
    BY <1>2 DEF Manifests
  <1>4. call[c].op = "start" => e = manifest
    <2>1. ASSUME call[c].op = "start" PROVE e = manifest
      <3>1. manifest.closed = FALSE
        BY <1>1, <1>2, <2>1 DEF Written, Flow, Manifests
      <3> QED
        BY <1>2, <2>1, <3>1 DEF Manifests
    <2> QED
      BY <2>1
  <1>5. mu' = c /\ Loaded(c, "updateSave", e)
    BY <1>1, <1>2, <1>3, EntryLoaded DEF UpdateLoad, Steps
  <1> HIDE DEF e
  <1>a. TypeOK'
    BY <1>1, <1>2, <1>3, <1>4, <1>5 DEF TypeOK, Loaded
  <1>b. Flow(c)'
    BY <1>1, <1>2, <1>3, <1>4, <1>5 DEF Flow, Loaded, Written
  <1>c. Locks(c)'
    BY <1>1, <1>2, <1>3, <1>4, <1>5 DEF Locks, Loaded
  <1>d. Written(c)'
    BY <1>1, <1>2, <1>3, <1>4, <1>5 DEF Written, Loaded
  <1>e. Stopped(c)'
    BY <1>1, <1>2, <1>3, <1>4, <1>5 DEF Stopped, Loaded
  <1>f. Journaled(c)' /\ Trees(c)'
    BY <1>1, <1>2, <1>3, <1>4, <1>5 DEF Journaled, Trees, Loaded
  <1>g. Removing(c)'
    BY <1>1, <1>2, <1>3, <1>4, <1>5 DEF Removing, Loaded
  <1>h. Unstarted(c)'
    BY <1>1, <1>2, <1>3, <1>4, <1>5 DEF Unstarted, Loaded
  <1>i. Uncreated(c)'
    BY <1>1, <1>2, <1>3, <1>4, <1>5 DEF Uncreated, Loaded, Written
  <1> QED
    BY <1>a, <1>b, <1>c, <1>d, <1>e, <1>f, <1>g, <1>h, <1>i

\* And its write.
LEMMA UpdateSaveStep ==
    ASSUME NEW c, Callers = {c}, Inv(c), UpdateSave(c)
    PROVE  Inv(c)'
  <1> USE EngineAssumption DEF Inv, marks
  <1>1. /\ c \in Callers /\ call[c].pc = "updateSave" /\ ~call[c].failed /\ mu = c /\ mu' = None
        /\ call[c].op \in {"start", "resume", "repair", "restart", "close", "remove"}
        /\ UNCHANGED <<git, journal, sess, provider, updater, up, crashes, tampers,
                       tampered, revived, leaky, removed, marks>>
    BY DEF UpdateSave, At, Flow, Locks, TypeOK, Calls, Ops, history
  <1>2. /\ manifest # None /\ manifest \in Manifests
        /\ call[c].entry \in Manifests /\ call[c].entry # None
        /\ call[c].entry.mode = manifest.mode
        /\ call[c].entry.closed <=> (manifest.closed \/ call[c].op \in {"close", "remove"})
    BY <1>1 DEF Flow, Locks, TypeOK
  <1>3. \A u \in Updaters : mu # u /\ updater[u].pc # "save"
    BY <1>1 DEF Locks
  <1>4. faults' \in 0..MaxFaults
    BY DEF UpdateSave, Fault, TypeOK
  <1>5. \/ manifest' = call[c].entry /\ call[c].op = "remove" /\ Moved(c, "reload")
        \/ manifest' = call[c].entry /\ call[c].op # "remove" /\ Ended(c)
        \/ manifest' = manifest /\ Ended(c)
    BY <1>1, GotoMoves, ReturnEnds DEF UpdateSave, Steps
  <1>6. /\ manifest' # None /\ manifest' \in Manifests /\ manifest'.mode = manifest.mode
        /\ manifest'.closed => manifest.closed \/ call[c].op \in {"close", "remove"}
        /\ manifest.closed => manifest'.closed
        /\ call'[c].op # "start"
    BY <1>2, <1>5 DEF Moved, Kept, Ended
  <1>7. CASE Moved(c, "reload") /\ call[c].op = "remove" /\ manifest' = call[c].entry
    <2>a. TypeOK'
      BY <1>1, <1>2, <1>3, <1>4, <1>6, <1>7 DEF TypeOK, Moved, Kept
    <2>b. Flow(c)'
      BY <1>1, <1>2, <1>3, <1>4, <1>6, <1>7 DEF Flow, Moved, Kept
    <2>c. Locks(c)'
      BY <1>1, <1>2, <1>3, <1>4, <1>6, <1>7 DEF Locks, Moved, Kept
    <2>d. Written(c)'
      BY <1>1, <1>2, <1>3, <1>4, <1>6, <1>7 DEF Written, Moved, Kept
    <2>e. Stopped(c)'
      BY <1>1, <1>2, <1>3, <1>4, <1>6, <1>7 DEF Stopped, Moved, Kept, Flow
    <2>f. Journaled(c)' /\ Trees(c)'
      BY <1>1, <1>2, <1>3, <1>4, <1>6, <1>7 DEF Journaled, Trees, Moved, Kept
    <2>g. Removing(c)'
      BY <1>1, <1>2, <1>3, <1>4, <1>6, <1>7 DEF Removing, Moved, Kept
    <2>h. Unstarted(c)'
      BY <1>1, <1>2, <1>3, <1>4, <1>6, <1>7 DEF Unstarted, Moved, Kept, Stopped
    <2>i. Uncreated(c)'
      BY <1>1, <1>2, <1>3, <1>4, <1>6, <1>7 DEF Uncreated, Moved, Kept
    <2> QED
      BY <2>a, <2>b, <2>c, <2>d, <2>e, <2>f, <2>g, <2>h, <2>i
  <1>8. CASE Ended(c)
    <2>a. TypeOK'
      BY <1>1, <1>2, <1>3, <1>4, <1>6, <1>8 DEF TypeOK, Ended
    <2>b. Flow(c)'
      BY <1>1, <1>2, <1>3, <1>4, <1>6, <1>8 DEF Flow, Ended
    <2>c. Locks(c)'
      BY <1>1, <1>2, <1>3, <1>4, <1>6, <1>8 DEF Locks, Ended
    <2>d. Written(c)'
      BY <1>1, <1>2, <1>3, <1>4, <1>6, <1>8 DEF Written, Ended
    <2>e. Stopped(c)'
      BY <1>1, <1>2, <1>3, <1>4, <1>6, <1>8 DEF Stopped, Ended, Flow
    <2>f. Journaled(c)' /\ Trees(c)'
      BY <1>1, <1>2, <1>3, <1>4, <1>6, <1>8 DEF Journaled, Trees, Ended
    <2>g. Removing(c)'
      BY <1>1, <1>2, <1>3, <1>4, <1>6, <1>8 DEF Removing, Ended
    <2>h. Unstarted(c)'
      BY <1>1, <1>2, <1>3, <1>4, <1>6, <1>8 DEF Unstarted, Ended, Stopped, Written, Flow
    <2>i. Uncreated(c)'
      BY <1>1, <1>2, <1>3, <1>4, <1>6, <1>8 DEF Uncreated, Ended, Written
    <2> QED
      BY <2>a, <2>b, <2>c, <2>d, <2>e, <2>f, <2>g, <2>h, <2>i
  <1> QED
    BY <1>5, <1>7, <1>8

\* Remove's second load.
LEMMA ReloadStep ==
    ASSUME NEW c, Callers = {c}, Inv(c), Reload(c)
    PROVE  Inv(c)'
  <1> USE EngineAssumption DEF Inv, marks
  <1>1. /\ c \in Callers /\ call[c].pc = "reload" /\ ~call[c].failed /\ call[c].op = "remove"
        /\ UNCHANGED <<manifest, git, journal, sess, provider, mu, updater, up, faults, crashes,
                       tampers, tampered, revived, leaky, removed, marks>>
    BY DEF Reload, At, Flow, TypeOK, Calls, Ops, disk, budget, history
  <1>2. manifest # None /\ manifest \in Manifests /\ manifest.mode \in {"managed", "existing"}
    BY <1>1, SMTT(60) DEF Written, TypeOK, Manifests, Modes
  <1>3. \/ manifest.mode = "managed" /\ Loaded(c, "rmTree", manifest)
        \/ manifest.mode = "existing" /\ Loaded(c, "unlink", manifest)
    BY <1>1, <1>2, EntryLoaded DEF Reload, Steps
  <1>a. TypeOK'
    BY <1>1, <1>2, <1>3 DEF TypeOK, Loaded
  <1>b. Flow(c)'
    BY <1>1, <1>2, <1>3 DEF Flow, Loaded
  <1>c. Locks(c)'
    BY <1>1, <1>2, <1>3 DEF Locks, Loaded
  <1>d. Written(c)'
    BY <1>1, <1>2, <1>3 DEF Written, Loaded
  <1>e. Stopped(c)'
    BY <1>1, <1>2, <1>3 DEF Stopped, Loaded
  <1>f. Journaled(c)' /\ Trees(c)'
    BY <1>1, <1>2, <1>3 DEF Journaled, Trees, Loaded
  <1>g. Removing(c)' /\ Unstarted(c)' /\ Uncreated(c)'
    BY <1>1, <1>2, <1>3 DEF Removing, Unstarted, Uncreated, Loaded
  <1> QED
    BY <1>a, <1>b, <1>c, <1>d, <1>e, <1>f, <1>g

\* The end of worktrees.Remove: with the workspace gone, or with something
\* left behind that is remembered.
LEMMA RemoveEndStep ==
    ASSUME NEW c, Callers = {c}, Inv(c), call[c].pc \in {"rmTree", "rmBranch"},
           call[c].op = "remove" \/ call[c].failed, Ended(c), Sound(git'),
           faults' \in 0..MaxFaults, leaky' \in BOOLEAN,
           leaky' \/ (git' = CleanGit /\ sess = None /\ ~leaky),
           UNCHANGED <<manifest, sess, journal, provider, mu, updater, up, crashes, tampers,
                       tampered, revived, removed, marks>>
    PROVE  Inv(c)'
  <1> USE EngineAssumption DEF Inv, marks
  <1>a. TypeOK'
    BY DEF TypeOK, Ended, Sound
  <1>b. Flow(c)'
    BY DEF Flow, Ended, Sound
  <1>c. Locks(c)'
    BY DEF Locks, Ended, Sound
  <1>d. Written(c)'
    BY DEF Written, Ended, Sound
  <1>e. Stopped(c)'
    BY DEF Stopped, Ended, Sound
  <1>f. Journaled(c)'
    BY DEF Journaled, Ended, Sound
  <1>g. Trees(c)'
    BY DEF Trees, Ended, Sound, Written, Flow
  <1>h. Removing(c)'
    BY DEF Removing, Ended, Sound, Flow
  <1>i. Unstarted(c)'
    BY DEF Unstarted, Ended, Sound
  <1>j. Uncreated(c)'
    BY DEF Uncreated, Ended, Sound
  <1> QED
    BY <1>a, <1>b, <1>c, <1>d, <1>e, <1>f, <1>g, <1>h, <1>i, <1>j

\* A step of it that fails.
LEMMA RemoveFault ==
    ASSUME NEW c, Callers = {c}, Inv(c), call[c].pc \in {"rmTree", "rmBranch"},
           call[c].op = "remove" \/ call[c].failed, FaultIn(c), Return(c),
           UNCHANGED <<manifest, git, sess, journal, provider, mu, updater, up, crashes, tampers,
                       tampered, revived, removed, marks>>
    PROVE  Inv(c)'
  <1> USE EngineAssumption DEF Inv, marks
  <1>1. Ended(c)
    BY ReturnEnds
  <1>2. /\ faults' \in 0..MaxFaults /\ leaky' \in BOOLEAN
        /\ ~call[c].failed => (leaky' <=> leaky)
        /\ call[c].failed => leaky'
    BY FaultResult
  <1>3. CASE call[c].failed
    BY <1>1, <1>2, <1>3, GitSound, RemoveEndStep
  <1>4. CASE ~call[c].failed
    <2>1. /\ provider' \in BOOLEAN /\ (provider' => provider)
          /\ {starting', closing', orphaned'} \subseteq BOOLEAN /\ (orphaned' <=> orphaned)
      BY DEF TypeOK
    <2> QED
      BY <1>1, <1>2, <1>4, <2>1, EndStep
  <1> QED
    BY <1>3, <1>4

\* worktrees.Remove, up to the branch.
LEMMA RmTreeStep ==
    ASSUME NEW c, Callers = {c}, Inv(c), RmTree(c)
    PROVE  Inv(c)'
  <1> USE EngineAssumption DEF Inv, marks
  <1> DEFINE r == RemoveTree(git, call[c].live)
  <1>1. /\ c \in Callers /\ call[c].pc = "rmTree" /\ call[c].live \in BOOLEAN
        /\ call[c].op = "remove" \/ call[c].failed
        /\ call[c].op = "remove" \/ call[c].op = "start"
        /\ UNCHANGED <<manifest, sess, journal, provider, mu, updater, up, crashes, tampers,
                       tampered, revived, removed, marks>>
    BY DEF RmTree, At, Flow, TypeOK, Calls, Ops
  <1>2. /\ Sound(r.git)
        /\ call[c].live => r.ok /\ ~r.git.dir /\ ~r.git.reg /\ r.git.head = "none"
        /\ git = CleanGit => r.git = CleanGit
    BY <1>1, GitSound, TreeResult
  <1>3. \/ git' = r.git /\ r.ok /\ Goto(c, "rmBranch") /\ UNCHANGED <<faults, leaky>>
        \/ git' = r.git /\ ~r.ok /\ Return(c) /\ UNCHANGED <<faults, leaky>>
        \/ FaultIn(c) /\ Return(c) /\ UNCHANGED git
    BY DEF RmTree
  <1> HIDE DEF r
  <1>4. CASE git' = r.git /\ r.ok /\ Goto(c, "rmBranch") /\ UNCHANGED <<faults, leaky>>
    <2>1. Moved(c, "rmBranch")
      BY <1>1, <1>4, GotoMoves DEF Steps
    <2>2. /\ Sound(git') /\ (call[c].live => ~git'.dir /\ ~git'.reg /\ git'.head = "none")
          /\ git = CleanGit => git' = CleanGit
      BY <1>2, <1>4
    <2>3. UNCHANGED <<faults, leaky>>
      BY <1>4
    <2>a. TypeOK'
      BY <1>1, <2>1, <2>2, <2>3 DEF TypeOK, Moved, Kept, Sound
    <2>b. Flow(c)'
      BY <1>1, <2>1, <2>2, <2>3 DEF Flow, Moved, Kept, Sound
    <2>c. Locks(c)'
      BY <1>1, <2>1, <2>2, <2>3 DEF Locks, Moved, Kept, Sound
    <2>d. Written(c)'
      BY <1>1, <2>1, <2>2, <2>3 DEF Written, Moved, Kept, Sound
    <2>e. Stopped(c)'
      BY <1>1, <2>1, <2>2, <2>3 DEF Stopped, Moved, Kept, Sound
    <2>f. Journaled(c)'
      BY <1>1, <2>1, <2>2, <2>3 DEF Journaled, Moved, Kept, Sound
    <2>g. Trees(c)'
      BY <1>1, <2>1, <2>2, <2>3 DEF Trees, Moved, Kept, Sound, Written, Flow
    <2>h. Removing(c)'
      BY <1>1, <2>1, <2>2, <2>3 DEF Removing, Moved, Kept, Sound
    <2>i. Unstarted(c)'
      BY <1>1, <2>1, <2>2, <2>3 DEF Unstarted, Moved, Kept, Sound
    <2>j. Uncreated(c)'
      BY <1>1, <2>1, <2>2, <2>3 DEF Uncreated, Moved, Kept, Sound
    <2> QED
      BY <2>a, <2>b, <2>c, <2>d, <2>e, <2>f, <2>g, <2>h, <2>i, <2>j
  <1>5. CASE git' = r.git /\ ~r.ok /\ Return(c) /\ UNCHANGED <<faults, leaky>>
    <2>1. Ended(c)
      BY <1>1, <1>5, ReturnEnds
    <2>2. leaky'
      BY <1>1, <1>2, <1>5 DEF Unstarted
    <2>3. leaky' \in BOOLEAN /\ faults' \in 0..MaxFaults
      BY <1>1, <1>5, FaultResult
    <2> QED
      BY <1>1, <1>2, <1>5, <2>1, <2>2, <2>3, RemoveEndStep
  <1>6. CASE FaultIn(c) /\ Return(c) /\ UNCHANGED git
    BY <1>1, <1>6, RemoveFault
  <1> QED
    BY <1>3, <1>4, <1>5, <1>6

\* worktrees.Remove, the branch.
LEMMA RmBranchStep ==
    ASSUME NEW c, Callers = {c}, Inv(c), RmBranch(c)
    PROVE  Inv(c)'
  <1> USE EngineAssumption DEF Inv, marks
  <1> DEFINE r == DeleteBranch(git, call[c].live)
  <1>1. /\ c \in Callers /\ call[c].pc = "rmBranch" /\ call[c].live \in BOOLEAN
        /\ call[c].op = "remove" \/ call[c].failed
        /\ call[c].op = "remove" \/ call[c].op = "start"
        /\ UNCHANGED <<manifest, sess, journal, provider, mu, updater, up, crashes, tampers,
                       tampered, revived, removed, marks>>
    BY DEF RmBranch, At, Flow, TypeOK, Calls, Ops
  <1>2. /\ Sound(r.git)
        /\ call[c].live => r.ok /\ r.git = CleanGit
        /\ git = CleanGit => r.git = CleanGit
    <2>1. /\ Sound(r.git)
          /\ call[c].live /\ ~git.dir /\ ~git.reg => r.ok /\ r.git = CleanGit
          /\ git = CleanGit => r.git = CleanGit
      BY <1>1, GitSound, BranchResult
    <2>2. call[c].live => ~git.dir /\ ~git.reg
      BY <1>1 DEF Removing
    <2> HIDE DEF r
    <2> QED
      BY <2>1, <2>2
  <1>3. \/ /\ git' = r.git /\ r.ok /\ ~call[c].failed /\ Goto(c, "unlink")
           /\ UNCHANGED <<faults, leaky>>
        \/ /\ git' = r.git /\ (~r.ok \/ call[c].failed) /\ Return(c)
           /\ UNCHANGED <<faults, leaky>>
        \/ FaultIn(c) /\ Return(c) /\ UNCHANGED git
    BY DEF RmBranch
  <1> HIDE DEF r
  <1>4. CASE /\ git' = r.git /\ r.ok /\ ~call[c].failed /\ Goto(c, "unlink")
             /\ UNCHANGED <<faults, leaky>>
    <2>1. Moved(c, "unlink") /\ call[c].op = "remove" /\ ~call[c].failed
      BY <1>1, <1>4, GotoMoves DEF Steps
    <2>2. /\ Sound(git') /\ (call[c].live => git' = CleanGit)
          /\ git = CleanGit => git' = CleanGit
      BY <1>2, <1>4
    <2>3. UNCHANGED <<faults, leaky>>
      BY <1>4
    <2>a. TypeOK'
      BY <1>1, <2>1, <2>2, <2>3 DEF TypeOK, Moved, Kept, Sound
    <2>b. Flow(c)'
      BY <1>1, <2>1, <2>2, <2>3 DEF Flow, Moved, Kept, Sound
    <2>c. Locks(c)'
      BY <1>1, <2>1, <2>2, <2>3 DEF Locks, Moved, Kept, Sound
    <2>d. Written(c)'
      BY <1>1, <2>1, <2>2, <2>3 DEF Written, Moved, Kept, Sound
    <2>e. Stopped(c)'
      BY <1>1, <2>1, <2>2, <2>3 DEF Stopped, Moved, Kept, Sound
    <2>f. Journaled(c)'
      BY <1>1, <2>1, <2>2, <2>3 DEF Journaled, Moved, Kept, Sound
    <2>g. Trees(c)'
      BY <1>1, <2>1, <2>2, <2>3 DEF Trees, Moved, Kept, Sound, Written, Flow
    <2>h. Removing(c)'
      BY <1>1, <2>1, <2>2, <2>3 DEF Removing, Moved, Kept, Sound
    <2>i. Unstarted(c)'
      BY <1>1, <2>1, <2>2, <2>3 DEF Unstarted, Moved, Kept, Sound
    <2>j. Uncreated(c)'
      BY <1>1, <2>1, <2>2, <2>3 DEF Uncreated, Moved, Kept, Sound
    <2> QED
      BY <2>a, <2>b, <2>c, <2>d, <2>e, <2>f, <2>g, <2>h, <2>i, <2>j
  <1>5. CASE /\ git' = r.git /\ (~r.ok \/ call[c].failed) /\ Return(c)
             /\ UNCHANGED <<faults, leaky>>
    <2>1. Ended(c)
      BY <1>1, <1>5, ReturnEnds
    <2>2. leaky' \/ (git' = CleanGit /\ sess = None /\ ~leaky)
      BY <1>1, <1>2, <1>5 DEF Unstarted
    <2>3. leaky' \in BOOLEAN /\ faults' \in 0..MaxFaults
      BY <1>1, <1>5, FaultResult
    <2> QED
      BY <1>1, <1>2, <1>5, <2>1, <2>2, <2>3, RemoveEndStep
  <1>6. CASE FaultIn(c) /\ Return(c) /\ UNCHANGED git
    BY <1>1, <1>6, RemoveFault
  <1> QED
    BY <1>3, <1>4, <1>5, <1>6

\* os.Remove of the manifest.
LEMMA UnlinkStep ==
    ASSUME NEW c, Callers = {c}, Inv(c), Unlink(c)
    PROVE  Inv(c)'
  <1> USE EngineAssumption DEF Inv, marks
  <1>1. /\ c \in Callers /\ call[c].pc = "unlink" /\ call[c].live \in BOOLEAN
        /\ (call[c].op = "remove" /\ ~call[c].failed) \/ (call[c].op = "start" /\ call[c].failed)
        /\ call[c].entry \in Manifests /\ call[c].entry.mode \in {"managed", "existing"}
        /\ UNCHANGED <<git, sess, journal, provider, mu, updater, up, crashes, tampers,
                       tampered, revived, removed, starting, closing>>
    BY DEF Unlink, At, Flow, TypeOK, Calls, Ops, Manifests, Modes
  <1>u. \/ manifest' = None /\ UNCHANGED <<faults, leaky, orphaned>>
        \/ /\ FaultIn(c) /\ manifest' = manifest
           /\ orphaned' = (orphaned \/ call[c].failed)
    BY DEF Unlink
  <1>l. /\ faults' \in 0..MaxFaults /\ leaky' \in BOOLEAN /\ (leaky => leaky')
        /\ ~call[c].failed => (leaky' <=> leaky)
        /\ FaultIn(c) /\ call[c].failed => leaky'
    BY <1>1, <1>u, FaultResult
  <1>o. /\ {starting', closing', orphaned'} \subseteq BOOLEAN
        /\ ~call[c].failed => (orphaned' <=> orphaned)
        /\ call[c].failed => manifest' = None \/ (manifest' = manifest /\ orphaned' /\ leaky')
    <2>1. {starting, closing, orphaned, call[c].failed} \subseteq BOOLEAN
      BY <1>1 DEF TypeOK, Calls
    <2>2. CASE manifest' = None /\ UNCHANGED <<faults, leaky, orphaned>>
      BY <1>1, <2>1, <2>2
    <2>3. CASE FaultIn(c) /\ manifest' = manifest /\ orphaned' = (orphaned \/ call[c].failed)
      <3>1. orphaned' <=> (orphaned \/ call[c].failed)
        BY <2>3
      <3>2. orphaned' \in BOOLEAN
        BY <2>3
      <3> QED
        BY <1>1, <1>l, <2>1, <2>3, <3>1, <3>2
    <2> QED
      BY <1>u, <2>2, <2>3
  <1>5. CASE call[c].op = "remove" /\ ~call[c].failed /\ FaultIn(c) /\ manifest' = manifest /\ Return(c)
    <2>1. Ended(c)
      BY <1>1, <1>5, ReturnEnds
    <2>2. provider' \in BOOLEAN /\ (provider' => provider)
      BY <1>1 DEF TypeOK
    <2> QED
      BY <1>1, <1>5, <1>l, <1>o, <2>1, <2>2, EndStep
  <1>2. CASE /\ call[c].op = "remove" /\ ~call[c].failed /\ manifest' = None
             /\ Goto(c, "forget") /\ UNCHANGED <<faults, leaky, orphaned>>
    <2>1. Moved(c, "forget")
      BY <1>1, <1>2, GotoMoves DEF Steps
    <2>2. ~leaky /\ ~tampered => git = CleanGit
      <3>1. manifest = call[c].entry /\ manifest # None
        BY <1>1, <1>2 DEF Written
      <3>2. CASE call[c].entry.mode = "managed"
        BY <1>1, <1>2, <3>2 DEF Removing, Unstarted
      <3>3. CASE call[c].entry.mode = "existing"
        BY <1>1, <1>2, <3>1, <3>3 DEF Uncreated
      <3> QED
        BY <1>1, <3>2, <3>3
    <2>a. TypeOK'
      BY <1>1, <1>2, <2>1, <2>2 DEF TypeOK, Moved, Kept
    <2>b. Flow(c)'
      BY <1>1, <1>2, <2>1, <2>2 DEF Flow, Moved, Kept
    <2>c. Locks(c)'
      BY <1>1, <1>2, <2>1, <2>2 DEF Locks, Moved, Kept
    <2>d. Written(c)'
      BY <1>1, <1>2, <2>1, <2>2 DEF Written, Moved, Kept
    <2>e. Stopped(c)'
      BY <1>1, <1>2, <2>1, <2>2 DEF Stopped, Moved, Kept
    <2>f. Journaled(c)'
      BY <1>1, <1>2, <2>1, <2>2 DEF Journaled, Moved, Kept
    <2>g. Trees(c)'
      BY <1>1, <1>2, <2>1, <2>2 DEF Trees, Moved, Kept
    <2>h. Removing(c)'
      BY <1>1, <1>2, <2>1, <2>2 DEF Removing, Moved, Kept
    <2>i. Unstarted(c)'
      BY <1>1, <1>2, <2>1, <2>2 DEF Unstarted, Moved, Kept
    <2>j. Uncreated(c)'
      BY <1>1, <1>2, <2>1, <2>2 DEF Uncreated, Moved, Kept
    <2> QED
      BY <2>a, <2>b, <2>c, <2>d, <2>e, <2>f, <2>g, <2>h, <2>i, <2>j
  <1>3. CASE call[c].op = "start" /\ call[c].failed /\ call[c].entry.mode = "managed"
    <2>1. Moved(c, "rmTree")
      BY <1>1, <1>3, GotoMoves DEF Unlink, Steps
    <2>a. TypeOK'
      BY <1>1, <1>l, <1>o, <1>3, <2>1 DEF TypeOK, Moved, Kept
    <2>b. Flow(c)'
      BY <1>1, <1>l, <1>o, <1>3, <2>1 DEF Flow, Moved, Kept
    <2>c. Locks(c)'
      BY <1>1, <1>l, <1>o, <1>3, <2>1 DEF Locks, Moved, Kept
    <2>d. Written(c)'
      BY <1>1, <1>l, <1>o, <1>3, <2>1 DEF Written, Moved, Kept
    <2>e. Stopped(c)'
      BY <1>1, <1>l, <1>o, <1>3, <2>1 DEF Stopped, Moved, Kept
    <2>f. Journaled(c)'
      BY <1>1, <1>l, <1>o, <1>3, <2>1 DEF Journaled, Moved, Kept
    <2>g. Trees(c)'
      BY <1>1, <1>l, <1>o, <1>3, <2>1 DEF Trees, Moved, Kept
    <2>h. Removing(c)'
      BY <1>1, <1>l, <1>o, <1>3, <2>1 DEF Removing, Moved, Kept
    <2>i. Unstarted(c)'
      BY <1>1, <1>l, <1>o, <1>3, <2>1 DEF Unstarted, Moved, Kept
    <2>j. Uncreated(c)'
      BY <1>1, <1>l, <1>o, <1>3, <2>1 DEF Uncreated, Moved, Kept
    <2> QED
      BY <2>a, <2>b, <2>c, <2>d, <2>e, <2>f, <2>g, <2>h, <2>i, <2>j
  <1>4. CASE call[c].op = "start" /\ call[c].failed /\ call[c].entry.mode = "existing"
    <2>1. Ended(c)
      BY <1>1, <1>4, ReturnEnds DEF Unlink
    <2>2. ~leaky => sess = None
      BY <1>1, <1>4 DEF Unstarted
    <2>3. ~leaky /\ ~tampered => git = CleanGit
      BY <1>1, <1>4 DEF Uncreated
    <2>a. TypeOK'
      BY <1>1, <1>l, <1>o, <1>4, <2>1, <2>2, <2>3 DEF TypeOK, Ended
    <2>b. Flow(c)'
      BY <1>1, <1>l, <1>o, <1>4, <2>1, <2>2, <2>3 DEF Flow, Ended
    <2>c. Locks(c)'
      BY <1>1, <1>l, <1>o, <1>4, <2>1, <2>2, <2>3 DEF Locks, Ended
    <2>d. Written(c)'
      BY <1>1, <1>l, <1>o, <1>4, <2>1, <2>2, <2>3 DEF Written, Ended
    <2>e. Stopped(c)'
      BY <1>1, <1>l, <1>o, <1>4, <2>1, <2>2, <2>3 DEF Stopped, Ended
    <2>f. Journaled(c)'
      BY <1>1, <1>l, <1>o, <1>4, <2>1, <2>2, <2>3 DEF Journaled, Ended
    <2>g. Trees(c)'
      BY <1>1, <1>l, <1>o, <1>4, <2>1, <2>2, <2>3 DEF Trees, Ended
    <2>h. Removing(c)'
      BY <1>1, <1>l, <1>o, <1>4, <2>1, <2>2, <2>3 DEF Removing, Ended
    <2>i. Unstarted(c)'
      BY <1>1, <1>l, <1>o, <1>4, <2>1, <2>2, <2>3 DEF Unstarted, Ended
    <2>j. Uncreated(c)'
      BY <1>1, <1>l, <1>o, <1>4, <2>1, <2>2, <2>3 DEF Uncreated, Ended
    <2> QED
      BY <2>a, <2>b, <2>c, <2>d, <2>e, <2>f, <2>g, <2>h, <2>i, <2>j
  <1>6. ~call[c].failed => \/ manifest' = None /\ Goto(c, "forget") /\ UNCHANGED <<faults, leaky, orphaned>>
                           \/ FaultIn(c) /\ manifest' = manifest /\ Return(c)
    BY DEF Unlink
  <1> QED
    BY <1>1, <1>2, <1>3, <1>4, <1>5, <1>6

\* runtime.Forget.
LEMMA ForgetStep ==
    ASSUME NEW c, Callers = {c}, Inv(c), Forget(c)
    PROVE  Inv(c)'
  <1> USE EngineAssumption DEF Inv, marks
  <1>1. /\ c \in Callers /\ call[c].pc = "forget" /\ call[c].live \in BOOLEAN
        /\ (call[c].op = "remove" /\ ~call[c].failed) \/ (call[c].op = "start" /\ call[c].failed)
        /\ UNCHANGED <<manifest, git, journal, provider, mu, updater, up, faults, crashes, tampers,
                       tampered, revived, leaky, marks>>
    BY DEF Forget, At, Flow, TypeOK, Calls, Ops, disk, budget
  <1>2. /\ sess' \in {None, "active", "closed"}
        /\ sess' = "active" <=> sess = "active"
        /\ sess # "active" => sess' = None
    BY DEF Forget, TypeOK
  <1>3. CASE call[c].op = "start" /\ call[c].failed
    <2>1. Moved(c, "unlink") /\ removed' = removed
      BY <1>1, <1>3, GotoMoves DEF Forget, Steps
    <2>a. TypeOK'
      BY <1>1, <1>2, <1>3, <2>1 DEF TypeOK, Moved, Kept
    <2>b. Flow(c)'
      BY <1>1, <1>2, <1>3, <2>1 DEF Flow, Moved, Kept
    <2>c. Locks(c)'
      BY <1>1, <1>2, <1>3, <2>1 DEF Locks, Moved, Kept
    <2>d. Written(c)'
      BY <1>1, <1>2, <1>3, <2>1 DEF Written, Moved, Kept
    <2>e. Stopped(c)'
      BY <1>1, <1>2, <1>3, <2>1 DEF Stopped, Moved, Kept
    <2>f. Journaled(c)'
      BY <1>1, <1>2, <1>3, <2>1 DEF Journaled, Moved, Kept
    <2>g. Trees(c)'
      BY <1>1, <1>2, <1>3, <2>1 DEF Trees, Moved, Kept
    <2>h. Removing(c)'
      BY <1>1, <1>2, <1>3, <2>1 DEF Removing, Moved, Kept
    <2>i. Unstarted(c)'
      BY <1>1, <1>2, <1>3, <2>1 DEF Unstarted, Moved, Kept
    <2>j. Uncreated(c)'
      BY <1>1, <1>2, <1>3, <2>1 DEF Uncreated, Moved, Kept
    <2> QED
      BY <2>a, <2>b, <2>c, <2>d, <2>e, <2>f, <2>g, <2>h, <2>i, <2>j
  <1>4. CASE call[c].op = "remove" /\ ~call[c].failed
    <2>1. Ended(c)
      BY <1>1, <1>4, ReturnEnds DEF Forget
    <2>2. removed' = (sess # "active" /\ call[c].entry.mode = "managed" /\ call[c].live)
      BY <1>4 DEF Forget
    <2>3. removed' \in BOOLEAN
      BY <1>1, <2>2
    <2>4. removed' => sess # "active" /\ call[c].entry.mode = "managed" /\ call[c].live
      BY <2>2
    <2>a. TypeOK'
      BY <1>1, <1>2, <1>4, <2>1, <2>3, <2>4 DEF TypeOK, Ended
    <2>b. Flow(c)'
      BY <1>1, <1>2, <1>4, <2>1, <2>3, <2>4 DEF Flow, Ended
    <2>c. Locks(c)'
      BY <1>1, <1>2, <1>4, <2>1, <2>3, <2>4 DEF Locks, Ended
    <2>d. Written(c)'
      BY <1>1, <1>2, <1>4, <2>1, <2>3, <2>4 DEF Written, Ended
    <2>e. Stopped(c)'
      BY <1>1, <1>2, <1>4, <2>1, <2>3, <2>4 DEF Stopped, Ended
    <2>f. Journaled(c)'
      BY <1>1, <1>2, <1>4, <2>1, <2>3, <2>4 DEF Journaled, Ended
    <2>g. Trees(c)'
      BY <1>1, <1>2, <1>4, <2>1, <2>3, <2>4 DEF Trees, Ended
    <2>h. Removing(c)'
      BY <1>1, <1>2, <1>4, <2>1, <2>3, <2>4 DEF Removing, Ended, Written
    <2>i. Unstarted(c)'
      BY <1>1, <1>2, <1>4, <2>1, <2>3, <2>4 DEF Unstarted, Ended
    <2>j. Uncreated(c)'
      BY <1>1, <1>2, <1>4, <2>1, <2>3, <2>4 DEF Uncreated, Ended
    <2> QED
      BY <2>a, <2>b, <2>c, <2>d, <2>e, <2>f, <2>g, <2>h, <2>i, <2>j
  <1> QED
    BY <1>1, <1>3, <1>4

\* Another writer takes manifestMu and loads the manifest.
LEMMA UpdaterLoadStep ==
    ASSUME NEW c, Callers = {c}, Inv(c), NEW u \in Updaters, UpdaterLoad(u)
    PROVE  Inv(c)'
  <1> USE EngineAssumption DEF Inv, marks
  <1>1. /\ mu = None /\ mu' = u /\ u # c /\ updater[u].pc = "idle"
        /\ manifest # None /\ manifest \in Manifests
        /\ UNCHANGED <<manifest, git, journal, sess, provider, call, up, faults, crashes, tampers,
                       tampered, revived, leaky, removed, marks>>
    BY DEF UpdaterLoad, TypeOK, disk, budget, history
  <1> DEFINE n == [pc |-> "save", entry |-> manifest]
  <1>2. n \in [pc : {"idle", "save"}, entry : Manifests \cup {None}] /\ n.pc = "save" /\ n.entry = manifest
    BY <1>1
  <1>3. updater' = [updater EXCEPT ![u] = n]
    BY DEF UpdaterLoad
  <1> HIDE DEF n
  <1>4. /\ updater' \in [Updaters -> [pc : {"idle", "save"}, entry : Manifests \cup {None}]]
        /\ updater'[u].pc = "save" /\ updater'[u].entry = manifest
        /\ \A v \in Updaters : v # u => updater'[v] = updater[v]
    BY <1>2, <1>3 DEF TypeOK
  <1>a. TypeOK'
    BY <1>1, <1>4 DEF TypeOK
  <1>b. Flow(c)'
    BY <1>1, <1>4 DEF Flow
  <1>c. Locks(c)'
    BY <1>1, <1>4 DEF Locks
  <1>d. Written(c)'
    BY <1>1, <1>4 DEF Written
  <1>e. Stopped(c)'
    BY <1>1, <1>4 DEF Stopped
  <1>f. Journaled(c)'
    BY <1>1, <1>4 DEF Journaled
  <1>g. Trees(c)'
    BY <1>1, <1>4 DEF Trees
  <1>h. Removing(c)'
    BY <1>1, <1>4 DEF Removing
  <1>i. Unstarted(c)'
    BY <1>1, <1>4 DEF Unstarted
  <1>j. Uncreated(c)'
    BY <1>1, <1>4 DEF Uncreated
  <1> QED
    BY <1>a, <1>b, <1>c, <1>d, <1>e, <1>f, <1>g, <1>h, <1>i, <1>j

\* And writes it back, also when it was removed in between.
LEMMA UpdaterSaveStep ==
    ASSUME NEW c, Callers = {c}, Inv(c), NEW u \in Updaters, UpdaterSave(u)
    PROVE  Inv(c)'
  <1> USE EngineAssumption DEF Inv, marks
  <1>1. /\ mu = u /\ mu' = None /\ u # c /\ updater[u].pc = "save"
        /\ updater[u].entry \in Manifests /\ manifest \in {None, updater[u].entry}
        /\ manifest' = updater[u].entry /\ manifest' # None
        /\ UNCHANGED <<git, sess, journal, provider, call, up, faults, crashes, tampers,
                       tampered, leaky, removed, marks>>
    BY DEF UpdaterSave, TypeOK, Locks, budget
  <1>2. call[c].pc # "updateSave"
    BY <1>1 DEF Locks
  <1>3. NotUpdating \in [pc : {"idle", "save"}, entry : Manifests \cup {None}] /\ NotUpdating.pc = "idle"
    BY DEF NotUpdating
  <1>4. updater' = [updater EXCEPT ![u] = NotUpdating]
    BY DEF UpdaterSave
  <1>5. /\ updater' \in [Updaters -> [pc : {"idle", "save"}, entry : Manifests \cup {None}]]
        /\ updater'[u].pc = "idle"
        /\ \A v \in Updaters : v # u => updater'[v] = updater[v]
    BY <1>3, <1>4 DEF TypeOK
  <1>6. \A v \in Updaters : updater'[v].pc # "save" /\ v # None
    BY <1>1, <1>5 DEF Locks
  <1>7. journal # None
    BY <1>1 DEF Journaled
  <1>8. revived' = (revived \/ manifest = None) /\ revived \in BOOLEAN
    BY DEF UpdaterSave, TypeOK
  <1>9. CASE manifest = None
    <2>1. revived' /\ revived' \in BOOLEAN
      BY <1>8, <1>9
    <2>a. TypeOK'
      BY <1>1, <1>2, <1>5, <1>6, <1>7, <1>9, <2>1 DEF TypeOK
    <2>b. Flow(c)'
      BY <1>1, <1>2, <1>5, <1>6, <1>7, <1>9, <2>1 DEF Flow
    <2>c. Locks(c)'
      BY <1>1, <1>2, <1>5, <1>6, <1>7, <1>9, <2>1 DEF Locks
    <2>d. Written(c)'
      BY <1>1, <1>2, <1>5, <1>6, <1>7, <1>9, <2>1 DEF Written, Flow
    <2>e. Stopped(c)'
      BY <1>1, <1>2, <1>5, <1>6, <1>7, <1>9, <2>1 DEF Stopped
    <2>f. Journaled(c)'
      BY <1>1, <1>2, <1>5, <1>6, <1>7, <1>9, <2>1 DEF Journaled
    <2>g. Trees(c)'
      BY <1>1, <1>2, <1>5, <1>6, <1>7, <1>9, <2>1 DEF Trees
    <2>h. Removing(c)'
      BY <1>1, <1>2, <1>5, <1>6, <1>7, <1>9, <2>1 DEF Removing
    <2>i. Unstarted(c)'
      BY <1>1, <1>2, <1>5, <1>6, <1>7, <1>9, <2>1 DEF Unstarted
    <2>j. Uncreated(c)'
      BY <1>1, <1>2, <1>5, <1>6, <1>7, <1>9, <2>1 DEF Uncreated
    <2> QED
      BY <2>a, <2>b, <2>c, <2>d, <2>e, <2>f, <2>g, <2>h, <2>i, <2>j
  <1>10. CASE manifest # None
    <2>1. manifest' = manifest
      BY <1>1, <1>10
    <2>2. revived' <=> revived
      BY <1>8, <1>10
    <2>3. revived' \in BOOLEAN
      BY <1>8, <1>10
    <2>a. TypeOK'
      BY <1>1, <1>2, <1>5, <1>6, <1>7, <1>10, <2>1, <2>2, <2>3 DEF TypeOK
    <2>b. Flow(c)'
      BY <1>1, <1>2, <1>5, <1>6, <1>7, <1>10, <2>1, <2>2, <2>3 DEF Flow
    <2>c. Locks(c)'
      BY <1>1, <1>2, <1>5, <1>6, <1>7, <1>10, <2>1, <2>2, <2>3 DEF Locks
    <2>d. Written(c)'
      BY <1>1, <1>2, <1>5, <1>6, <1>7, <1>10, <2>1, <2>2, <2>3 DEF Written
    <2>e. Stopped(c)'
      BY <1>1, <1>2, <1>5, <1>6, <1>7, <1>10, <2>1, <2>2, <2>3 DEF Stopped
    <2>f. Journaled(c)'
      BY <1>1, <1>2, <1>5, <1>6, <1>7, <1>10, <2>1, <2>2, <2>3 DEF Journaled
    <2>g. Trees(c)'
      BY <1>1, <1>2, <1>5, <1>6, <1>7, <1>10, <2>1, <2>2, <2>3 DEF Trees
    <2>h. Removing(c)'
      BY <1>1, <1>2, <1>5, <1>6, <1>7, <1>10, <2>1, <2>2, <2>3 DEF Removing
    <2>i. Unstarted(c)'
      BY <1>1, <1>2, <1>5, <1>6, <1>7, <1>10, <2>1, <2>2, <2>3 DEF Unstarted
    <2>j. Uncreated(c)'
      BY <1>1, <1>2, <1>5, <1>6, <1>7, <1>10, <2>1, <2>2, <2>3 DEF Uncreated
    <2> QED
      BY <2>a, <2>b, <2>c, <2>d, <2>e, <2>f, <2>g, <2>h, <2>i, <2>j
  <1> QED
    BY <1>9, <1>10

\* The caller's context is cancelled.
LEMMA CancelStep ==
    ASSUME NEW c, Callers = {c}, Inv(c), Cancel(c)
    PROVE  Inv(c)'
  <1> USE EngineAssumption DEF Inv, marks
  <1>1. /\ c \in Callers /\ call[c].pc # "idle" /\ call[c].op # "none"
        /\ UNCHANGED <<manifest, git, journal, sess, provider, mu, updater, up, faults, crashes, tampers,
                       tampered, revived, removed, marks>>
    BY DEF Cancel, Flow, disk, budget
  <1>2. /\ call' \in [Callers -> Calls] /\ call'[c].op = call[c].op /\ call'[c].pc = call[c].pc
        /\ call'[c].live = FALSE /\ call'[c].entry = call[c].entry
        /\ call'[c].failed <=> call[c].failed
        /\ call'[c].branchExisted <=> call[c].branchExisted
    <2>1. call' = [call EXCEPT ![c] = [call[c] EXCEPT !.live = FALSE]]
      BY DEF Cancel
    <2>2. ASSUME NEW k \in Calls, NEW f \in BOOLEAN, NEW q, q = [k EXCEPT !.live = f]
          PROVE  /\ q \in Calls /\ q.op = k.op /\ q.pc = k.pc /\ q.live = f /\ q.entry = k.entry
                 /\ q.failed = k.failed /\ q.branchExisted = k.branchExisted
      BY <2>2 DEF Calls
    <2>3. call[c] \in Calls
      BY <1>1 DEF TypeOK
    <2> DEFINE q == [call[c] EXCEPT !.live = FALSE]
    <2>4. /\ q \in Calls /\ q.op = call[c].op /\ q.pc = call[c].pc /\ q.live = FALSE
          /\ q.entry = call[c].entry /\ q.failed = call[c].failed
          /\ q.branchExisted = call[c].branchExisted
      <3> DEFINE k == call[c]
      <3>1. k \in Calls /\ FALSE \in BOOLEAN /\ q = [k EXCEPT !.live = FALSE]
        BY <2>3
      <3> HIDE DEF k, q
      <3>2. /\ q \in Calls /\ q.op = k.op /\ q.pc = k.pc /\ q.live = FALSE /\ q.entry = k.entry
            /\ q.failed = k.failed /\ q.branchExisted = k.branchExisted
        BY <2>2, <3>1
      <3> QED
        BY <3>2 DEF k
    <2> HIDE DEF q
    <2>5. call' \in [Callers -> Calls] /\ call'[c] = q
      BY <1>1, <2>1, <2>4 DEF TypeOK, q
    <2> QED
      BY <2>4, <2>5
  <1>3. leaky' = (leaky \/ call[c].op \in {"start", "remove"}) /\ leaky \in BOOLEAN
    BY DEF Cancel, TypeOK
  <1>4. leaky' <=> (leaky \/ call[c].op \in {"start", "remove"})
    BY <1>3
  <1>5. leaky' \in BOOLEAN
    BY <1>3
  <1>6. ~leaky' => ~leaky /\ call[c].op # "start" /\ call[c].op # "remove"
    BY <1>4
  <1>a. TypeOK'
    BY <1>1, <1>2, <1>5, <1>6 DEF TypeOK
  <1>b. Flow(c)'
    BY <1>1, <1>2, <1>5, <1>6 DEF Flow
  <1>c. Locks(c)'
    BY <1>1, <1>2, <1>5, <1>6 DEF Locks
  <1>d. Written(c)'
    BY <1>1, <1>2, <1>5, <1>6 DEF Written
  <1>e. Stopped(c)'
    BY <1>1, <1>2, <1>5, <1>6 DEF Stopped
  <1>f. Journaled(c)'
    BY <1>1, <1>2, <1>5, <1>6 DEF Journaled
  <1>g. Trees(c)'
    BY <1>1, <1>2, <1>5, <1>6 DEF Trees
  <1>h. Removing(c)'
    BY <1>1, <1>2, <1>5, <1>6 DEF Removing
  <1>i. Unstarted(c)'
    BY <1>1, <1>2, <1>5, <1>6 DEF Unstarted
  <1>j. Uncreated(c)'
    BY <1>1, <1>2, <1>5, <1>6 DEF Uncreated
  <1> QED
    BY <1>a, <1>b, <1>c, <1>d, <1>e, <1>f, <1>g, <1>h, <1>i, <1>j

\* Prune of the source repository.
LEMMA PruneStep ==
    ASSUME NEW c, Callers = {c}, Inv(c), Prune
    PROVE  Inv(c)'
  <1> USE EngineAssumption DEF Inv, marks
  <1>1. UNCHANGED <<manifest, sess, journal, provider, mu, call, updater, up, faults, crashes, tampers,
                    tampered, revived, leaky, removed, marks>>
    BY DEF Prune, budget, history
  <1>2. Sound(git') /\ ~git.dir /\ git.reg /\ ~git'.dir
    BY GitSound, PruneResult DEF Prune
  <1>3. git # CleanGit /\ ~Whole(git)
    BY <1>2 DEF CleanGit, Whole
  <1>a. TypeOK'
    BY <1>1, <1>2, <1>3 DEF TypeOK, Sound
  <1>b. Flow(c)'
    BY <1>1, <1>2, <1>3 DEF Flow, Sound
  <1>c. Locks(c)'
    BY <1>1, <1>2, <1>3 DEF Locks, Sound
  <1>d. Written(c)'
    BY <1>1, <1>2, <1>3 DEF Written, Sound
  <1>e. Stopped(c)'
    BY <1>1, <1>2, <1>3 DEF Stopped, Sound
  <1>f. Journaled(c)'
    BY <1>1, <1>2, <1>3 DEF Journaled, Sound
  <1>g. Trees(c)'
    BY <1>1, <1>2, <1>3 DEF Trees, Sound
  <1>h. Removing(c)'
    BY <1>1, <1>2, <1>3 DEF Removing, Sound
  <1>i. Unstarted(c)'
    BY <1>1, <1>2, <1>3 DEF Unstarted, Sound
  <1>j. Uncreated(c)'
    BY <1>1, <1>2, <1>3 DEF Uncreated, Sound
  <1> QED
    BY <1>a, <1>b, <1>c, <1>d, <1>e, <1>f, <1>g, <1>h, <1>i, <1>j

\* Somebody changes the workspace by hand.
LEMMA TamperStep ==
    ASSUME NEW c, Callers = {c}, Inv(c), Tamper
    PROVE  Inv(c)'
  <1> USE EngineAssumption DEF Inv, marks
  <1>1. /\ tampered' = TRUE
        /\ UNCHANGED <<manifest, sess, journal, provider, mu, call, updater, up, faults, crashes,
                       revived, leaky, removed, marks>>
    BY DEF Tamper
  <1>2. tampers' \in 0..MaxTampers
    BY DEF Tamper, TypeOK
  <1>3. git \in GitStates /\ Sound(git)
    BY GitSound DEF TypeOK
  <1>4. Sound(git')
    BY <1>3 DEF Tamper, Sound, GitStates
  <1>5. git.dir \/ (git.branch /\ git'.dir = git.dir /\ git'.reg = git.reg /\ git'.head = git.head)
    BY <1>3 DEF Tamper, GitStates
  <1>6. git # CleanGit
    BY <1>5 DEF CleanGit
  <1>a. TypeOK'
    BY <1>1, <1>2, <1>4, <1>5, <1>6 DEF TypeOK, Sound
  <1>b. Flow(c)'
    BY <1>1, <1>2, <1>4, <1>5, <1>6 DEF Flow, Sound
  <1>c. Locks(c)'
    BY <1>1, <1>2, <1>4, <1>5, <1>6 DEF Locks, Sound
  <1>d. Written(c)'
    BY <1>1, <1>2, <1>4, <1>5, <1>6 DEF Written, Sound
  <1>e. Stopped(c)'
    BY <1>1, <1>2, <1>4, <1>5, <1>6 DEF Stopped, Sound
  <1>f. Journaled(c)'
    BY <1>1, <1>2, <1>4, <1>5, <1>6 DEF Journaled, Sound
  <1>g. Trees(c)'
    BY <1>1, <1>2, <1>4, <1>5, <1>6 DEF Trees, Sound
  <1>h. Removing(c)'
    BY <1>1, <1>2, <1>4, <1>5, <1>6 DEF Removing, Sound
  <1>i. Unstarted(c)'
    BY <1>1, <1>2, <1>4, <1>5, <1>6 DEF Unstarted, Sound
  <1>j. Uncreated(c)'
    BY <1>1, <1>2, <1>4, <1>5, <1>6 DEF Uncreated, Sound
  <1> QED
    BY <1>a, <1>b, <1>c, <1>d, <1>e, <1>f, <1>g, <1>h, <1>i, <1>j

\* The host dies, or closes the Engine.
LEMMA StopStep ==
    ASSUME NEW c, Callers = {c}, Inv(c), NEW crash \in BOOLEAN, Stop(crash)
    PROVE  Inv(c)'
  <1> USE EngineAssumption DEF Inv, marks
  <1>1. /\ sess' = None /\ provider' = FALSE /\ mu' = None /\ up' = FALSE
        /\ UNCHANGED <<manifest, git, journal, faults, tampers, tampered, revived, removed, marks>>
    BY DEF Stop, disk
  <1>2. crashes' \in 0..MaxCrashes
    BY DEF Stop, TypeOK
  <1>3. Ended(c)
    <2>1. Idle \in Calls /\ Idle.pc = "idle" /\ Idle.op = "none" /\ Idle.live = TRUE /\ Idle.failed = FALSE
      BY DEF Idle, Calls, Steps
    <2>2. call' = [b \in Callers |-> Idle]
      BY DEF Stop
    <2> QED
      BY <2>1, <2>2 DEF Ended
  <1>4. /\ updater' \in [Updaters -> [pc : {"idle", "save"}, entry : Manifests \cup {None}]]
        /\ \A u \in Updaters : updater'[u].pc = "idle" /\ u # None
    <2>1. NotUpdating \in [pc : {"idle", "save"}, entry : Manifests \cup {None}] /\ NotUpdating.pc = "idle"
      BY DEF NotUpdating
    <2>2. updater' = [u \in Updaters |-> NotUpdating]
      BY DEF Stop
    <2> QED
      BY <2>1, <2>2
  <1>5. leaky' = (leaky \/ \E b \in Callers : call[b].op = "start") /\ leaky \in BOOLEAN
    BY DEF Stop, TypeOK
  <1>6. leaky' \in BOOLEAN
    BY <1>5
  <1>7. ~leaky' => ~leaky /\ call[c].op # "start"
    BY <1>5
  <1>8. c # None
    OBVIOUS
  <1>a. TypeOK'
    BY <1>1, <1>2, <1>3, <1>4, <1>6, <1>7, <1>8 DEF TypeOK, Ended
  <1>b. Flow(c)'
    BY <1>1, <1>2, <1>3, <1>4, <1>6, <1>7, <1>8 DEF Flow, Ended
  <1>c. Locks(c)'
    BY <1>1, <1>2, <1>3, <1>4, <1>6, <1>7, <1>8 DEF Locks, Ended
  <1>d. Written(c)'
    BY <1>1, <1>2, <1>3, <1>4, <1>6, <1>7, <1>8 DEF Written, Ended
  <1>e. Stopped(c)'
    BY <1>1, <1>2, <1>3, <1>4, <1>6, <1>7, <1>8 DEF Stopped, Ended
  <1>f. Journaled(c)'
    BY <1>1, <1>2, <1>3, <1>4, <1>6, <1>7, <1>8 DEF Journaled, Ended
  <1>g. Trees(c)'
    BY <1>1, <1>2, <1>3, <1>4, <1>6, <1>7, <1>8 DEF Trees, Ended
  <1>h. Removing(c)'
    BY <1>1, <1>2, <1>3, <1>4, <1>6, <1>7, <1>8 DEF Removing, Ended
  <1>i. Unstarted(c)'
    BY <1>1, <1>2, <1>3, <1>4, <1>6, <1>7, <1>8 DEF Unstarted, Ended
  <1>j. Uncreated(c)'
    BY <1>1, <1>2, <1>3, <1>4, <1>6, <1>7, <1>8 DEF Uncreated, Ended
  <1> QED
    BY <1>a, <1>b, <1>c, <1>d, <1>e, <1>f, <1>g, <1>h, <1>i, <1>j

\* Open, and the steps of no interest.
LEMMA IdleStep ==
    ASSUME NEW c, Callers = {c}, Inv(c), Open \/ UNCHANGED vars
    PROVE  Inv(c)'
  <1> USE EngineAssumption DEF Inv, marks
  <1>1. /\ up' \in BOOLEAN
        /\ UNCHANGED <<manifest, git, sess, journal, provider, mu, call, updater, faults, crashes,
                       tampers, tampered, revived, leaky, removed, marks>>
    <2>1. CASE Open
      BY <2>1 DEF Open, disk, budget, history
    <2>2. CASE UNCHANGED vars
      BY <2>2 DEF vars, TypeOK
    <2> QED
      BY <2>1, <2>2
  <1>a. TypeOK'
    BY <1>1 DEF TypeOK
  <1>b. Flow(c)'
    BY <1>1 DEF Flow
  <1>c. Locks(c)'
    BY <1>1 DEF Locks
  <1>d. Written(c)'
    BY <1>1 DEF Written
  <1>e. Stopped(c)'
    BY <1>1 DEF Stopped
  <1>f. Journaled(c)'
    BY <1>1 DEF Journaled
  <1>g. Trees(c)'
    BY <1>1 DEF Trees
  <1>h. Removing(c)'
    BY <1>1 DEF Removing
  <1>i. Unstarted(c)'
    BY <1>1 DEF Unstarted
  <1>j. Uncreated(c)'
    BY <1>1 DEF Uncreated
  <1> QED
    BY <1>a, <1>b, <1>c, <1>d, <1>e, <1>f, <1>g, <1>h, <1>i, <1>j

\* Nothing has happened yet.
LEMMA InvInit ==
    ASSUME NEW c, Callers = {c}, Init
    PROVE  Inv(c)
  <1> USE EngineAssumption DEF Inv, marks
  <1>1. /\ Idle \in Calls /\ Idle.pc = "idle" /\ Idle.op = "none" /\ Idle.live = TRUE
        /\ Idle.failed = FALSE
    BY DEF Idle, Calls, Steps
  <1>2. NotUpdating \in [pc : {"idle", "save"}, entry : Manifests \cup {None}] /\ NotUpdating.pc = "idle"
    BY DEF NotUpdating
  <1>3. /\ call \in [Callers -> Calls] /\ call[c].pc = "idle" /\ call[c].op = "none"
        /\ call[c].live = TRUE /\ call[c].failed = FALSE
    BY <1>1 DEF Init
  <1>4. /\ updater \in [Updaters -> [pc : {"idle", "save"}, entry : Manifests \cup {None}]]
        /\ \A u \in Updaters : updater[u].pc = "idle" /\ u # None
    BY <1>2 DEF Init
  <1>5. CleanGit \in GitStates /\ ~CleanGit.dir /\ CleanGit.head = "none"
    BY DEF CleanGit, GitStates
  <1>6. faults \in 0..MaxFaults /\ crashes \in 0..MaxCrashes /\ tampers \in 0..MaxTampers
    BY DEF Init
  <1>7. /\ provider \in BOOLEAN /\ up \in BOOLEAN
        /\ {tampered, revived, leaky, removed, starting, closing, orphaned} \subseteq BOOLEAN
    BY DEF Init
  <1>a. TypeOK
    BY <1>3, <1>4, <1>5, <1>6, <1>7 DEF TypeOK, Init
  <1>b. Flow(c)
    BY <1>3, <1>4, <1>5, <1>6, <1>7 DEF Flow, Init
  <1>c. Locks(c)
    BY <1>3, <1>4, <1>5, <1>6, <1>7 DEF Locks, Init
  <1>d. Written(c)
    BY <1>3, <1>4, <1>5, <1>6, <1>7 DEF Written, Init
  <1>e. Stopped(c)
    BY <1>3, <1>4, <1>5, <1>6, <1>7 DEF Stopped, Init
  <1>f. Journaled(c)
    BY <1>3, <1>4, <1>5, <1>6, <1>7 DEF Journaled, Init
  <1>g. Trees(c)
    BY <1>3, <1>4, <1>5, <1>6, <1>7 DEF Trees, Init
  <1>h. Removing(c)
    BY <1>3, <1>4, <1>5, <1>6, <1>7 DEF Removing, Init
  <1>i. Unstarted(c)
    BY <1>3, <1>4, <1>5, <1>6, <1>7 DEF Unstarted, Init
  <1>j. Uncreated(c)
    BY <1>3, <1>4, <1>5, <1>6, <1>7 DEF Uncreated, Init
  <1> QED
    BY <1>a, <1>b, <1>c, <1>d, <1>e, <1>f, <1>g, <1>h, <1>i, <1>j

\* Every step.
LEMMA InvNext ==
    ASSUME NEW c, Callers = {c}, Inv(c), [Next]_vars
    PROVE  Inv(c)'
  <1>1. CASE \E b \in Callers : \E mode \in Modes : BeginStart(b, mode)
    BY <1>1, BeginStartStep
  <1>2. CASE \E b \in Callers : \E op \in Ops \ {"start"} : BeginLoaded(b, op)
    BY <1>2, BeginLoadedStep
  <1>3. CASE \E b \in Callers : Advance(b)
    <2>1. Advance(c)
      BY <1>3
    <2>2. RuntimeClose(c) => Inv(c)'
      BY RuntimeCloseStep, RollbackCloseStep
    <2> QED
      BY <2>1, <2>2, CreateCheckStep, AddStep, RollbackAddStep, RuntimeCreateStep, SaveStep,
         PrepareStep, AdapterStartStep, RuntimeRestartStep, UpdateLoadStep, UpdateSaveStep,
         ReloadStep, RmTreeStep, RmBranchStep, UnlinkStep, ForgetStep DEF Advance
  <1>4. CASE \E b \in Callers : Cancel(b)
    BY <1>4, CancelStep
  <1>5. CASE \E u \in Updaters : UpdaterLoad(u) \/ UpdaterSave(u)
    BY <1>5, UpdaterLoadStep, UpdaterSaveStep
  <1>6. CASE Prune \/ Tamper \/ Open \/ UNCHANGED vars
    BY <1>6, PruneStep, TamperStep, IdleStep
  <1>7. CASE \E crash \in BOOLEAN : Stop(crash)
    BY <1>7, StopStep
  <1> QED
    BY <1>1, <1>2, <1>3, <1>4, <1>5, <1>6, <1>7 DEF Next

-----------------------------------------------------------------------------
(* What the history remembers of the session.                              *)

\* A step that neither creates a session nor writes a manifest.
LEMMA MarkedKept ==
    ASSUME NEW c, Inv(c), Marked(c), manifest' \in {None, manifest}, journal' = journal,
           sess' \in {None, sess}, closing => closing', revived => revived', leaky => leaky',
           starting' => starting, orphaned' => leaky', call'[c].pc # "save",
           starting' => call'[c].op \in {"start", "none"} /\ call'[c].pc # "updateSave",
           Undone(c)'
    PROVE  Marked(c)'
  <1>1. Resumes(c)'
    BY EngineAssumption DEF Marked, Resumes
  <1> QED
    BY <1>1 DEF Marked

\* A step of a call that goes on.
LEMMA MarkedMoves ==
    ASSUME NEW c, Inv(c), Marked(c), NEW pc, Moved(c, pc), pc \notin {"save", "updateSave"},
           call[c].op # "none", manifest' \in {None, manifest}, journal' = journal,
           sess' \in {None, sess}, closing => closing', revived => revived', leaky => leaky',
           starting' => starting, orphaned' => leaky'
    PROVE  Marked(c)'
  <1>1. Undone(c)' /\ call'[c].op = call[c].op /\ call'[c].pc = pc
    BY DEF Moved, Kept, Undone
  <1> QED
    BY <1>1, MarkedKept DEF Marked

\* A step by which a Start gives up.
LEMMA MarkedRollsBack ==
    ASSUME NEW c, Inv(c), Marked(c), RolledBack(c), call[c].op = "start", leaky' <=> leaky,
           UNCHANGED <<manifest, sess, journal, revived, marks>>
    PROVE  Marked(c)'
  <1>1. Undone(c)' /\ call'[c].op = "start" /\ call'[c].pc = "rtClose"
    BY DEF RolledBack, Kept, Undone
  <1> QED
    BY <1>1, MarkedKept DEF Marked, marks

\* A step by which another call ends.
LEMMA MarkedEnds ==
    ASSUME NEW c, Inv(c), Marked(c), Ended(c), call[c].op \notin {"start", "none"},
           manifest' \in {None, manifest}, journal' = journal, sess' \in {None, sess},
           closing => closing', revived => revived', leaky => leaky',
           starting' => starting, orphaned' => leaky'
    PROVE  Marked(c)'
  <1>1. ~starting'
    BY DEF Marked
  <1>2. Undone(c)' /\ call'[c].pc = "idle"
    BY <1>1 DEF Undone, Ended
  <1> QED
    BY <1>1, <1>2, MarkedKept

\* Start's steps up to the manifest.
LEMMA MarkedCreate ==
    ASSUME NEW c, Callers = {c}, Inv(c), Marked(c),
           CreateCheck(c) \/ Add(c) \/ RollbackAdd(c) \/ RuntimeCreate(c) \/ Save(c)
    PROVE  Marked(c)'
  <1> USE EngineAssumption
  <1>0. c \in Callers /\ TypeOK /\ (orphaned => leaky)
    BY DEF Inv, Marked
  <1>1. CASE CreateCheck(c)
    <2>1. /\ call[c].pc = "createCheck" /\ call[c].op = "start"
          /\ manifest = None \/ revived
          /\ ~leaky => sess = None /\ call[c].live
          /\ ~leaky /\ ~tampered => git = CleanGit
      BY <1>0, <1>1 DEF CreateCheck, At, Inv, Flow, TypeOK, Calls, Ops, Written, Unstarted, Uncreated
    <2>2. UNCHANGED <<manifest, git, journal, sess, tampered, revived, leaky, starting, closing, orphaned>>
      BY <1>1 DEF CreateCheck, disk, history, marks
    <2>3. CASE git.dir \/ ~call[c].live
      <3>1. Ended(c)
        BY <1>0, <1>1, <2>3, ReturnEnds DEF CreateCheck
      <3>2. Undone(c)' /\ call'[c].op = "none" /\ call'[c].pc = "idle"
        BY <2>1, <2>2, <3>1 DEF Undone, Ended
      <3> QED
        BY <1>0, <2>2, <3>2, MarkedKept
    <2>4. CASE ~(git.dir \/ ~call[c].live)
      <3>1. git.branch \in BOOLEAN
        BY <1>0 DEF TypeOK, GitStates
      <3>2. call'[c].pc = "add" /\ call'[c].op = "start"
        BY <1>0, <1>1, <2>1, <2>4, <3>1, BranchSeen DEF CreateCheck
      <3>3. Undone(c)'
        BY <3>2 DEF Undone
      <3> QED
        BY <1>0, <2>2, <3>2, <3>3, MarkedKept
    <2> QED
      BY <2>3, <2>4
  <1>2. CASE Add(c)
    <2>1. /\ call[c].op = "start"
          /\ UNCHANGED <<manifest, journal, sess, revived, leaky, starting, closing, orphaned>>
      BY <1>0, <1>2 DEF Add, At, Inv, Flow, TypeOK, Calls, Ops, history, marks
    <2>2. PICK pc \in {"rtCreate", "rollbackAdd"} : Goto(c, pc)
      BY <1>2 DEF Add
    <2>3. Moved(c, pc)
      BY <1>0, <2>2, GotoMoves DEF Steps
    <2> QED
      BY <1>0, <2>1, <2>2, <2>3, MarkedMoves
  <1>3. CASE RollbackAdd(c)
    <2>1. /\ call[c].pc = "rollbackAdd" /\ call[c].live \in BOOLEAN /\ call[c].branchExisted \in BOOLEAN
          /\ manifest = None \/ revived
          /\ ~leaky => sess = None /\ call[c].op = "start" /\ call[c].live
          /\ ~leaky /\ ~tampered => ~call[c].branchExisted
      BY <1>0, <1>3 DEF RollbackAdd, At, Inv, Flow, TypeOK, Calls, Ops, Written, Unstarted, Uncreated
    <2>2. UNCHANGED <<manifest, journal, sess, tampered, revived, leaky, starting, closing, orphaned>>
      BY <1>3 DEF RollbackAdd, history, marks
    <2>3. Ended(c)
      BY <1>0, <1>3, ReturnEnds DEF RollbackAdd
    <2>4. ~leaky /\ ~tampered => git' = CleanGit
      BY <1>3, <2>1, GitSound, RollbackResult DEF RollbackAdd
    <2>5. Undone(c)' /\ call'[c].op = "none" /\ call'[c].pc = "idle"
      BY <2>1, <2>2, <2>3, <2>4 DEF Undone, Ended
    <2> QED
      BY <1>0, <2>2, <2>5, MarkedKept
  <1>4. CASE RuntimeCreate(c)
    <2>1. /\ call[c].op = "start" /\ ~call[c].failed
          /\ UNCHANGED <<manifest, revived, marks>>
      BY <1>0, <1>4 DEF RuntimeCreate, At, Inv, Flow, TypeOK, Calls, Ops
    <2>2. CASE sess' = "active" /\ journal' = "active" /\ Goto(c, "save") /\ UNCHANGED <<faults, leaky>>
      <3>1. call'[c].pc = "save" /\ call'[c].op = "start"
        BY <1>0, <2>1, <2>2, GotoMoves DEF Moved, Kept, Steps
      <3>2. Resumes(c)' /\ Undone(c)'
        BY <2>2, <3>1 DEF Resumes, Undone
      <3> QED
        BY <1>0, <2>1, <2>2, <3>1, <3>2 DEF Marked, marks
    <2>3. CASE Fail(c) /\ UNCHANGED <<sess, journal>> /\ (FaultIn(c) \/ UNCHANGED <<faults, leaky>>)
      <3>1. RolledBack(c) /\ (leaky' <=> leaky)
        BY <1>0, <2>1, <2>3, FailEnds, FaultResult
      <3> QED
        BY <2>1, <2>3, <3>1, MarkedRollsBack
    <2> QED
      BY <1>4, <2>2, <2>3 DEF RuntimeCreate
  <1>5. CASE Save(c)
    <2>1. /\ call[c].pc = "save" /\ call[c].op = "start" /\ ~call[c].failed
          /\ UNCHANGED <<sess, journal, revived, marks>>
      BY <1>0, <1>5 DEF Save, At, Inv, Flow, TypeOK, Calls, Ops
    <2>2. CASE (\E pc \in {"prepare", "rtStart"} : Goto(c, pc)) /\ UNCHANGED <<faults, leaky>>
      <3>1. call'[c].pc \in {"prepare", "rtStart"} /\ call'[c].op = "start"
        BY <1>0, <2>1, <2>2, GotoMoves DEF Moved, Kept, Steps
      <3>2. Resumes(c)' /\ Undone(c)'
        BY <2>1, <2>2, <3>1 DEF Marked, Resumes, Undone, marks
      <3> QED
        BY <1>0, <2>1, <2>2, <3>1, <3>2 DEF Marked, marks
    <2>3. CASE FaultIn(c) /\ Fail(c) /\ UNCHANGED manifest
      <3>1. RolledBack(c) /\ (leaky' <=> leaky)
        BY <1>0, <2>1, <2>3, FailEnds, FaultResult
      <3> QED
        BY <2>1, <2>3, <3>1, MarkedRollsBack
    <2> QED
      BY <1>5, <2>2, <2>3 DEF Save
  <1> QED
    BY <1>1, <1>2, <1>3, <1>4, <1>5

\* The steps of Start and Resume once the manifest is there, and a restart.
LEMMA MarkedStart ==
    ASSUME NEW c, Callers = {c}, Inv(c), Marked(c),
           Prepare(c) \/ RuntimeStart(c) \/ AdapterStart(c) \/ Started(c) \/ RuntimeRestart(c)
    PROVE  Marked(c)'
  <1> USE EngineAssumption
  <1>0. c \in Callers /\ TypeOK /\ (orphaned => leaky)
    BY DEF Inv, Marked
  <1>1. /\ call[c].pc \in {"prepare", "rtStart", "adapterStart", "started", "rtRestart"}
        /\ call[c].op \in {"start", "resume", "restart"} /\ ~call[c].failed
    BY <1>0 DEF Prepare, RuntimeStart, AdapterStart, Started, RuntimeRestart, At, Inv, Flow,
                TypeOK, Calls, Ops
  <1>2. UNCHANGED <<manifest, sess, journal, revived, marks>>
    BY DEF Prepare, RuntimeStart, AdapterStart, Started, RuntimeRestart, disk, history
  <1>3. /\ FaultIn(c) \/ UNCHANGED leaky
        /\ Fail(c) \/ (call[c].op = "restart" /\ Return(c)) \/ \E pc \in {"rtStart", "adapterStart", "started", "update"} : Goto(c, pc)
    <2>1. RuntimeRestart(c) => call[c].op = "restart"
      BY <1>1 DEF RuntimeRestart, At, Inv, Flow
    <2> QED
      BY <2>1 DEF Prepare, RuntimeStart, AdapterStart, Started, RuntimeRestart, history
  <1>4. leaky' <=> leaky
    BY <1>0, <1>1, <1>3 DEF FaultIn, TypeOK, Calls
  <1>5. CASE \E pc \in {"rtStart", "adapterStart", "started", "update"} : Goto(c, pc)
    <2>1. PICK pc \in {"rtStart", "adapterStart", "started", "update"} : Moved(c, pc)
      BY <1>0, <1>5, GotoMoves DEF Steps
    <2> QED
      BY <1>0, <1>1, <1>2, <1>4, <2>1, MarkedMoves DEF marks
  <1>6. CASE Fail(c) /\ call[c].op = "start"
    <2>1. RolledBack(c)
      BY <1>0, <1>1, <1>6, FailEnds
    <2> QED
      BY <1>2, <1>4, <1>6, <2>1, MarkedRollsBack
  <1>7. CASE (Fail(c) /\ call[c].op # "start") \/ (call[c].op = "restart" /\ Return(c))
    <2>1. Ended(c)
      BY <1>0, <1>7, FailEnds, ReturnEnds
    <2> QED
      BY <1>0, <1>1, <1>2, <1>4, <1>7, <2>1, MarkedEnds DEF marks
  <1> QED
    BY <1>3, <1>5, <1>6, <1>7

\* runtime.Close, and the manifest's update.
LEMMA MarkedClose ==
    ASSUME NEW c, Callers = {c}, Inv(c), Marked(c),
           RuntimeClose(c) \/ UpdateLoad(c) \/ UpdateSave(c)
    PROVE  Marked(c)'
  <1> USE EngineAssumption
  <1>0. c \in Callers /\ TypeOK /\ (orphaned => leaky)
    BY DEF Inv, Marked
  <1>1. CASE RuntimeClose(c)
    <2>1. /\ call[c].pc = "rtClose" /\ call[c].op # "none"
          /\ closing' /\ UNCHANGED <<manifest, revived, starting, orphaned>>
          /\ ~call[c].failed => call[c].op # "start"
      BY <1>0, <1>1 DEF RuntimeClose, At, Inv, Flow
    <2>2. FaultIn(c) \/ UNCHANGED <<faults, leaky>>
      BY <1>1 DEF RuntimeClose
    <2>3. leaky => leaky'
      BY <1>0, <2>2, FaultResult
    <2>4. \/ Moved(c, "forget") \/ Moved(c, "update")
          \/ ~call[c].failed /\ Ended(c)
      BY <1>0, <1>1, GotoMoves, ReturnEnds DEF RuntimeClose, Steps
    <2>5. Resumes(c)'
      BY <2>1 DEF Resumes
    <2>6. starting' /\ call'[c].op = "none" => FALSE
      BY <2>1, <2>4 DEF Marked, Moved, Kept, Ended
    <2>7. starting' => call'[c].op \in {"start", "none"} /\ call'[c].pc # "updateSave"
      BY <2>1, <2>4 DEF Marked, Moved, Kept, Ended
    <2>8. Undone(c)'
      BY <2>6 DEF Undone
    <2> QED
      BY <1>0, <2>1, <2>3, <2>5, <2>7, <2>8 DEF Marked
  <1>2. CASE UpdateLoad(c)
    <2>1. /\ ~starting' /\ call[c].pc = "update"
          /\ UNCHANGED <<manifest, sess, journal, revived, leaky, closing, orphaned>>
      BY <1>2 DEF UpdateLoad, At, disk
    <2>2. Undone(c)'
      BY <2>1 DEF Undone
    <2>3. call'[c].pc # "save"
      <3>1. manifest # None /\ manifest \in Manifests
        BY <1>0, <2>1 DEF Inv, Written, Flow, TypeOK, Calls, Ops
      <3> DEFINE e == [manifest EXCEPT !.closed = @ \/ call[c].op \in {"close", "remove"}]
      <3>2. e \in Manifests
        BY <3>1 DEF Manifests
      <3>3. Loaded(c, "updateSave", e)
        BY <1>0, <1>2, <3>1, <3>2, EntryLoaded DEF UpdateLoad, Steps
      <3> QED
        BY <3>3 DEF Loaded
    <2> QED
      BY <1>0, <2>1, <2>2, <2>3, MarkedKept
  <1>3. CASE UpdateSave(c)
    <2>1. /\ call[c].pc = "updateSave" /\ manifest # None
          /\ UNCHANGED <<sess, journal, revived, leaky, starting, closing, orphaned>>
      BY <1>3 DEF UpdateSave, At, Inv, Locks, history, marks
    <2>2. ~starting
      BY <2>1 DEF Marked
    <2>3. Moved(c, "reload") \/ Ended(c)
      BY <1>0, <1>3, GotoMoves, ReturnEnds DEF UpdateSave, Steps
    <2>4. call'[c].pc # "save"
      BY <2>3 DEF Moved, Ended
    <2>5. Resumes(c)'
      BY <2>1, <2>4 DEF Marked, Resumes
    <2>6. Undone(c)'
      BY <2>1, <2>2 DEF Undone
    <2> QED
      BY <1>0, <2>1, <2>2, <2>5, <2>6 DEF Marked
  <1> QED
    BY <1>1, <1>2, <1>3

\* The steps of Remove and of a rollback.
LEMMA MarkedRemove ==
    ASSUME NEW c, Callers = {c}, Inv(c), Marked(c),
           Reload(c) \/ RmTree(c) \/ RmBranch(c) \/ Unlink(c) \/ Forget(c)
    PROVE  Marked(c)'
  <1> USE EngineAssumption
  <1>0. c \in Callers /\ TypeOK /\ (orphaned => leaky)
    BY DEF Inv, Marked
  <1>1. CASE Reload(c)
    <2>1. /\ call[c].pc = "reload" /\ call[c].op = "remove"
          /\ UNCHANGED <<manifest, sess, journal, revived, leaky, starting, closing, orphaned>>
      BY <1>0, <1>1 DEF Reload, At, Inv, Flow, TypeOK, Calls, Ops, disk, history, marks
    <2>2. manifest # None /\ manifest \in Manifests
      BY <1>0, <2>1, SMTT(60) DEF Inv, Written, TypeOK
    <2>3. \E pc \in {"rmTree", "unlink"} : Loaded(c, pc, manifest)
      BY <1>0, <1>1, <2>2, EntryLoaded DEF Reload, Steps
    <2>4. ~starting
      BY <2>1 DEF Marked
    <2>5. Undone(c)' /\ call'[c].pc # "save"
      BY <2>1, <2>3, <2>4 DEF Undone, Loaded
    <2> QED
      BY <1>0, <2>1, <2>4, <2>5, MarkedKept
  <1>2. CASE RmTree(c) \/ RmBranch(c)
    <2>1. /\ call[c].pc \in {"rmTree", "rmBranch"} /\ call[c].live \in BOOLEAN
          /\ call[c].op = "remove" \/ (call[c].op = "start" /\ call[c].failed)
          /\ UNCHANGED <<manifest, sess, journal, tampered, revived, marks>>
      BY <1>0, <1>2 DEF RmTree, RmBranch, At, Inv, Flow, TypeOK, Calls, Ops
    <2>2. FaultIn(c) \/ UNCHANGED <<faults, leaky>>
      BY <1>2 DEF RmTree, RmBranch
    <2>3. /\ leaky => leaky'
          /\ FaultIn(c) /\ call[c].failed => leaky'
      BY <1>0, <2>2, FaultResult
    <2>4. Moved(c, "rmBranch") \/ Moved(c, "unlink") \/ Ended(c)
      BY <1>0, <1>2, GotoMoves, ReturnEnds DEF RmTree, RmBranch, Steps
    <2>5. CASE Moved(c, "rmBranch") \/ Moved(c, "unlink")
      BY <1>0, <2>1, <2>3, <2>5, MarkedMoves DEF marks
    <2>6. CASE Ended(c) /\ call[c].op = "remove"
      BY <1>0, <2>1, <2>3, <2>6, MarkedEnds DEF marks
    <2>7. CASE Ended(c) /\ call[c].op = "start" /\ call[c].failed
      <3>1. /\ ~leaky => manifest = None \/ revived
            /\ ~leaky => sess = None /\ call[c].live
        BY <1>0, <2>1, <2>7 DEF Inv, Written, Unstarted
      <3>2. ~leaky' => git' = CleanGit
        <4>1. CASE FaultIn(c)
          BY <2>3, <2>7, <4>1
        <4>2. CASE RmTree(c) /\ ~FaultIn(c)
          <5>1. RemoveTree(git, call[c].live).ok => Moved(c, "rmBranch")
            BY <1>0, <4>2, GotoMoves DEF RmTree, Steps
          <5>2. ~RemoveTree(git, call[c].live).ok
            BY <2>7, <5>1 DEF Moved, Ended
          <5>3. ~call[c].live
            BY <2>1, <5>2, GitSound, TreeResult
          <5> QED
            BY <2>3, <3>1, <5>3
        <4>3. CASE RmBranch(c) /\ ~FaultIn(c)
          <5>1. git' = DeleteBranch(git, call[c].live).git /\ call[c].pc = "rmBranch"
            BY <4>3 DEF RmBranch, At
          <5>2. call[c].live => ~git.dir /\ ~git.reg
            BY <5>1 DEF Inv, Removing
          <5>3. call[c].live => git' = CleanGit
            BY <2>1, <5>1, <5>2, GitSound, BranchResult
          <5> QED
            BY <2>3, <3>1, <5>3
        <4> QED
          BY <1>2, <4>1, <4>2, <4>3
      <3>3. Undone(c)' /\ call'[c].op = "none" /\ call'[c].pc = "idle"
        BY <2>1, <2>3, <2>7, <3>1, <3>2 DEF Undone, Ended
      <3> QED
        BY <1>0, <2>1, <2>3, <3>3, MarkedKept DEF marks
    <2> QED
      BY <2>1, <2>4, <2>5, <2>6, <2>7
  <1>3. CASE Unlink(c)
    <2>1. /\ call[c].pc = "unlink"
          /\ (call[c].op = "remove" /\ ~call[c].failed) \/ (call[c].op = "start" /\ call[c].failed)
          /\ call[c].entry.mode \in {"managed", "existing"}
          /\ UNCHANGED <<git, sess, journal, tampered, revived, starting, closing>>
      BY <1>0, <1>3 DEF Unlink, At, Inv, Flow, TypeOK, Calls, Ops, Manifests, Modes
    <2>2. \/ manifest' = None /\ UNCHANGED <<faults, leaky, orphaned>>
          \/ FaultIn(c) /\ manifest' = manifest /\ orphaned' = (orphaned \/ call[c].failed)
      BY <1>3 DEF Unlink
    <2>3. /\ leaky => leaky'
          /\ FaultIn(c) /\ call[c].failed => leaky'
      BY <1>0, <2>2, FaultResult
    <2>4. orphaned' => leaky'
      BY <1>0, <2>2, <2>3
    <2>5. Moved(c, "forget") \/ Moved(c, "rmTree") \/ Ended(c)
      BY <1>0, <1>3, GotoMoves, ReturnEnds DEF Unlink, Steps
    <2>6. CASE Moved(c, "forget") \/ Moved(c, "rmTree")
      BY <2>1, <2>2, <2>3, <2>4, <2>6, MarkedMoves
    <2>7. CASE Ended(c) /\ call[c].op = "remove"
      BY <2>1, <2>2, <2>3, <2>4, <2>7, MarkedEnds
    <2>8. CASE Ended(c) /\ call[c].op = "start" /\ call[c].failed
      <3>1. call[c].entry.mode = "existing"
        <4>1. call[c].entry.mode = "managed" => Moved(c, "rmTree")
          BY <1>0, <1>3, <2>8, GotoMoves DEF Unlink, Steps
        <4> QED
          BY <2>1, <2>8, <4>1 DEF Moved, Ended
      <3>2. ~leaky => sess = None
        BY <2>1, <2>8 DEF Inv, Unstarted
      <3>3. ~leaky /\ ~tampered => git = CleanGit
        BY <2>1, <2>8, <3>1 DEF Inv, Uncreated
      <3>4. Undone(c)' /\ call'[c].op = "none" /\ call'[c].pc = "idle"
        BY <2>1, <2>2, <2>3, <2>8, <3>2, <3>3 DEF Undone, Ended
      <3> QED
        BY <2>1, <2>2, <2>3, <2>4, <3>4, MarkedKept
    <2> QED
      BY <2>1, <2>5, <2>6, <2>7, <2>8
  <1>4. CASE Forget(c)
    <2>1. /\ (call[c].op = "remove" /\ ~call[c].failed) \/ (call[c].op = "start" /\ call[c].failed)
          /\ sess' \in {None, sess}
          /\ UNCHANGED <<manifest, journal, revived, leaky, starting, closing, orphaned>>
      BY <1>0, <1>4 DEF Forget, At, Inv, Flow, TypeOK, Calls, Ops, disk, marks
    <2>2. Moved(c, "unlink") \/ (~call[c].failed /\ Ended(c))
      BY <1>0, <1>4, GotoMoves, ReturnEnds DEF Forget, Steps
    <2> QED
      BY <1>0, <2>1, <2>2, MarkedMoves, MarkedEnds
  <1> QED
    BY <1>1, <1>2, <1>3, <1>4

\* The steps that begin a call.
LEMMA MarkedBegins ==
    ASSUME NEW c, Callers = {c}, Inv(c), Marked(c),
           \/ \E mode \in Modes : BeginStart(c, mode)
           \/ \E op \in Ops \ {"start"} : BeginLoaded(c, op)
    PROVE  Marked(c)'
  <1> USE EngineAssumption
  <1>0. c \in Callers /\ TypeOK /\ (orphaned => leaky)
    BY DEF Inv, Marked
  <1>1. ASSUME NEW mode \in Modes, BeginStart(c, mode) PROVE Marked(c)'
    <2> DEFINE e == [mode |-> mode, closed |-> FALSE]
               pc == IF mode = "managed" THEN "createCheck" ELSE "rtCreate"
    <2>1. e \in Manifests /\ pc \in Steps /\ "start" \in Ops /\ pc \notin {"save", "updateSave"}
      BY DEF Manifests, Modes, Steps, Ops
    <2>2. Begun(c, "start", e, pc)
      BY <1>0, <1>1, <2>1, CallBegins DEF BeginStart
    <2>3. manifest' = None /\ ~orphaned'
      BY <1>1 DEF BeginStart, disk
    <2> HIDE DEF pc, e
    <2>4. call'[c].op = "start" /\ call'[c].pc = pc
      BY <2>2 DEF Begun
    <2>5. Resumes(c)' /\ Undone(c)'
      BY <2>1, <2>3, <2>4 DEF Resumes, Undone
    <2> QED
      BY <2>1, <2>3, <2>4, <2>5 DEF Marked
  <1>2. ASSUME NEW op \in Ops \ {"start"}, BeginLoaded(c, op) PROVE Marked(c)'
    <2>1. /\ manifest # None /\ manifest \in Manifests /\ ~starting'
          /\ UNCHANGED <<manifest, journal, revived, leaky, closing, orphaned>>
      BY <1>0, <1>2, ZenonT(60) DEF BeginLoaded, TypeOK
    <2>2. sess' \in {sess, Restored}
      BY <1>2, ZenonT(60) DEF BeginLoaded
    <2>3. PICK pc \in {"prepare", "update", "rtRestart", "rtClose", "reload"} :
             call' = [call EXCEPT ![c] = [Idle EXCEPT !.op = op, !.entry = manifest, !.pc = pc]]
      BY <1>2 DEF BeginLoaded
    <2>4. Begun(c, op, manifest, pc)
      BY <1>0, <2>1, <2>3, CallBegins DEF Steps
    <2>5. Undone(c)' /\ call'[c].pc # "save"
      BY <2>1, <2>3, <2>4 DEF Undone, Begun
    <2>6. Resumes(c)'
      BY <2>1, <2>2, <2>5 DEF Marked, Resumes, Restored
    <2> QED
      BY <1>0, <2>1, <2>5, <2>6 DEF Marked
  <1> QED
    BY <1>1, <1>2

\* The other writers, a cancelled context, Git, a crash.
LEMMA MarkedOthers ==
    ASSUME NEW c, Callers = {c}, Inv(c), Marked(c),
           \/ Cancel(c) \/ Prune \/ Tamper \/ Open \/ UNCHANGED vars
           \/ \E u \in Updaters : UpdaterLoad(u) \/ UpdaterSave(u)
           \/ \E crash \in BOOLEAN : Stop(crash)
    PROVE  Marked(c)'
  <1> USE EngineAssumption
  <1>0. c \in Callers /\ TypeOK /\ (orphaned => leaky)
    BY DEF Inv, Marked
  <1>1. CASE Cancel(c)
    <2>1. /\ call[c].pc # "idle" /\ call[c].op # "none"
          /\ UNCHANGED <<manifest, sess, journal, revived, starting, closing, orphaned>>
      BY <1>1 DEF Cancel, Inv, Flow, disk, marks
    <2>2. call'[c].op = call[c].op /\ call'[c].pc = call[c].pc
      BY <1>0, <1>1 DEF Cancel, TypeOK, Calls
    <2>3. leaky => leaky'
      BY <1>0, <1>1 DEF Cancel
    <2>4. Resumes(c)' /\ Undone(c)'
      BY <2>1, <2>2 DEF Marked, Resumes, Undone
    <2> QED
      BY <1>0, <2>1, <2>2, <2>3, <2>4 DEF Marked
  <1>2. CASE Prune \/ Tamper \/ Open \/ UNCHANGED vars
    <2>1. UNCHANGED <<manifest, sess, journal, call, revived, leaky, starting, closing, orphaned>>
      BY <1>2 DEF Prune, Tamper, Open, vars, disk, history, marks
    <2>2. (tampered => tampered') /\ (~tampered' /\ git = CleanGit => git' = CleanGit)
      <3>1. CASE Prune
        <4>1. tampered' = tampered /\ WorktreePrune(git) # git
          BY <3>1 DEF Prune, history
        <4>2. git # CleanGit
          <5>1. WorktreePrune(CleanGit) = CleanGit
            BY DEF WorktreePrune, CleanGit
          <5> QED
            BY <4>1, <5>1
        <4> QED
          BY <4>1, <4>2
      <3>2. CASE Tamper
        BY <3>2 DEF Tamper
      <3>3. CASE Open \/ UNCHANGED vars
        BY <3>3 DEF Open, vars, disk, history
      <3> QED
        BY <1>2, <3>1, <3>2, <3>3
    <2>3. Resumes(c)'
      BY <2>1 DEF Marked, Resumes
    <2>4. Undone(c)'
      BY <2>1, <2>2 DEF Marked, Undone
    <2> QED
      BY <1>0, <2>1, <2>3, <2>4 DEF Marked
  <1>3. ASSUME NEW u \in Updaters, UpdaterLoad(u) \/ UpdaterSave(u) PROVE Marked(c)'
    <2>1. UNCHANGED <<git, sess, journal, call, tampered, leaky, starting, closing, orphaned>>
      BY <1>3 DEF UpdaterLoad, UpdaterSave, disk, history, marks
    <2>2. \/ manifest' = manifest /\ (revived => revived')
          \/ manifest = None /\ revived'
      <3>1. CASE UpdaterLoad(u)
        BY <3>1 DEF UpdaterLoad, disk, history
      <3>2. CASE UpdaterSave(u)
        <4>1. revived' = (revived \/ manifest = None) /\ manifest' = updater[u].entry
          BY <3>2 DEF UpdaterSave
        <4>2. manifest \in {None, updater[u].entry}
          BY <3>2 DEF UpdaterSave, Inv, Locks
        <4> QED
          BY <4>1, <4>2
      <3> QED
        BY <1>3, <3>1, <3>2
    <2>3. Resumes(c)'
      BY <2>1, <2>2 DEF Marked, Resumes
    <2>4. Undone(c)'
      BY <2>1, <2>2 DEF Marked, Undone
    <2> QED
      BY <1>0, <2>1, <2>3, <2>4 DEF Marked
  <1>4. ASSUME NEW crash \in BOOLEAN, Stop(crash) PROVE Marked(c)'
    <2>1. /\ sess' = None
          /\ UNCHANGED <<manifest, git, journal, tampered, revived, starting, closing, orphaned>>
      BY <1>4 DEF Stop, disk, marks
    <2>2. (leaky => leaky') /\ (~leaky' => call[c].op # "start")
      BY <1>0, <1>4 DEF Stop
    <2>3. call'[c].op = "none" /\ call'[c].pc = "idle"
      BY <1>0, <1>4 DEF Stop, Idle
    <2>4. Undone(c)'
      BY <2>1, <2>2, <2>3 DEF Marked, Undone
    <2> QED
      BY <1>0, <2>1, <2>2, <2>3, <2>4, MarkedKept
  <1> QED
    BY <1>1, <1>2, <1>3, <1>4

\* Every step.
LEMMA MarkedNext ==
    ASSUME NEW c, Callers = {c}, Inv(c), Marked(c), [Next]_vars
    PROVE  Marked(c)'
  <1>1. CASE \E b \in Callers : \/ \E mode \in Modes : BeginStart(b, mode)
                                \/ \E op \in Ops \ {"start"} : BeginLoaded(b, op)
    BY <1>1, MarkedBegins
  <1>2. CASE \E b \in Callers : Advance(b)
    <2>1. Advance(c)
      BY <1>2
    <2> QED
      BY <2>1, MarkedCreate, MarkedStart, MarkedClose, MarkedRemove DEF Advance
  <1>3. CASE \/ \E b \in Callers : Cancel(b)
             \/ Prune \/ Tamper \/ Open \/ UNCHANGED vars
             \/ \E u \in Updaters : UpdaterLoad(u) \/ UpdaterSave(u)
             \/ \E crash \in BOOLEAN : Stop(crash)
    BY <1>3, MarkedOthers
  <1> QED
    BY <1>1, <1>2, <1>3 DEF Next

\* The steps that write or remove the manifest.
LEMMA OnlyWriters ==
    ASSUME NEW c, Callers = {c}, Next
    PROVE  \/ manifest' = manifest
           \/ Save(c) \/ UpdateSave(c) \/ Unlink(c)
           \/ \E u \in Updaters : UpdaterSave(u)
  <1>1. CASE \E b \in Callers : \/ \E mode \in Modes : BeginStart(b, mode)
                                \/ \E op \in Ops \ {"start"} : BeginLoaded(b, op)
                                \/ Cancel(b)
    BY <1>1 DEF BeginStart, BeginLoaded, Cancel, disk
  <1>2. CASE \E b \in Callers : Advance(b)
    <2>1. Advance(c)
      BY <1>2
    <2>2. \/ Save(c) \/ UpdateSave(c) \/ Unlink(c)
          \/ CreateCheck(c) \/ Add(c) \/ RollbackAdd(c) \/ RuntimeCreate(c) \/ Prepare(c)
          \/ RuntimeStart(c) \/ AdapterStart(c) \/ Started(c) \/ RuntimeRestart(c) \/ RuntimeClose(c)
          \/ UpdateLoad(c) \/ Reload(c) \/ RmTree(c) \/ RmBranch(c) \/ Forget(c)
      BY <2>1 DEF Advance
    <2>3. CreateCheck(c) \/ Add(c) \/ RollbackAdd(c) \/ RuntimeCreate(c) \/ Prepare(c) =>
             manifest' = manifest
      BY DEF CreateCheck, Add, RollbackAdd, RuntimeCreate, Prepare, disk
    <2>4. RuntimeStart(c) \/ AdapterStart(c) \/ Started(c) \/ RuntimeRestart(c) \/ RuntimeClose(c) =>
             manifest' = manifest
      BY DEF RuntimeStart, AdapterStart, Started, RuntimeRestart, RuntimeClose, disk
    <2>5. UpdateLoad(c) \/ Reload(c) \/ RmTree(c) \/ RmBranch(c) \/ Forget(c) =>
             manifest' = manifest
      BY DEF UpdateLoad, Reload, RmTree, RmBranch, Forget, disk
    <2> QED
      BY <2>2, <2>3, <2>4, <2>5
  <1>3. CASE \E u \in Updaters : UpdaterLoad(u) \/ UpdaterSave(u)
    BY <1>3 DEF UpdaterLoad, disk
  <1>4. CASE Prune \/ Tamper \/ Open \/ \E crash \in BOOLEAN : Stop(crash)
    BY <1>4 DEF Prune, Tamper, Open, Stop, disk
  <1> QED
    BY <1>1, <1>2, <1>3, <1>4, SMTT(60) DEF Next

-----------------------------------------------------------------------------
(* The theorems.                                                           *)

\* The invariant holds whatever the other writers, the failures, the crashes
\* and the hands on the worktree do.
THEOREM Invariance ==
    ASSUME NEW c, Callers = {c}
    PROVE  Spec => [](Inv(c) /\ Marked(c))
  <1>1. Init => Inv(c) /\ Marked(c)
    <2>1. Init => Marked(c)
      BY EngineAssumption DEF Init, Marked, Resumes, Undone, Idle
    <2> QED
      BY <2>1, InvInit
  <1>2. Inv(c) /\ Marked(c) /\ [Next]_vars => (Inv(c) /\ Marked(c))'
    BY InvNext, MarkedNext
  <1> QED
    BY <1>1, <1>2, PTL DEF Spec

\* What the manifest says of a session is true between any two steps and
\* after any crash: an open session has its workspace and its journal, both
\* ready for Resume unless runtime.Close was called, and a closed one has no
\* provider.
THEOREM ManifestTellsTheTruth ==
    ASSUME NEW c, Callers = {c}
    PROVE  Spec => []ManifestIsTrue
  <1>1. Inv(c) /\ Marked(c) => ManifestIsTrue
    <2> SUFFICES ASSUME Inv(c), Marked(c) PROVE ManifestIsTrue
      OBVIOUS
    <2>1. OpenCanResume
      <3> SUFFICES ASSUME manifest # None, ~manifest.closed, ~tampered, ~revived, ~orphaned
                   PROVE  /\ journal # None
                          /\ closing \/ Restored = "active"
                          /\ manifest.mode = "managed" => git.branch /\ ReopenOK(git, TRUE)
        BY DEF OpenCanResume
      <3>1. journal # None
        BY DEF Inv, Journaled
      <3>2. ~closing => Restored = "active"
        BY DEF Inv, TypeOK, Marked, Resumes, Restored
      <3>3. manifest.mode = "managed" => git.branch /\ ReopenOK(git, TRUE)
        BY DEF Inv, Trees, Whole, ReopenOK, InspectOK
      <3> QED
        BY <3>1, <3>2, <3>3
    <2>2. ClosedStopsProvider
      BY DEF Inv, Stopped, ClosedStopsProvider
    <2> QED
      BY <2>1, <2>2 DEF ManifestIsTrue
  <1> QED
    BY <1>1, Invariance, PTL

\* What Remove reports as removed is gone: its caller finds no directory, no
\* registration, no branch, no provider, no session and no manifest.
THEOREM RemoveIsComplete ==
    ASSUME NEW c, Callers = {c}
    PROVE  Spec => []RemovedIsGone
  <1>1. Inv(c) => RemovedIsGone
    <2> SUFFICES ASSUME Inv(c), removed, Settled PROVE Gone
      BY DEF RemovedIsGone
    <2>1. git = CleanGit /\ sess = None /\ (manifest = None \/ revived)
      BY DEF Inv, Removing
    <2>2. ~provider
      BY <2>1, EngineAssumption DEF Inv, Stopped
    <2> QED
      BY <2>1, <2>2 DEF Gone
  <1> QED
    BY <1>1, Invariance, PTL

\* A Start that fails at any of its steps up to the start of the provider,
\* whose rollback runs and whose caller waits, leaves no worktree, branch,
\* manifest, provider or runtime session behind.
THEOREM RollbackIsComplete ==
    ASSUME NEW c, Callers = {c}
    PROVE  Spec => []FailedStartLeavesNothing
  <1>1. Inv(c) /\ Marked(c) => FailedStartLeavesNothing
    <2> SUFFICES ASSUME Inv(c), Marked(c), Settled, starting, ~leaky, ~tampered PROVE Gone
      BY DEF FailedStartLeavesNothing
    <2>1. call[c].op = "none"
      BY DEF Inv, Flow, Settled
    <2>2. git = CleanGit /\ sess = None /\ (manifest = None \/ revived)
      BY <2>1 DEF Marked, Undone
    <2>3. ~provider
      BY <2>2, EngineAssumption DEF Inv, Stopped
    <2> QED
      BY <2>2, <2>3 DEF Gone
  <1> QED
    BY <1>1, Invariance, PTL

\* Closed is final while the manifest exists: no writer brings an older
\* manifest back, because each loads what it writes under manifestMu.
THEOREM ClosingIsFinal ==
    ASSUME NEW c, Callers = {c}
    PROVE  Spec => ClosedStays
  <1> DEFINE Final == manifest # None /\ manifest.closed /\ ~revived =>
                         (manifest' = None \/ manifest'.closed)
  <1>1. Inv(c) /\ [Next]_vars => [Final]_vars
    <2> SUFFICES ASSUME Inv(c), Next, manifest # None, manifest.closed, ~revived
                 PROVE  manifest' = None \/ manifest'.closed
      BY DEF Final
    <2>1. CASE manifest' = manifest
      BY <2>1
    <2>2. CASE Save(c)
      <3>1. call[c].pc = "save"
        BY <2>2 DEF Save, At
      <3> QED
        BY <3>1 DEF Inv, Written
    <2>3. CASE UpdateSave(c)
      <3>1. /\ call[c].pc = "updateSave"
            /\ manifest' = call[c].entry \/ manifest' = manifest
        BY <2>3 DEF UpdateSave, At
      <3>2. call[c].entry.closed = (manifest.closed \/ call[c].op \in {"close", "remove"})
        BY <3>1 DEF Inv, Locks
      <3> QED
        BY <3>1, <3>2
    <2>4. CASE Unlink(c)
      BY <2>4 DEF Unlink
    <2>5. CASE \E u \in Updaters : UpdaterSave(u)
      <3>1. PICK u \in Updaters : UpdaterSave(u)
        BY <2>5
      <3>2. updater[u].pc = "save" /\ manifest' = updater[u].entry
        BY <3>1 DEF UpdaterSave
      <3> QED
        BY <3>2 DEF Inv, Locks
    <2> QED
      BY <2>1, <2>2, <2>3, <2>4, <2>5, OnlyWriters
  <1>2. Spec => [][Final]_vars
    BY <1>1, Invariance, PTL DEF Spec
  <1> QED
    BY <1>2 DEF ClosedStays, Final
=============================================================================
