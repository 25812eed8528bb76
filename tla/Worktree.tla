------------------------------ MODULE Worktree ------------------------------
(***************************************************************************)
(* What worktree.Manager does to one session's Git state                   *)
(* (src/worktree/manager.go).  The state of one session identity is        *)
(*   dir     Root/<repo>/<id> exists,                                      *)
(*   reg     the repository lists it as a worktree,                        *)
(*   branch  refs/heads/<prefix>/<id> exists,                              *)
(*   head    what the worktree has checked out.                            *)
(* Git itself is external: each operator lists the outcomes of one command *)
(* as the manager's error handling tells them apart.  live says whether    *)
(* the caller's context is still live: gitOutput and referenceExists run   *)
(* every command under it, so none of them starts once it is cancelled.    *)
(***************************************************************************)
EXTENDS Naturals

GitStates == [dir : BOOLEAN, reg : BOOLEAN, branch : BOOLEAN,
              head : {"none", "own", "other"}]

CleanGit == [dir |-> FALSE, reg |-> FALSE, branch |-> FALSE, head |-> "none"]

Result(ok, g) == [ok |-> ok, git |-> g]

\* A command that does not run or does nothing.
Refused(g) == Result(FALSE, g)

\* git worktree add -b <branch> <target> HEAD.  It refuses a branch, a
\* registration or a directory that is there; killed half way, it leaves
\* what it had made by then.
WorktreeAdd(g, live, fault) ==
    IF ~live \/ g.branch \/ g.reg \/ g.dir THEN {Refused(g)}
    ELSE {Result(TRUE, [dir |-> TRUE, reg |-> TRUE, branch |-> TRUE, head |-> "own"])}
         \cup IF fault
              THEN {Refused([g EXCEPT !.branch = TRUE]),
                    Refused([g EXCEPT !.branch = TRUE, !.reg = TRUE, !.head = "own"]),
                    Refused([dir |-> TRUE, reg |-> TRUE, branch |-> TRUE, head |-> "own"])}
              ELSE {}

\* git worktree remove --force <path>: unknown worktrees are refused.
WorktreeRemove(g, live) ==
    IF live /\ g.reg THEN Result(TRUE, [g EXCEPT !.dir = FALSE, !.reg = FALSE, !.head = "none"])
    ELSE Refused(g)

\* git worktree prune forgets registrations whose directory is gone.
WorktreePrune(g) == IF g.dir THEN g ELSE [g EXCEPT !.reg = FALSE, !.head = "none"]

\* git branch -D, when show-ref finds the branch; Git refuses to delete a
\* branch that a registered worktree has checked out.
DeleteBranch(g, live) ==
    IF ~live \/ ~g.branch THEN Result(TRUE, g)
    ELSE IF g.reg /\ g.head = "own" THEN Refused(g)
    ELSE Result(TRUE, [g EXCEPT !.branch = FALSE])

-----------------------------------------------------------------------------
\* Mutant: the rollback deletes the branch only when it was there before.
Rollback_KeepsBranch(g, live, branchExisted) ==
    LET removed == [WorktreeRemove(g, live).git EXCEPT !.dir = FALSE]
    IN  IF branchExisted THEN DeleteBranch(removed, live).git ELSE removed

\* rollback: remove the worktree, then the directory with or without Git,
\* then the branch unless it was there before.
Rollback(g, live, branchExisted) ==
    LET removed == [WorktreeRemove(g, live).git EXCEPT !.dir = FALSE]
    IN  IF branchExisted THEN removed ELSE DeleteBranch(removed, live).git

\* Inspect: three rev-parse commands in the worktree.
InspectOK(g, live) == live /\ g.dir /\ g.reg

\* Reopen: the worktree must still be on the session's branch.
ReopenOK(g, live) == InspectOK(g, live) /\ g.head = "own"

\* Repair and ensureBranch: check the owned branch out, creating it from the
\* current HEAD only when it does not exist.
EnsureBranch(g, live) ==
    IF ~InspectOK(g, live) THEN Refused(g)
    ELSE Result(TRUE, [g EXCEPT !.branch = TRUE, !.head = "own"])

\* The first half of Remove: the worktree, or, when Git knows none there and
\* the directory is gone too, the stale registrations.
RemoveTree(g, live) ==
    LET r == WorktreeRemove(g, live)
    IN  CASE r.ok              -> r
          [] ~r.ok /\ g.dir    -> r
          [] ~r.ok /\ ~g.dir   -> IF live THEN Result(TRUE, WorktreePrune(g)) ELSE r

=============================================================================
