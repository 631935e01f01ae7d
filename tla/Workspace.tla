------------------------------ MODULE Workspace ------------------------------
(***************************************************************************)
(* The user's Git workspace, the worktrees a job adds to it, and the       *)
(* integration of their branches (scripts/orchestrator/workspace.py).      *)
(*                                                                         *)
(* Every task commits at most once per round: before the review and in the *)
(* repair after it.  A commit names its author and round, and a head is    *)
(* the set of commits it contains: `--is-ancestor` is \subseteq, a merge   *)
(* is \cup.  A workspace that is no Git repository is treated by the code  *)
(* as a dirty one.  Read snapshots (CODEX_ORCHESTRATOR_READ_ISOLATION =    *)
(* snapshot) are left out.                                                 *)
(***************************************************************************)
EXTENDS PlanPolicy

CONSTANTS
  Integration,  \* the worktree in which the reviewer merges
  User          \* the author of the commits the job has not made

ASSUME AuthorsAssumption == Integration \notin Tasks /\ User \notin Tasks

Trees == Tasks \cup {Integration}

Rounds == 1..2

Commits == (Tasks \X Rounds) \cup {<<User, 1>>}

VARIABLES
  repo,  \* the checkout of the user: its head, and whether it has edits
  tree   \* of each worktree: does its path exist, its branch, is it in the
         \* registry of the job (workspace_resources), has it edits, its head
         \* and the head it was created at

workspaceVars == <<repo, tree>>

WorkspaceTypeOK ==
  /\ repo \in [head : SUBSET Commits, dirty : BOOLEAN]
  /\ tree \in [Trees -> [path : BOOLEAN, branch : BOOLEAN, listed : BOOLEAN,
                         dirty : BOOLEAN, head : SUBSET Commits,
                         base : SUBSET Commits]]

NoTree == [path |-> FALSE, branch |-> FALSE, listed |-> FALSE, dirty |-> FALSE,
           head |-> {}, base |-> {}]

WorkspaceInit(dirty) ==
  /\ repo = [head |-> {}, dirty |-> dirty]
  /\ tree = [x \in Trees |-> NoTree]

\* `existing.path.exists()` of a registered worktree.
Usable(x) == tree[x].listed /\ tree[x].path

\* The worktrees _execute_plan hands to the review.
TaskTrees == {t \in Tasks : Usable(t)}

\* `git worktree add -b` refuses a branch or a path that exists.
CanAdd(x) == ~tree[x].path /\ ~tree[x].branch

\* create_task_worktree, create_integration_worktree: git makes the worktree
\* at the head the engine started with ...
AddTree(x, info) ==
  /\ CanAdd(x)
  /\ tree' = [tree EXCEPT ![x] =
       [path |-> TRUE, branch |-> TRUE, listed |-> FALSE, dirty |-> FALSE,
        head |-> info.head, base |-> info.head]]
  /\ UNCHANGED repo

\* ... and _persist registers it in state.json.
ListTree(x) ==
  /\ tree' = [tree EXCEPT ![x].listed = TRUE]
  /\ UNCHANGED repo

\* What is done in a worktree: it is edited, and the edits are committed.
CommitIn(x, commits) ==
  /\ tree' = [tree EXCEPT ![x].head = @ \cup commits, ![x].dirty = FALSE]
  /\ UNCHANGED repo

EditIn(x) ==
  /\ tree' = [tree EXCEPT ![x].dirty = TRUE]
  /\ UNCHANGED repo

\* ... and in the checkout of the user, when it has no worktree.
EditRoot ==
  /\ repo' = [repo EXCEPT !.dirty = TRUE]
  /\ UNCHANGED tree

\* The user works on, too.
UserCommits ==
  /\ repo' = [head |-> repo.head \cup {<<User, 1>>}, dirty |-> FALSE]
  /\ UNCHANGED tree

UserEdits == EditRoot

\* Mutant: a branch that has advanced is taken for one that is merged.
LenientInspection(info) ==
  IF tree[Integration].dirty THEN "dirty"
  ELSE IF repo.dirty THEN "refuse"
  ELSE IF repo.head = info.head THEN "merge" ELSE "done"

\* verify_clean and the first half of apply_integration: "dirty" when the
\* integration is not committed, "done" when there is nothing to merge, "refuse"
\* when the checkout has changed since the engine started.
Inspection(info) ==
  LET head == tree[Integration].head IN
  IF tree[Integration].dirty THEN "dirty"
  ELSE IF repo.dirty THEN "refuse"
  ELSE IF repo.head = head THEN "done"
  ELSE IF repo.head = info.head THEN "merge"
  ELSE IF head \subseteq repo.head THEN "done" ELSE "refuse"

\* Mutant: a merge that is not a fast-forward replaces the head.
ResetHard ==
  /\ repo' = [repo EXCEPT !.head = tree[Integration].head]
  /\ UNCHANGED tree

\* The second half: `git merge --ff-only`, of the checkout as it is by now.
CanMerge == repo.head \subseteq tree[Integration].head

MergeIntegration ==
  /\ CanMerge
  /\ repo' = [repo EXCEPT !.head = tree[Integration].head]
  /\ UNCHANGED tree

\* Mutant: cleanup does not ask whether a worktree has edits.
OnlyProtected(protected) == {x \in Trees : Usable(x) /\ x \in protected}

\* The worktrees cleanup leaves alone: those with edits, and those of branches
\* that apply_integration has put under protection.
Preserved(protected) ==
  {x \in Trees : Usable(x) /\ (tree[x].dirty \/ x \in protected)}

\* What cleanup reports: those, or the temporary directory of the job, when a
\* worktree is in it that a crash has kept out of the registry.
LeavesTrees(protected) ==
  /\ \E x \in Trees : tree[x].listed
  /\ \E x \in Trees : tree[x].path /\ (tree[x].listed => x \in Preserved(protected))

\* cleanup, first loop: every other worktree is removed.
RemoveTrees(protected) ==
  /\ tree' = [x \in Trees |->
       IF tree[x].listed /\ x \notin Preserved(protected)
         THEN [tree[x] EXCEPT !.path = FALSE] ELSE tree[x]]
  /\ UNCHANGED repo

\* Second loop and _persist: `git branch -d` deletes the branches of the removed
\* worktrees that are merged into the checkout, and the registry forgets them.
DeleteBranches ==
  /\ tree' = [x \in Trees |->
       IF tree[x].listed /\ ~tree[x].path
         THEN [tree[x] EXCEPT !.branch = @ /\ ~(tree[x].head \subseteq repo.head),
                              !.listed = FALSE]
         ELSE tree[x]]
  /\ UNCHANGED repo
=============================================================================
