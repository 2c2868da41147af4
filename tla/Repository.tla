----------------------------- MODULE Repository -----------------------------
(***************************************************************************)
(* A project's git repository, as far as canopus acts on it: one worktree, *)
(* in which a run of `canopus submit` takes the branch of its task and     *)
(* leaves its changes uncommitted, and a finalization commits what it      *)
(* finds.  A change is abstracted to the task whose run wrote it.          *)
(***************************************************************************)
CONSTANTS
  Tasks,        \* the tasks of the project
  Main          \* its protected branch

ASSUME RepositoryAssumption == Main \notin Tasks

VARIABLES
  head,         \* the branch checked out: Main, or a task's own
  changes,      \* uncommitted changes outside of the index
  index,        \* changes in the index
  commits       \* what was committed, on which branch and for which task

repositoryVars == <<head, changes, index, commits>>

Commit == [branch : Tasks \cup {Main}, task : Tasks, content : SUBSET Tasks]

RepositoryInit ==
  /\ head = Main
  /\ changes = {}
  /\ index = {}
  /\ commits = {}

RepositoryTypeOK ==
  /\ head \in Tasks \cup {Main}
  /\ changes \subseteq Tasks
  /\ index \subseteq Tasks
  /\ commits \subseteq Commit

\* `git status --porcelain` prints nothing.
Clean == changes \cup index = {}

\* `git checkout -b` of t's branch; uncommitted changes come along.
CheckoutNew(t) ==
  /\ head' = t
  /\ UNCHANGED <<changes, index, commits>>

\* A run of t writes to the worktree.
Write(t) ==
  /\ changes' = changes \cup {t}
  /\ UNCHANGED <<head, index, commits>>

\* `git add -A`.
AddAll ==
  /\ index' = index \cup changes
  /\ changes' = {}
  /\ UNCHANGED <<head, commits>>

\* `git commit` of what is in the index.
CommitFor(t) ==
  /\ commits' = commits \cup {[branch |-> head, task |-> t, content |-> index]}
  /\ index' = {}
  /\ UNCHANGED <<head, changes>>

=============================================================================
