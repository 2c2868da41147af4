---------------------------- MODULE DeliveryLife ----------------------------
(***************************************************************************)
(* What delivery promises about the tasks of a repository, whatever the    *)
(* runs and finalizations do and whichever of them crash: the work of a    *)
(* task is committed once, whole and alone, on the branch of the task, and *)
(* after a human approved it; a commit stays; and a record that names a    *)
(* commit is written when there is one.  The worktree, the index and the   *)
(* processes are absent here.                                              *)
(***************************************************************************)
CONSTANT Tasks

VARIABLES
  verdict,      \* of each task: open, under review, or what came of it
  commits,      \* what was committed, on which branch and for which task
  record        \* what finalization last reported of each task

vars == <<verdict, commits, record>>

\* The commit of the work of t and of nothing else.
Own(t) == [branch |-> t, task |-> t, content |-> {t}]

Init ==
  /\ verdict = [t \in Tasks |-> "open"]
  /\ commits = {}
  /\ record = [t \in Tasks |-> "none"]

Becomes(t, next) ==
  /\ verdict' = [verdict EXCEPT ![t] = next]
  /\ UNCHANGED <<commits, record>>

Review(t) == verdict[t] = "open" /\ Becomes(t, "review")

Approve(t) == verdict[t] = "review" /\ Becomes(t, "approved")

Fail(t) == verdict[t] \in {"open", "review"} /\ Becomes(t, "failed")

Deliver(t) ==
  /\ verdict[t] = "approved"
  /\ Own(t) \notin commits
  /\ commits' = commits \cup {Own(t)}
  /\ UNCHANGED <<verdict, record>>

\* A process reports of an approved task.  It may be late: the report of a
\* commit may come after another process found nothing left to commit, or the
\* other way round.
Report(t, outcome) ==
  /\ verdict[t] = "approved"
  /\ outcome = "commit" => Own(t) \in commits
  /\ record' = [record EXCEPT ![t] = outcome]
  /\ UNCHANGED <<verdict, commits>>

Next ==
  \E t \in Tasks :
    \/ Review(t) \/ Approve(t) \/ Fail(t) \/ Deliver(t)
    \/ \E outcome \in {"dry_run", "commit", "no_changes"} : Report(t, outcome)

Spec == Init /\ [][Next]_vars

=============================================================================
