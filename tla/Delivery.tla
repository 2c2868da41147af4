------------------------------ MODULE Delivery ------------------------------
(***************************************************************************)
(* From a dispatched task to a commit, in the one repository of a project: *)
(* the runs of `canopus submit` that a worker starts one after the other,  *)
(* the human who reviews them, and the finalizations of what was approved. *)
(* Pipeline says how a task comes to be worked on and reviewed (TaskLife); *)
(* here only its part after the dispatch is kept, and git is added.        *)
(***************************************************************************)
EXTENDS Finalize

CONSTANTS
  Silent,       \* tasks whose run changes nothing
  Overlapping   \* whether canopus processes overlap on the repository

ASSUME DeliveryAssumption == Silent \subseteq Tasks /\ Overlapping \in BOOLEAN

VARIABLES
  status,       \* of each task: open, under review, or its verdict
  run           \* where each task's run is

deliveryVars == <<status, run>>

vars == <<repositoryVars, finalizeVars, deliveryVars>>

Life == INSTANCE DeliveryLife WITH verdict <- status

DeliveryInit ==
  /\ status = [t \in Tasks |-> "open"]
  /\ run = [t \in Tasks |-> "none"]

Init == RepositoryInit /\ FinalizeInit /\ DeliveryInit

UnderWay(t) == run[t] \in {"preparing", "working"}

\* Without Overlapping, an operator sees to it that a run is prepared only
\* while no other canopus process is at work on the repository, and that no
\* finalization begins in the middle of that.  The code does not see to it.
QuietForRun ==
  /\ \A f \in Finalizers : At(f, "idle")
  /\ \A t \in Tasks : ~UnderWay(t)

QuietForFinalize == \A t \in Tasks : run[t] # "preparing"

\* The worker waits for one run at a time.
WorkerIsFree == \A t \in Tasks : status[t] = "open" => run[t] = "none"

\* t's run has changed what it was asked to change.
HasWritten(t) ==
  t \in Silent \cup changes \cup index \cup UNION {c.content : c \in commits}

-----------------------------------------------------------------------------
(* A run of canopus submit.                                                *)

\* Mutant: the worktree is not looked at.
RunChecksNothing(t) ==
  /\ status[t] = "open" /\ run[t] = "none"
  /\ WorkerIsFree
  /\ Overlapping \/ QuietForRun
  /\ run' = [run EXCEPT ![t] = "preparing"]
  /\ UNCHANGED <<repositoryVars, finalizeVars, status>>

\* ensure_clean_worktree passes.
RunChecksWorktree(t) ==
  /\ status[t] = "open" /\ run[t] = "none"
  /\ WorkerIsFree
  /\ Overlapping \/ QuietForRun
  /\ Clean
  /\ run' = [run EXCEPT ![t] = "preparing"]
  /\ UNCHANGED <<repositoryVars, finalizeVars, status>>

\* ensure_clean_worktree fails, and with it the task.
RunRefused(t) ==
  /\ status[t] = "open" /\ run[t] = "none"
  /\ WorkerIsFree
  /\ Overlapping \/ QuietForRun
  /\ ~Clean
  /\ run' = [run EXCEPT ![t] = "ended"]
  /\ status' = [status EXCEPT ![t] = "failed"]
  /\ UNCHANGED <<repositoryVars, finalizeVars>>

\* create_branch.
RunTakesBranch(t) ==
  /\ run[t] = "preparing"
  /\ CheckoutNew(t)
  /\ run' = [run EXCEPT ![t] = "working"]
  /\ UNCHANGED <<finalizeVars, status>>

\* The agents of the run change files.
RunWrites(t) ==
  /\ run[t] = "working"
  /\ t \notin Silent
  /\ Write(t)
  /\ UNCHANGED <<finalizeVars, deliveryVars>>

\* The run ends, or fails or is killed before its end, and its worker, if it
\* waits still, reports it.
RunEnds(t, verdict) ==
  /\ UnderWay(t)
  /\ verdict = "review" => run[t] = "working" /\ HasWritten(t)
  /\ run' = [run EXCEPT ![t] = "ended"]
  /\ status' = [status EXCEPT ![t] = IF @ = "open" THEN verdict ELSE @]
  /\ UNCHANGED <<repositoryVars, finalizeVars>>

\* The task fails while it is worked on: by the timeout of its worker, or by
\* !cancel.  The run goes on.
FailsInRun(t) ==
  /\ status[t] = "open" /\ UnderWay(t)
  /\ status' = [status EXCEPT ![t] = "failed"]
  /\ UNCHANGED <<repositoryVars, finalizeVars, run>>

-----------------------------------------------------------------------------
(* Humans.                                                                 *)

\* !approve, or !reject.
Judge(t, verdict) ==
  /\ status[t] = "review"
  /\ status' = [status EXCEPT ![t] = verdict]
  /\ UNCHANGED <<repositoryVars, finalizeVars, run>>

\* Nothing runs on the repository while its operator works on it.
\* What tasks that failed left behind is discarded; like the next action, this
\* happens while nothing runs on the repository.
OperatorDiscards ==
  /\ QuietForRun
  /\ ~Clean
  /\ \A t \in changes \cup index : status[t] = "failed"
  /\ changes' = {}
  /\ index' = {}
  /\ head' \in {head, Main}
  /\ UNCHANGED <<commits, finalizeVars, deliveryVars>>

\* The index is reset, after a finalization reported that it is dirty.
OperatorUnstages ==
  /\ QuietForRun
  /\ index # {}
  /\ changes' = changes \cup index
  /\ index' = {}
  /\ UNCHANGED <<head, commits, finalizeVars, deliveryVars>>

-----------------------------------------------------------------------------

\* finalize-approved and watch take approved tasks (approved_processed_tasks).
Begin(f, t, mode) ==
  /\ status[t] = "approved"
  /\ Overlapping \/ QuietForFinalize
  /\ FinalizeBegins(f, t, mode)
  /\ UNCHANGED deliveryVars

Continue(f) == FinalizeContinues(f) /\ UNCHANGED deliveryVars

Next ==
  \/ \E t \in Tasks :
       \/ RunChecksWorktree(t) \/ RunRefused(t) \/ RunTakesBranch(t)
       \/ RunWrites(t) \/ FailsInRun(t)
       \/ \E verdict \in {"review", "failed"} : RunEnds(t, verdict)
       \/ \E verdict \in {"approved", "failed"} : Judge(t, verdict)
  \/ \E f \in Finalizers :
       \/ \E t \in Tasks, mode \in Modes : Begin(f, t, mode)
       \/ Continue(f)
       \/ CannotAdd(f) /\ UNCHANGED deliveryVars
       \/ FinalizeStops(f) /\ UNCHANGED deliveryVars
  \/ OperatorDiscards
  \/ OperatorUnstages

Spec == Init /\ [][Next]_vars

\* canopus watch keeps looking at every approved task, and a process that has
\* begun goes on.  Nothing is assumed of runs or humans.
Fairness ==
  /\ \A t \in Tasks : SF_vars(\E f \in Finalizers : Begin(f, t, "LocalCommitOnly"))
  /\ \A f \in Finalizers : WF_vars(Continue(f))

FairSpec == Spec /\ Fairness

TypeOK ==
  /\ RepositoryTypeOK
  /\ FinalizeTypeOK
  /\ status \in [Tasks -> {"open", "review", "approved", "failed"}]
  /\ run \in [Tasks -> {"none", "preparing", "working", "ended"}]

-----------------------------------------------------------------------------
(* Properties.                                                             *)

\* A finalization commits whatever it finds in the worktree (`git add -A`):
\* that must not hold anything a human has not approved, such as the remains
\* of a task that was rejected or timed out, or a run that has just begun.
CommitsAreApproved ==
  \A c \in commits : \A t \in c.content : status[t] = "approved"

\* "In LocalCommitOnly, finalization commits only on the existing expected task
\* branch" (docs/solutions/logic-errors/
\* approval-finalize-without-watch-daemon-2026-05-10.md:91).
CommitsOnTheirBranch == \A c \in commits : c.branch = c.task

\* A record that names a commit is the last word on its task: all the task's
\* changes are in a commit then, after crashes and with two finalizations of
\* one task at once.
CommitIsComplete ==
  \A t \in Tasks : record[t] = "commit" => t \notin changes \cup index

\* "no_changes: approved task had nothing new to commit" (docs/solutions/
\* logic-errors/approval-finalize-without-watch-daemon-2026-05-10.md:106): a
\* task with that record has no uncommitted changes.
NoChangesIsTrue ==
  \A t \in Tasks : record[t] = "no_changes" => t \notin changes \cup index

\* Unless calls fail, approved changes come to be committed on their branch,
\* although checks, retries and a second finalization get in the way.
ApprovedIsDelivered ==
  [](faults = 0) =>
    \A t \in Tasks :
      status[t] = "approved" /\ t \in changes
        ~> \E c \in commits : t \in c.content /\ c.branch = t

\* Runs, finalizations and their crashes implement the abstract DeliveryLife: an
\* approved task is committed once, by itself, for good, and a record says
\* "commit" only of a task that is.
ImplementsDeliveryLife == Life!Spec

-----------------------------------------------------------------------------
(* The inductive invariant behind the safety properties, for instances in  *)
(* which the processes do not overlap.                                     *)

\* One run is under way at a time, and none of a task that was judged.
RunInv ==
  /\ \A t \in Tasks : status[t] \in {"review", "approved"} => run[t] = "ended"
  /\ \A t, u \in Tasks : UnderWay(t) /\ UnderWay(u) => t = u

\* Uncommitted changes are those of the task whose branch is checked out.
WorktreeInv ==
  /\ changes \cup index \subseteq {head}
  /\ changes \cap index = {}
  /\ \A t \in Tasks : run[t] = "preparing" => Clean
  /\ \A t \in Tasks : run[t] = "working" => head = t /\ index = {}

\* A finalization works for an approved task, and after its pre-flight on the
\* branch of that task, which no run takes away in the meantime.  What it is
\* about to report as committed is.
Secured(f) ==
  /\ status[finalizer[f].task] = "approved"
  /\ QuietForFinalize
  /\ finalizer[f].at \in CallsOfGit \ {"symbolic-ref"} => head = finalizer[f].task
  /\ finalizer[f].at \in {"check", "write"} /\ finalizer[f].outcome = "commit" =>
       Life!Own(finalizer[f].task) \in commits

FinalizerInv == \A f \in Finalizers : ~At(f, "idle") => Secured(f)

\* A commit holds the work of its own task, all of it, since nobody works on an
\* approved task any more.
CommitInv ==
  \A c \in commits :
    /\ c = Life!Own(c.task)
    /\ status[c.task] = "approved"
    /\ c.task \notin changes \cup index

RecordInv == \A t \in Tasks : record[t] = "commit" => Life!Own(t) \in commits

DeliveryInv ==
  /\ TypeOK
  /\ RunInv
  /\ WorktreeInv
  /\ FinalizerInv
  /\ CommitInv
  /\ RecordInv

-----------------------------------------------------------------------------
(* What is left when the processes do overlap.                             *)

HasCommit(t) == \E c \in commits : c.task = t

\* A commit is made for an approved task and holds something, and a record that
\* names a commit is of a task that has one; whose work it holds, and on which
\* branch, is another matter (CommitsOnTheirBranch).
ReportsAreTrue ==
  /\ \A c \in commits : status[c.task] = "approved" /\ c.content # {}
  /\ \A t \in Tasks : record[t] = "commit" => HasCommit(t)

\* What a finalization works for is approved, and its report is true.
Earned(f) ==
  /\ status[finalizer[f].task] = "approved"
  /\ finalizer[f].at \in {"check", "write"} /\ finalizer[f].outcome = "commit" =>
       HasCommit(finalizer[f].task)

ReportInv ==
  /\ TypeOK
  /\ \A f \in Finalizers : ~At(f, "idle") => Earned(f)
  /\ ReportsAreTrue

=============================================================================
