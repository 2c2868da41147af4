------------------------------ MODULE Pipeline ------------------------------
(***************************************************************************)
(* The Stellaris task pipeline: Kepler, Europa, TON618 and the Laniakea    *)
(* workers with their canopus processes, composed.  They share tasks.json  *)
(* (TaskTable) and nothing else, and their steps interleave.               *)
(***************************************************************************)
EXTENDS Ton618, Laniakea, Europa, Kepler

vars == <<tasks, faults, schedulerVars, workerVars, europaVars, keplerVars>>

Init ==
  /\ TableInit
  /\ SchedulerInit
  /\ WorkerInit
  /\ EuropaInit
  /\ KeplerInit

\* A step of one component leaves the variables of the others alone.
Scheduler(step) == step /\ UNCHANGED <<workerVars, europaVars, keplerVars>>
Laniakea(step)  == step /\ UNCHANGED <<schedulerVars, europaVars, keplerVars>>
Europa(step)    == step /\ UNCHANGED <<schedulerVars, workerVars, keplerVars>>
Kepler(step)    == step /\ UNCHANGED <<schedulerVars, workerVars, europaVars>>

Next ==
  \/ Scheduler(SchedulerStep)
  \/ Laniakea(WorkerStep)
  \/ Europa(EuropaStep)
  \/ Kepler(KeplerStep)

Spec == Init /\ [][Next]_vars

\* The loops run as long as their processes do: TON618 and the workers poll
\* and finish their snapshots, a wait for canopus ends at the latest by the
\* timeout, and Kepler finishes its passes and keeps reporting a finding that
\* stays in the code.  Nothing is assumed of humans, of canopus, of GitHub.
Fairness ==
  /\ WF_vars(Scheduler(FetchPending))
  /\ \A t \in TaskIds : WF_vars(Scheduler(DispatchTask(t)))
  /\ \A w \in Workers :
       /\ WF_vars(Laniakea(WorkerFetch(w)))
       /\ \A t \in TaskIds :
            WF_vars(Laniakea(WorkerHandles(w, t) \/ WorkerLaunches(w, t)
                                                \/ WorkerCannotLaunch(w, t)))
       /\ WF_vars(Laniakea(CanopusTimeout(w)))
       /\ WF_vars(Laniakea(WorkerReports(w)))
  /\ \A t \in Discovered :
       /\ SF_vars(Kepler(\E findings \in SUBSET Discovered :
                           t \in findings /\ KeplerScans(findings)))
       /\ WF_vars(Kepler(KeplerRegisters(t)))
  /\ WF_vars(Kepler(KeplerWritesSeen))

FairSpec == Spec /\ Fairness

TypeOK ==
  /\ TableTypeOK
  /\ SchedulerTypeOK
  /\ WorkerTypeOK
  /\ EuropaTypeOK
  /\ KeplerTypeOK

-----------------------------------------------------------------------------
(* Safety.                                                                 *)

\* Discoveries "must pass through the human approval gate before TON618 can
\* dispatch them" (dysonsphere/src/discovery/mod.rs:11-13): no canopus process
\* is ever launched for a finding that no human promoted, whatever snapshots
\* the scheduler and the workers hold.
NoRunWithoutGate ==
  \A t \in Discovered : launches[t] > 0 => t \in promoted

\* Europa and canopus decide by different copies of the approval, and each
\* Rust write of the file drops Europa's copy: they must still agree on which
\* tasks are approved and may be finalized.
CanopusFinalizes(row) == row.status = "Processed" /\ row.approval = "approved"

ApprovalIsShared ==
  \A t \in TaskIds : CanopusFinalizes(tasks[t]) <=> IsApprovedProcessedTask(tasks[t])

\* Whatever may be finalized was approved by a human, on finished work.
ApprovalIsEarned ==
  \A t \in TaskIds : CanopusFinalizes(tasks[t]) => t \in approved \cap worked

\* While a human reviews an implementation, nothing works on it any more:
\* neither a child that survived its worker, nor a second worker's child.
ReviewedWorkIsQuiet ==
  \A t \in TaskIds :
    /\ tasks[t].status \in {"PendingReview", "Processed"}
    /\ Handler[t] = "implement"
    => \A a \in agents : a.task = t => a.phase # "working"

\* A snapshot is not refreshed and a report may fail, so that a task can be
\* run more than once; but only once for each worker and each fault.
ReexecutionIsBounded ==
  \A t \in TaskIds : launches[t] <= Cardinality(Workers) + faults

\* The ledger never hides a finding: what it knows, the table has.
SeenIsRegistered == \A t \in seen : Exists(t)

\* With a GitHub-backed project and no waiver, work that is queued, running or
\* reviewed has its Issue recorded: a failed intake leaves no task behind and
\* keeps a proposal a proposal (apps/europa/README.md:103).
WorkHasItsIssue ==
  GitHubBacked /\ ~IntakeLocalOnly =>
    \A t \in TaskIds :
      tasks[t].status \in {"Pending", "Dispatched", "PendingReview", "Processed"} =>
        tasks[t].issue /\ t \in issues

\* A verdict is final: no process moves a task out of Processed or Failed, or
\* changes its approval, by a snapshot or an await that outlived the verdict
\* (docs/architecture.md:57).
VerdictIsFinal ==
  [][\A t \in TaskIds :
       IsTerminal(tasks[t].status) =>
         /\ tasks'[t].status = tasks[t].status
         /\ tasks'[t].approval = tasks[t].approval]_vars

\* The pipeline implements the life of a task: the refinement reads the life
\* off the status column, and the history variables are the same.
Life == INSTANCE TaskLife WITH
          life <- [t \in TaskIds |-> tasks[t].status],
          released <- promoted

ImplementsTaskLife == Life!Spec

-----------------------------------------------------------------------------
(* Liveness, under FairSpec.                                               *)

\* A task that is queued or dispatched is eventually put up for review or has
\* failed, also after restarts and lost reports, and when canopus hangs.
QueuedIsResolved ==
  \A t \in TaskIds :
    tasks[t].status \in {"Pending", "Dispatched"}
      ~> tasks[t].status \in {"PendingReview", "Processed", "Failed"}

\* Once the faults are over, the ledger comes to know every finding again,
\* whatever crashes between the two files and unreadable ledgers made of it.
LedgerRecovers == <>[](Discovered \subseteq seen)

-----------------------------------------------------------------------------
(* Disagreement with the documentation.                                    *)

\* docs/v1-operator-runbook.md:224: when Project sync fails after the Issue
\* was created, "Europa preserves that object so operators can see the Issue
\* that already exists".  A proposal with no command in flight would record
\* every Issue that exists for it.
PartialIntakeIsPreserved ==
  \A t \in issues :
    /\ tasks[t].status = "PendingProposal"
    /\ \A s \in Slots : command[s].task # t
    => tasks[t].issue

=============================================================================
