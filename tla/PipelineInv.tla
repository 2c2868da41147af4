---------------------------- MODULE PipelineInv ----------------------------
(***************************************************************************)
(* The inductive invariant behind the safety of Pipeline, one conjunct per *)
(* argument.  TLC checks it on the small instances; PipelineProofs proves  *)
(* it inductive for every instance.                                        *)
(***************************************************************************)
EXTENDS Pipeline

\* Statuses a task has once it was dispatched: none of them leads back.
Started == {"Dispatched", "PendingReview", "Processed", "Failed"}

\* Statuses that a finding has only after its promotion.
Released == {"Pending", "Dispatched", "PendingReview", "Processed"}

\* A worker has t in its snapshot or in hand, or has launched canopus for it.
Taken(t) ==
  \/ launches[t] > 0
  \/ \E w \in Workers : t \in worker[w].batch \/ worker[w].task = t

\* The columns of a row and the history agree.
RowInv ==
  \A t \in TaskIds :
    /\ tasks[t].metaApproval = "approved" => tasks[t].approval = "approved"
    /\ tasks[t].approval = "approved" <=> tasks[t].status = "Processed"
    /\ tasks[t].status = "Processed" => t \in approved
    /\ tasks[t].status \in {"PendingReview", "Processed"} => t \in worked
    /\ tasks[t].status = "PendingProposal" => t \in Discovered

\* Stale snapshots hold only tasks that were dispatched, and so were promoted.
SnapshotInv == \A t \in TaskIds : Taken(t) => tasks[t].status \in Started

GateInv ==
  \A t \in Discovered : tasks[t].status \in Released \/ Taken(t) => t \in promoted

\* A worker that reports success holds a task whose work is finished.
ResultInv == \A w \in Workers : worker[w].phase = "ok" => worker[w].task \in worked

\* A task's branch is taken once: one process implements it, and none does
\* when its work is finished.
BranchInv ==
  /\ \A t \in worked : Handler[t] = "implement" => t \in branches
  /\ \A a \in agents :
       a.phase = "working" /\ Handler[a.task] = "implement" =>
         /\ a.task \in branches \ worked
         /\ \A b \in agents : b.phase = "working" /\ b.task = a.task => b = a

\* A !run in flight owns its id; an intake that returned an Issue opened it.
CommandInv ==
  \A s \in Slots :
    /\ command[s].name = "run" =>
         /\ command[s].task \in Requested
         /\ ~Exists(command[s].task)
         /\ \A other \in Slots \ {s} : command[other].task # command[s].task
    /\ command[s].intake = "created" => command[s].task \in issues
    /\ command[s].intake = "skipped" => ~GitHubBacked

\* The ledger, on disk and in memory, knows only what the table has.
LedgerInv == \A t \in seen \cup scan.known : Exists(t)

SafetyInv ==
  /\ TypeOK
  /\ RowInv
  /\ SnapshotInv
  /\ GateInv
  /\ ResultInv
  /\ BranchInv
  /\ CommandInv
  /\ WorkHasItsIssue
  /\ LedgerInv

-----------------------------------------------------------------------------
(* The count behind ReexecutionIsBounded.                                  *)

\* Workers that may still launch canopus for t without a further fault: those
\* that have t in their snapshot, and, until t is resolved, those not on it.
MayLaunch(t) ==
  {w \in Workers : \/ t \in worker[w].batch
                   \/ /\ tasks[t].status \notin {"PendingReview", "Processed", "Failed"}
                      /\ worker[w].task # t}

\* A worker is done with a task when it turns to it.
BatchInv ==
  \A w \in Workers : worker[w].task \notin worker[w].batch

CountInv ==
  \A t \in TaskIds :
    launches[t] + Cardinality(MayLaunch(t)) <= Cardinality(Workers) + faults

ReexecutionInv == BatchInv /\ CountInv

=============================================================================
