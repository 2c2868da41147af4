-------------------------- MODULE PipelineProofs --------------------------
(***************************************************************************)
(* Proofs of the safety properties of Pipeline.                            *)
(***************************************************************************)
EXTENDS PipelineInv, TLAPS

-----------------------------------------------------------------------------
(* What the operations on the table do to a row.                           *)

\* FileTaskTable::transition changes the status of one row, and only when it
\* has the expected status; of the other columns it may lose Europa's copy of
\* the approval.
LEMMA TransitionRows ==
  ASSUME TableTypeOK, NEW t \in TaskIds, NEW expected \in Status, NEW next \in Status
  PROVE  LET new == AfterTransition(t, expected, next) IN
         /\ new \in [TaskIds -> Row]
         /\ \A u \in TaskIds :
              /\ new[u].status = IF /\ u = t /\ tasks[t].status = expected
                                    /\ TransitionAllowed(expected, next)
                                 THEN next ELSE tasks[u].status
              /\ new[u].metaApproval \in {tasks[u].metaApproval, "none"}
              /\ new[u].approval = tasks[u].approval
              /\ new[u].intake = tasks[u].intake
              /\ new[u].issue = tasks[u].issue
<1> USE DEF TableTypeOK, Row, ApprovalState, Rewritten
<1>1. CASE TransitionApplies(t, expected, next)
  <2>1. AfterTransition(t, expected, next) =
          Rewritten([tasks EXCEPT ![t].status = next])
    BY <1>1 DEF AfterTransition
  <2> QED BY <1>1, <2>1 DEF TransitionApplies
<1>2. CASE ~TransitionApplies(t, expected, next)
  <2>1. AfterTransition(t, expected, next) \in {tasks, Rewritten(tasks)}
    BY <1>2 DEF AfterTransition
  <2>2. ~(tasks[t].status = expected /\ TransitionAllowed(expected, next))
    BY <1>2 DEF TransitionApplies, Exists, Status
  <2> QED BY <2>1, <2>2
<1> QED BY <1>1, <1>2

\* FileTaskTable::create adds a row under a new id and leaves the others.
LEMMA CreateRows ==
  ASSUME TableTypeOK, NEW t \in TaskIds, NEW row \in Row, row.metaApproval = "none"
  PROVE  LET new == AfterCreate(t, row) IN
         /\ new \in [TaskIds -> Row]
         /\ ~Exists(t) => new[t] = row
         /\ \A u \in TaskIds : u # t \/ Exists(t) =>
              /\ new[u].status = tasks[u].status
              /\ new[u].metaApproval \in {tasks[u].metaApproval, "none"}
              /\ new[u].approval = tasks[u].approval
              /\ new[u].intake = tasks[u].intake
              /\ new[u].issue = tasks[u].issue
<1> USE DEF TableTypeOK, Row, ApprovalState
<1>1. CASE Exists(t)
  BY <1>1 DEF AfterCreate
<1>2. CASE ~Exists(t)
  <2>1. AfterCreate(t, row) = Rewritten([tasks EXCEPT ![t] = row])
    BY <1>2 DEF AfterCreate
  <2> QED BY <1>2, <2>1 DEF Rewritten
<1> QED BY <1>1, <1>2

\* update_task_status_locked replaces one row and leaves the others.
LEMMA UpdateRows ==
  ASSUME TableTypeOK, NEW t \in TaskIds, NEW row \in Row, NEW next \in Status,
         BotUpdate(t, row, next)
  PROVE  /\ tasks' \in [TaskIds -> Row]
         /\ \A u \in TaskIds \ {t} : tasks'[u] = tasks[u]
         /\ tasks'[t].status = next
         /\ tasks'[t].approval = row.approval
         /\ tasks'[t].metaApproval = row.metaApproval
         /\ tasks'[t].intake = row.intake
         /\ tasks'[t].issue = row.issue
<1> DEFINE new == [row EXCEPT !.status = next]
<1>1. /\ new \in Row
      /\ new.status = next
      /\ new.approval = row.approval /\ new.metaApproval = row.metaApproval
      /\ new.intake = row.intake /\ new.issue = row.issue
  BY DEF Row
<1>2. tasks' = [tasks EXCEPT ![t] = new]
  BY DEF BotUpdate
<1> HIDE DEF new
<1> QED BY <1>1, <1>2 DEF TableTypeOK

\* What the commands write: only an approval changes the approval, and only an
\* intake that opened an Issue adds one.
LEMMA WrittenRows ==
  ASSUME NEW row \in Row, NEW intake
  PROVE  /\ RequestedRow(intake) \in Row
         /\ \A new \in {IntakeFailed(row), WithIntake(row, intake)} :
              /\ new \in Row
              /\ new.approval = row.approval /\ new.metaApproval = row.metaApproval
         /\ IntakeFailed(row).issue = row.issue
         /\ WithIntake(row, intake).issue = (row.issue \/ intake = "created")
         /\ \A new \in {MarkedApproved(row), MarkedRejected(row)} :
              new \in Row /\ new.intake = row.intake /\ new.issue = row.issue
         /\ MarkedApproved(row).approval = "approved"
         /\ MarkedApproved(row).metaApproval = "approved"
         /\ MarkedRejected(row).approval = "rejected"
         /\ MarkedRejected(row).metaApproval = "rejected"
<1> USE DEF Row, ApprovalState
<1>1. RequestedRow(intake) \in Row
  BY DEF RequestedRow, Status
<1>2. /\ IntakeFailed(row) \in Row
      /\ IntakeFailed(row).approval = row.approval
      /\ IntakeFailed(row).metaApproval = row.metaApproval
      /\ IntakeFailed(row).issue = row.issue
  BY DEF IntakeFailed
<1>3. /\ WithIntake(row, intake) \in Row
      /\ WithIntake(row, intake).approval = row.approval
      /\ WithIntake(row, intake).metaApproval = row.metaApproval
      /\ WithIntake(row, intake).issue = (row.issue \/ intake = "created")
  BY DEF WithIntake
<1>4. /\ MarkedApproved(row) \in Row
      /\ MarkedApproved(row).approval = "approved"
      /\ MarkedApproved(row).metaApproval = "approved"
      /\ MarkedApproved(row).intake = row.intake
      /\ MarkedApproved(row).issue = row.issue
  BY DEF MarkedApproved
<1>5. /\ MarkedRejected(row) \in Row
      /\ MarkedRejected(row).approval = "rejected"
      /\ MarkedRejected(row).metaApproval = "rejected"
      /\ MarkedRejected(row).intake = row.intake
      /\ MarkedRejected(row).issue = row.issue
  BY DEF MarkedRejected
<1> HIDE DEF Row
<1> QED BY <1>1, <1>2, <1>3, <1>4, <1>5

-----------------------------------------------------------------------------
(* Types.                                                                  *)

\* A crash or failed access is counted within the bound.
LEMMA FaultType == faults \in 0..MaxFaults /\ Fault => faults' \in 0..MaxFaults
BY TableAssumption DEF Fault, TableAssumption

LEMMA TypeScheduler ==
  TypeOK /\ Scheduler(SchedulerStep) => TypeOK'
<1> SUFFICES ASSUME TypeOK, Scheduler(SchedulerStep) PROVE TypeOK'
  OBVIOUS
<1> USE DEF TypeOK, TableTypeOK, SchedulerTypeOK
<1>1. WorkerTypeOK' /\ EuropaTypeOK' /\ KeplerTypeOK'
  BY DEF Scheduler, workerVars, agentVars, europaVars, keplerVars, WorkerTypeOK,
         AgentTypeOK, EuropaTypeOK, KeplerTypeOK
<1>2. CASE FetchPending
  BY <1>1, <1>2 DEF FetchPending, FetchBy
<1>3. ASSUME NEW t \in TaskIds, DispatchTask(t) PROVE TypeOK'
  BY <1>1, <1>3, TransitionRows DEF DispatchTask, Status
<1>4. ASSUME NEW t \in TaskIds, DispatchTaskFails(t) PROVE TypeOK'
  BY <1>1, <1>4, FaultType DEF DispatchTaskFails
<1>5. CASE SchedulerRestart
  BY <1>1, <1>5, FaultType DEF SchedulerRestart
<1> QED BY <1>2, <1>3, <1>4, <1>5 DEF Scheduler, SchedulerStep

LEMMA TypeLaniakea ==
  TypeOK /\ Laniakea(WorkerStep) => TypeOK'
<1> SUFFICES ASSUME TypeOK, Laniakea(WorkerStep) PROVE TypeOK'
  OBVIOUS
<1> USE TableAssumption, HandlerAssumption
    DEF TypeOK, TableTypeOK, WorkerTypeOK, AgentTypeOK, Worker, Agent, IdleWorker,
        agentVars, TableAssumption, TaskIds
<1>1. SchedulerTypeOK' /\ EuropaTypeOK' /\ KeplerTypeOK'
  BY DEF Laniakea, schedulerVars, europaVars, keplerVars, SchedulerTypeOK,
         EuropaTypeOK, KeplerTypeOK
<1>2. ASSUME NEW w \in Workers, WorkerFetch(w) PROVE TypeOK'
  BY <1>1, <1>2 DEF WorkerFetch, FetchBy
<1>3. ASSUME NEW w \in Workers, NEW t \in TaskIds, WorkerHandles(w, t) PROVE TypeOK'
  BY <1>1, <1>3 DEF WorkerHandles, TurnTo
<1>4. ASSUME NEW w \in Workers, NEW t \in TaskIds, WorkerLaunches(w, t) PROVE TypeOK'
  BY <1>1, <1>4 DEF WorkerLaunches, TurnTo, Launch
<1>5. ASSUME NEW w \in Workers, NEW t \in TaskIds, WorkerCannotLaunch(w, t) PROVE TypeOK'
  BY <1>1, <1>5 DEF WorkerCannotLaunch, TurnTo
<1>6. ASSUME NEW a \in agents, CanopusPrepares(a) PROVE TypeOK'
  BY <1>1, <1>6 DEF CanopusPrepares, AgentPrepares, TakeBranch
<1>7. ASSUME NEW a \in agents, NEW outcome \in {"ok", "err"}, CanopusExits(a, outcome)
      PROVE TypeOK'
  BY <1>1, <1>7 DEF CanopusExits, AgentExits, Awaits
<1>8. ASSUME NEW w \in Workers, CanopusTimeout(w) PROVE TypeOK'
  BY <1>1, <1>8 DEF CanopusTimeout
<1>9. ASSUME NEW w \in Workers, WorkerReports(w) PROVE TypeOK'
  <2>1. worker[w].task \in TaskIds
    BY <1>9 DEF WorkerReports
  <2>2. "Dispatched" \in Status /\ ReportedStatus(worker[w].phase) \in Status
    BY DEF ReportedStatus, Status
  <2>3. tasks' \in [TaskIds -> Row]
    BY <1>9, <2>1, <2>2, TransitionRows DEF WorkerReports
  <2> QED BY <1>1, <1>9, <2>3 DEF WorkerReports
<1>10. ASSUME NEW w \in Workers, WorkerCannotReport(w) PROVE TypeOK'
  BY <1>1, <1>10, FaultType DEF WorkerCannotReport
<1>11. ASSUME NEW w \in Workers, WorkerRestart(w) PROVE TypeOK'
  BY <1>1, <1>11, FaultType DEF WorkerRestart
<1> QED BY <1>2, <1>3, <1>4, <1>5, <1>6, <1>7, <1>8, <1>9, <1>10, <1>11
        DEF Laniakea, WorkerStep

LEMMA TypeEuropa ==
  TypeOK /\ Europa(EuropaStep) => TypeOK'
<1> SUFFICES ASSUME TypeOK, Europa(EuropaStep) PROVE TypeOK'
  OBVIOUS
<1> USE TableAssumption
    DEF TypeOK, TableTypeOK, EuropaTypeOK, Command, IntakeResult, NoCommand,
        Waiting, europaVars, TableAssumption, TaskIds
<1>1. SchedulerTypeOK' /\ WorkerTypeOK' /\ KeplerTypeOK'
  BY DEF Europa, schedulerVars, workerVars, agentVars, keplerVars, SchedulerTypeOK,
         WorkerTypeOK, AgentTypeOK, KeplerTypeOK
<1>2. ASSUME NEW s \in Slots, NEW t \in Requested, RunBegins(s, t) PROVE TypeOK'
  BY <1>1, <1>2 DEF RunBegins
<1>3. ASSUME NEW s \in Slots, NEW t \in TaskIds, ProposeApproveBegins(s, t)
      PROVE TypeOK'
  BY <1>1, <1>3 DEF ProposeApproveBegins
<1>4. ASSUME NEW s \in Slots, NEW result \in IntakeResult, IntakeReturns(s, result)
      PROVE TypeOK'
  <2>1. /\ command[s] \in Command \ {NoCommand}
        /\ command' = [command EXCEPT ![s].intake = result]
    BY <1>4 DEF IntakeReturns
  <2>2. [command[s] EXCEPT !.intake = result] \in Command
    BY <2>1
  <2>3. command' \in [Slots -> Command] /\ issues' \subseteq TaskIds
    BY <1>4, <2>1, <2>2 DEF IntakeReturns
  <2> QED BY <1>1, <1>4, <2>3 DEF IntakeReturns
<1>5. ASSUME NEW s \in Slots, RunAppends(s) PROVE TypeOK'
  <2>1. RequestedRow(command[s].intake) \in Row
    BY WrittenRows DEF RequestedRow, Row, ApprovalState, Status
  <2>2. tasks' \in [TaskIds -> Row]
    BY <1>5, <2>1 DEF RunAppends, BotAppend
  <2> QED BY <1>1, <1>5, <2>2 DEF RunAppends
<1>6. ASSUME NEW s \in Slots, RunGivesUp(s) \/ CommandAborts(s) PROVE TypeOK'
  BY <1>1, <1>6, FaultType DEF RunGivesUp, CommandAborts
<1>7. ASSUME NEW s \in Slots, ProposeApprovePromotes(s) PROVE TypeOK'
  <2>1. command[s].task \in TaskIds
    BY <1>7 DEF ProposeApprovePromotes
  <2>2. WithIntake(tasks[command[s].task], command[s].intake) \in Row
    BY <2>1, WrittenRows
  <2>3. tasks' \in [TaskIds -> Row]
    BY <1>7, <2>1, <2>2, UpdateRows DEF ProposeApprovePromotes, Status
  <2> QED BY <1>1, <1>7, <2>1, <2>3 DEF ProposeApprovePromotes
<1>8. ASSUME NEW s \in Slots, ProposeApproveFails(s) PROVE TypeOK'
  <2>1. command[s].task \in TaskIds
    BY <1>8 DEF ProposeApproveFails
  <2>2. IntakeFailed(tasks[command[s].task]) \in Row
    BY <2>1, WrittenRows
  <2>3. tasks' \in [TaskIds -> Row]
    BY <1>8, <2>1, <2>2, UpdateRows DEF ProposeApproveFails, Status
  <2> QED BY <1>1, <1>8, <2>1, <2>3 DEF ProposeApproveFails
<1>9. ASSUME NEW t \in TaskIds, Approve(t) PROVE TypeOK'
  BY <1>1, <1>9, UpdateRows, WrittenRows DEF Approve, Status
<1>10. ASSUME NEW t \in TaskIds, Reject(t) PROVE TypeOK'
  BY <1>1, <1>10, UpdateRows, WrittenRows DEF Reject, Status
<1>11. ASSUME NEW t \in TaskIds, ProposeReject(t) PROVE TypeOK'
  BY <1>1, <1>11, UpdateRows DEF ProposeReject, Status
<1>12. ASSUME NEW t \in TaskIds, Cancel(t) PROVE TypeOK'
  BY <1>1, <1>12, UpdateRows DEF Cancel, Status
<1>13. CASE EuropaRestart
  BY <1>1, <1>13, FaultType DEF EuropaRestart, IntakesUnderWay
<1> QED BY <1>2, <1>3, <1>4, <1>5, <1>6, <1>7, <1>8, <1>9, <1>10, <1>11, <1>12, <1>13
        DEF Europa, EuropaStep

LEMMA TypeKepler ==
  TypeOK /\ Kepler(KeplerStep) => TypeOK'
<1> SUFFICES ASSUME TypeOK, Kepler(KeplerStep) PROVE TypeOK'
  OBVIOUS
<1> USE DEF TypeOK, TableTypeOK, KeplerTypeOK, Scan, NoScan, TaskIds
<1>1. SchedulerTypeOK' /\ WorkerTypeOK' /\ EuropaTypeOK'
  BY DEF Kepler, schedulerVars, workerVars, agentVars, europaVars, SchedulerTypeOK,
         WorkerTypeOK, AgentTypeOK, EuropaTypeOK
<1>2. ASSUME NEW findings \in SUBSET Discovered, KeplerScans(findings) PROVE TypeOK'
  <2>1. PICK known \in SUBSET Discovered :
          scan' = [busy |-> TRUE, todo |-> findings, known |-> known]
    BY <1>2 DEF KeplerScans
  <2>2. faults' \in 0..MaxFaults
    BY <1>2, FaultType DEF KeplerScans
  <2> QED BY <1>1, <1>2, <2>1, <2>2 DEF KeplerScans
<1>3. ASSUME NEW t \in Discovered, KeplerRegisters(t) PROVE TypeOK'
  <2>1. ProposalRow \in Row /\ ProposalRow.metaApproval = "none"
    BY DEF ProposalRow, NoRow, Row, ApprovalState, Status
  <2>2. tasks' \in [TaskIds -> Row]
    BY <1>3, <2>1, CreateRows DEF KeplerRegisters
  <2> QED BY <1>1, <1>3, <2>2 DEF KeplerRegisters
<1>4. ASSUME NEW t \in Discovered, KeplerCannotRegister(t) PROVE TypeOK'
  <2>1. PICK known \in {scan.known, KnownAfterFailure(t, scan.known)} :
          scan' = [scan EXCEPT !.todo = @ \ {t}, !.known = known]
    BY <1>4 DEF KeplerCannotRegister
  <2>3. known \in SUBSET Discovered
    BY <2>1 DEF KnownAfterFailure
  <2>2. faults' \in 0..MaxFaults
    BY <1>4, FaultType DEF KeplerCannotRegister
  <2> QED BY <1>1, <1>4, <2>1, <2>3, <2>2 DEF KeplerCannotRegister
<1>5. CASE KeplerWritesSeen
  BY <1>1, <1>5 DEF KeplerWritesSeen
<1>6. CASE KeplerCannotWriteSeen
  BY <1>1, <1>6, FaultType DEF KeplerCannotWriteSeen
<1>7. CASE KeplerRestart
  BY <1>1, <1>7, FaultType DEF KeplerRestart
<1> QED BY <1>2, <1>3, <1>4, <1>5, <1>6, <1>7 DEF Kepler, KeplerStep

LEMMA TypeInit == Init => TypeOK
BY TableAssumption
   DEF Init, TableInit, SchedulerInit, WorkerInit, AgentInit, EuropaInit, KeplerInit,
       TypeOK, TableTypeOK, SchedulerTypeOK, WorkerTypeOK, AgentTypeOK, EuropaTypeOK,
       KeplerTypeOK, TableAssumption, NoRow, Row, ApprovalState, IdleWorker, Worker,
       NoCommand, Command, NoScan, Scan

LEMMA TypeStep == TypeOK /\ [Next]_vars => TypeOK'
<1>1. TypeOK /\ Next => TypeOK'
  BY TypeScheduler, TypeLaniakea, TypeEuropa, TypeKepler DEF Next
<1>2. TypeOK /\ UNCHANGED vars => TypeOK'
  BY DEF vars, schedulerVars, workerVars, agentVars, europaVars, keplerVars, TypeOK,
         TableTypeOK, SchedulerTypeOK, WorkerTypeOK, AgentTypeOK, EuropaTypeOK,
         KeplerTypeOK
<1> QED BY <1>1, <1>2

\* Every variable keeps its type, and a worker has a task exactly while it is
\* not idle, in every instance of the pipeline.
THEOREM TypeCorrect == Spec => []TypeOK
BY TypeInit, TypeStep, PTL DEF Spec

-----------------------------------------------------------------------------
(* The safety invariant: TON618 and Kepler.                                *)

LEMMA SafetyScheduler ==
  SafetyInv /\ Scheduler(SchedulerStep) => SafetyInv'
<1> SUFFICES ASSUME SafetyInv, Scheduler(SchedulerStep) PROVE SafetyInv'
  OBVIOUS
<1> USE DEF SafetyInv
<1>1. TypeOK'
  BY TypeScheduler
<1>2. UNCHANGED <<agents, branches, launches, worker, worked, command, issues,
                  promoted, approved, seen, scan>>
  BY DEF Scheduler, workerVars, agentVars, europaVars, keplerVars
<1>3. ResultInv' /\ BranchInv'
  BY <1>2 DEF ResultInv, BranchInv
<1>4. CASE UNCHANGED tasks
  <2>1. RowInv' /\ SnapshotInv' /\ GateInv' /\ CommandInv' /\ WorkHasItsIssue' /\ LedgerInv'
    BY <1>2, <1>4 DEF RowInv, SnapshotInv, GateInv, CommandInv, WorkHasItsIssue,
                      LedgerInv, Taken, Exists
  <2> QED BY <1>1, <1>3, <2>1
<1>5. ASSUME NEW t \in TaskIds, DispatchTask(t) PROVE SafetyInv'
  <2>1. \A u \in TaskIds :
          /\ tasks'[u].status = IF u = t /\ tasks[t].status = "Pending"
                                THEN "Dispatched" ELSE tasks[u].status
          /\ tasks'[u].approval = tasks[u].approval
          /\ tasks'[u].metaApproval \in {tasks[u].metaApproval, "none"}
          /\ tasks'[u].issue = tasks[u].issue
    BY <1>5, TransitionRows
       DEF DispatchTask, TypeOK, Status, TransitionAllowed, CanTransitionTo
  <2>2. RowInv'
    BY <1>2, <2>1 DEF RowInv
  <2>3. SnapshotInv' /\ GateInv'
    BY <1>2, <2>1 DEF SnapshotInv, GateInv, Taken, Started, Released, TaskIds
  <2>4. WorkHasItsIssue'
    BY <1>2, <2>1 DEF WorkHasItsIssue
  <2>5. \A u \in TaskIds : Exists(u)' <=> Exists(u)
    BY <2>1 DEF Exists
  <2>6. CommandInv' /\ LedgerInv'
    BY <1>2, <2>5 DEF CommandInv, LedgerInv, TypeOK, KeplerTypeOK, Scan, TaskIds
  <2> QED BY <1>1, <1>3, <2>2, <2>3, <2>4, <2>6
<1>6. UNCHANGED tasks \/ \E t \in TaskIds : DispatchTask(t)
  BY DEF Scheduler, SchedulerStep, FetchPending, DispatchTaskFails, SchedulerRestart
<1> QED BY <1>4, <1>5, <1>6

LEMMA SafetyKepler ==
  SafetyInv /\ Kepler(KeplerStep) => SafetyInv'
<1> SUFFICES ASSUME SafetyInv, Kepler(KeplerStep) PROVE SafetyInv'
  OBVIOUS
<1> USE DEF SafetyInv
<1>1. TypeOK'
  BY TypeKepler
<1>2. UNCHANGED <<agents, branches, launches, worker, worked, command, issues,
                  promoted, approved>>
  BY DEF Kepler, workerVars, agentVars, europaVars
<1>3. ResultInv' /\ BranchInv'
  BY <1>2 DEF ResultInv, BranchInv
<1>4. ASSUME UNCHANGED tasks, LedgerInv' PROVE SafetyInv'
  <2>1. RowInv' /\ SnapshotInv' /\ GateInv' /\ CommandInv' /\ WorkHasItsIssue'
    BY <1>2, <1>4 DEF RowInv, SnapshotInv, GateInv, CommandInv, WorkHasItsIssue,
                      Taken, Exists
  <2> QED BY <1>1, <1>3, <1>4, <2>1
<1>5. ASSUME NEW findings \in SUBSET Discovered, KeplerScans(findings) PROVE SafetyInv'
  <2>1. UNCHANGED <<tasks, seen>> /\ scan'.known \subseteq seen
    BY <1>5 DEF KeplerScans
  <2>2. LedgerInv'
    BY <2>1 DEF LedgerInv, Exists
  <2> QED BY <1>4, <2>1, <2>2
<1>6. ASSUME NEW t \in Discovered, KeplerCannotRegister(t) PROVE SafetyInv'
  <2>1. UNCHANGED <<tasks, seen>>
    BY <1>6 DEF KeplerCannotRegister
  <2>2. \A u \in scan'.known : u \in scan.known \/ (u = t /\ Exists(t))
    BY <1>6 DEF KeplerCannotRegister, KnownAfterFailure, TypeOK, KeplerTypeOK, Scan
  <2>3. LedgerInv'
    BY <2>1, <2>2 DEF LedgerInv, Exists
  <2> QED BY <1>4, <2>1, <2>3
<1>7. CASE KeplerWritesSeen
  <2>1. LedgerInv'
    BY <1>7 DEF KeplerWritesSeen, LedgerInv, Exists, NoScan
  <2> QED BY <1>4, <1>7, <2>1 DEF KeplerWritesSeen
<1>8. CASE KeplerCannotWriteSeen \/ KeplerRestart
  <2>1. LedgerInv'
    BY <1>8 DEF KeplerCannotWriteSeen, KeplerRestart, LedgerInv, Exists, NoScan
  <2> QED BY <1>4, <1>8, <2>1 DEF KeplerCannotWriteSeen, KeplerRestart
<1>9. ASSUME NEW t \in Discovered, KeplerRegisters(t) PROVE SafetyInv'
  <2>1. CASE t \in scan.known
    <3>1. UNCHANGED <<tasks, seen>> /\ scan'.known = scan.known
      BY <1>9, <2>1 DEF KeplerRegisters, TypeOK, KeplerTypeOK, Scan
    <3>2. LedgerInv'
      BY <3>1 DEF LedgerInv, Exists
    <3> QED BY <1>4, <3>1, <3>2
  <2>2. CASE t \notin scan.known
    <3>1. ProposalRow \in Row /\ ProposalRow.metaApproval = "none"
          /\ ProposalRow.status = "PendingProposal" /\ ProposalRow.approval = "none"
      BY DEF ProposalRow, NoRow, Row, ApprovalState, Status
    <3>2. tasks' = AfterCreate(t, ProposalRow) /\ t \in TaskIds
      BY <1>9, <2>2 DEF KeplerRegisters, TaskIds
    <3>3. \A u \in TaskIds :
            /\ IF u = t /\ ~Exists(t)
               THEN tasks'[u].status = "PendingProposal" /\ tasks'[u].approval = "none"
                    /\ tasks'[u].metaApproval = "none"
               ELSE /\ tasks'[u].status = tasks[u].status
                    /\ tasks'[u].approval = tasks[u].approval
                    /\ tasks'[u].metaApproval \in {tasks[u].metaApproval, "none"}
                    /\ tasks'[u].issue = tasks[u].issue
      BY <3>1, <3>2, CreateRows DEF TypeOK
    <3>4. RowInv'
      BY <1>2, <1>9, <3>3 DEF RowInv, KeplerRegisters
    <3>5. SnapshotInv' /\ GateInv'
      BY <1>2, <3>3 DEF SnapshotInv, GateInv, Taken, Started, Released, TaskIds, Exists
    <3>6. WorkHasItsIssue'
      BY <1>2, <3>3 DEF WorkHasItsIssue
    <3>7. \A u \in TaskIds : Exists(u)' <=> Exists(u) \/ u = t
      BY <3>3 DEF Exists
    <3>8. CommandInv'
      BY <1>2, <3>7, TableAssumption DEF CommandInv, TableAssumption, TaskIds
    <3>9. LedgerInv'
      BY <1>9, <3>7 DEF LedgerInv, KeplerRegisters, TypeOK, KeplerTypeOK, Scan, TaskIds
    <3> QED BY <1>1, <1>3, <3>4, <3>5, <3>6, <3>8, <3>9
  <2> QED BY <2>1, <2>2
<1> QED BY <1>5, <1>6, <1>7, <1>8, <1>9 DEF Kepler, KeplerStep

-----------------------------------------------------------------------------
(* The safety invariant: Laniakea and its canopus processes.               *)

\* A worker's step that leaves the table alone and takes no task that was not
\* dispatched keeps all but the conjuncts about results and branches.
LEMMA SafetyAwayFromTable ==
  ASSUME SafetyInv, TypeOK', UNCHANGED <<tasks, command, issues, promoted, approved,
                                         seen, scan>>,
         worked \subseteq worked',
         \A t \in TaskIds : Taken(t)' => Taken(t) \/ tasks[t].status = "Dispatched",
         ResultInv', BranchInv'
  PROVE  SafetyInv'
<1> USE DEF SafetyInv
<1>1. RowInv'
  BY DEF RowInv
<1>2. SnapshotInv' /\ GateInv'
  <2> HIDE DEF Taken
  <2> QED BY DEF SnapshotInv, GateInv, Started, Released, TaskIds
<1>3. CommandInv' /\ WorkHasItsIssue' /\ LedgerInv'
  BY DEF CommandInv, WorkHasItsIssue, LedgerInv, Exists
<1> QED BY <1>1, <1>2, <1>3

\* What a worker's step, or that of a canopus process, does besides the table:
\* results stay earned, a branch has one process, and only dispatched tasks come
\* into a snapshot.
WorkersGoOn ==
  /\ ResultInv' /\ BranchInv' /\ worked \subseteq worked'
  /\ \A t \in TaskIds : Taken(t)' => Taken(t) \/ tasks[t].status = "Dispatched"

LEMMA WorkersAndBranches ==
  ASSUME TypeOK, ResultInv, BranchInv, WorkerStep
  PROVE  WorkersGoOn
<1>1. worker \in [Workers -> Worker] /\ launches \in [TaskIds -> Nat]
      /\ agents \subseteq Agent
  BY DEF TypeOK, WorkerTypeOK, AgentTypeOK
<1> USE DEF Worker, IdleWorker, agentVars
<1>2. ASSUME NEW w \in Workers, WorkerFetch(w) PROVE WorkersGoOn
  <2>1. \A t \in TaskIds : Taken(t)' => Taken(t) \/ tasks[t].status = "Dispatched"
    BY <1>1, <1>2 DEF WorkerFetch, FetchBy, Taken
  <2>2. ResultInv' /\ BranchInv' /\ worked' = worked
    BY <1>1, <1>2 DEF WorkerFetch, ResultInv, BranchInv
  <2> QED BY <2>1, <2>2 DEF WorkersGoOn
<1>3. ASSUME NEW w \in Workers, NEW t \in TaskIds, WorkerHandles(w, t) PROVE WorkersGoOn
  <2>1. \A u \in TaskIds : Taken(u)' => Taken(u)
    BY <1>1, <1>3 DEF WorkerHandles, TurnTo, Taken
  <2>2. ResultInv' /\ worked \subseteq worked'
    BY <1>1, <1>3 DEF WorkerHandles, TurnTo, ResultInv
  <2>3. BranchInv'
    BY <1>1, <1>3 DEF WorkerHandles, TurnTo, BranchInv, RunsCanopus
  <2> QED BY <2>1, <2>2, <2>3 DEF WorkersGoOn
<1>4. ASSUME NEW w \in Workers, NEW t \in TaskIds, WorkerLaunches(w, t) PROVE WorkersGoOn
  <2>1. \A u \in TaskIds : Taken(u)' => Taken(u)
    BY <1>1, <1>4 DEF WorkerLaunches, TurnTo, Launch, Taken
  <2>2. ResultInv' /\ worked' = worked
    BY <1>1, <1>4 DEF WorkerLaunches, TurnTo, ResultInv
  <2>3. BranchInv'
    BY <1>1, <1>4 DEF WorkerLaunches, TurnTo, Launch, BranchInv
  <2> QED BY <2>1, <2>2, <2>3 DEF WorkersGoOn
<1>5. ASSUME NEW w \in Workers, NEW t \in TaskIds, WorkerCannotLaunch(w, t)
      PROVE WorkersGoOn
  <2>1. \A u \in TaskIds : Taken(u)' => Taken(u)
    BY <1>1, <1>5 DEF WorkerCannotLaunch, TurnTo, Taken
  <2>2. ResultInv' /\ BranchInv' /\ worked' = worked
    BY <1>1, <1>5 DEF WorkerCannotLaunch, TurnTo, ResultInv, BranchInv
  <2> QED BY <2>1, <2>2 DEF WorkersGoOn
<1>6. ASSUME NEW a \in agents, CanopusPrepares(a) PROVE WorkersGoOn
  <2>1. \A u \in TaskIds : Taken(u)' => Taken(u)
    BY <1>6 DEF CanopusPrepares, AgentPrepares, Taken
  <2>2. ResultInv' /\ worked' = worked
    BY <1>6 DEF CanopusPrepares, ResultInv
  <2>3. BranchInv'
    <3> DEFINE new == [a EXCEPT !.phase = "working"]
    <3>1. new.task = a.task /\ new.phase = "working" /\ a.task \in TaskIds
      BY <1>1, <1>6 DEF Agent
    <3>2. /\ agents' = (agents \ {a}) \cup {new}
          /\ worked' = worked
          /\ branches \subseteq branches'
          /\ Handler[a.task] = "implement" =>
               a.task \notin branches /\ a.task \in branches'
      BY <1>6 DEF CanopusPrepares, AgentPrepares, TakeBranch
    <3> HIDE DEF new
    <3>3. \A t \in worked' : Handler[t] = "implement" => t \in branches'
      BY <3>2 DEF BranchInv
    <3>4. ASSUME NEW b \in agents', b.phase = "working", Handler[b.task] = "implement"
          PROVE  b.task \in branches' \ worked'
      BY <3>1, <3>2, <3>4 DEF BranchInv
    <3>5. ASSUME NEW b \in agents', b.phase = "working", Handler[b.task] = "implement",
                 NEW c \in agents', c.phase = "working", c.task = b.task
          PROVE  c = b
      BY <3>1, <3>2, <3>5 DEF BranchInv
    <3> QED BY <3>3, <3>4, <3>5 DEF BranchInv
  <2> QED BY <2>1, <2>2, <2>3 DEF WorkersGoOn
<1>7. ASSUME NEW a \in agents, NEW outcome \in {"ok", "err"}, CanopusExits(a, outcome)
      PROVE WorkersGoOn
  <2>1. \A u \in TaskIds : Taken(u)' => Taken(u)
    BY <1>1, <1>7 DEF CanopusExits, AgentExits, Taken
  <2>2. ResultInv' /\ worked \subseteq worked'
    BY <1>1, <1>7 DEF CanopusExits, Awaits, ResultInv
  <2>3. BranchInv'
    BY <1>1, <1>7 DEF CanopusExits, AgentExits, BranchInv
  <2> QED BY <2>1, <2>2, <2>3 DEF WorkersGoOn
<1>8. ASSUME NEW w \in Workers,
             CanopusTimeout(w) \/ WorkerCannotReport(w) \/ WorkerRestart(w)
      PROVE WorkersGoOn
  <2>1. /\ UNCHANGED <<worked, branches, launches>> /\ agents' \subseteq agents
        /\ \A x \in Workers \ {w} : worker'[x] = worker[x]
        /\ worker'[w].phase # "ok"
        /\ worker'[w].batch \subseteq worker[w].batch
        /\ worker'[w].task \in {worker[w].task, NoTask}
    <3>1. CASE CanopusTimeout(w)
      BY <1>1, <3>1 DEF CanopusTimeout
    <3>2. CASE WorkerCannotReport(w)
      BY <1>1, <3>2 DEF WorkerCannotReport
    <3>3. CASE WorkerRestart(w)
      BY <1>1, <3>3 DEF WorkerRestart
    <3> QED BY <1>8, <3>1, <3>2, <3>3
  <2>2. \A u \in TaskIds : Taken(u)' => Taken(u)
    BY <1>1, <2>1, TableAssumption DEF Taken, TableAssumption, TaskIds
  <2>3. ResultInv' /\ BranchInv'
    BY <1>1, <2>1 DEF ResultInv, BranchInv
  <2> QED BY <2>1, <2>2, <2>3 DEF WorkersGoOn
<1>9. ASSUME NEW w \in Workers, WorkerReports(w) PROVE WorkersGoOn
  <2>1. /\ UNCHANGED <<agents, branches, launches, worked>>
        /\ \A u \in TaskIds : Taken(u)' => Taken(u)
        /\ ResultInv' /\ BranchInv'
    BY <1>1, <1>9, TableAssumption
       DEF WorkerReports, Taken, ResultInv, BranchInv, TableAssumption, TaskIds
  <2> QED BY <2>1 DEF WorkersGoOn
<1> QED BY <1>2, <1>3, <1>4, <1>5, <1>6, <1>7, <1>8, <1>9 DEF WorkerStep

\* A report moves a dispatched task to review, if its work is finished, or fails it.
LEMMA ReportedRows ==
  ASSUME TypeOK, ResultInv, NEW w \in Workers, WorkerReports(w)
  PROVE  \E t \in TaskIds, next \in {"PendingReview", "Failed"} :
           /\ next = "PendingReview" => t \in worked
           /\ \A u \in TaskIds :
                /\ tasks'[u].status = IF u = t /\ tasks[t].status = "Dispatched"
                                      THEN next ELSE tasks[u].status
                /\ tasks'[u].approval = tasks[u].approval
                /\ tasks'[u].metaApproval \in {tasks[u].metaApproval, "none"}
                /\ tasks'[u].issue = tasks[u].issue
<1> DEFINE t == worker[w].task
           next == ReportedStatus(worker[w].phase)
<1>1. /\ t \in TaskIds
      /\ next \in {"PendingReview", "Failed"}
      /\ next = "PendingReview" => t \in worked
  BY DEF WorkerReports, TypeOK, WorkerTypeOK, Worker, ResultInv, ReportedStatus
<1>2. /\ "Dispatched" \in Status /\ next \in Status
      /\ TransitionAllowed("Dispatched", next)
  BY <1>1 DEF Status, TransitionAllowed, CanTransitionTo
<1>3. \A u \in TaskIds :
        /\ tasks'[u].status = IF u = t /\ tasks[t].status = "Dispatched"
                              THEN next ELSE tasks[u].status
        /\ tasks'[u].approval = tasks[u].approval
        /\ tasks'[u].metaApproval \in {tasks[u].metaApproval, "none"}
        /\ tasks'[u].issue = tasks[u].issue
  BY <1>1, <1>2, TransitionRows DEF WorkerReports, TypeOK
<1> HIDE DEF t, next
<1> QED BY <1>1, <1>3

LEMMA SafetyLaniakea ==
  SafetyInv /\ Laniakea(WorkerStep) => SafetyInv'
<1> SUFFICES ASSUME SafetyInv, Laniakea(WorkerStep) PROVE SafetyInv'
  OBVIOUS
<1> USE DEF SafetyInv
<1>1. TypeOK'
  BY TypeLaniakea
<1>2. UNCHANGED <<command, issues, promoted, approved, seen, scan>>
  BY DEF Laniakea, europaVars, keplerVars
<1>3. WorkersGoOn
  BY WorkersAndBranches DEF Laniakea
<1>4. UNCHANGED tasks \/ \E w \in Workers : WorkerReports(w)
  BY DEF Laniakea, WorkerStep, WorkerFetch, WorkerHandles, WorkerLaunches,
         WorkerCannotLaunch, TurnTo, CanopusPrepares, CanopusExits, CanopusTimeout,
         WorkerCannotReport, WorkerRestart
<1>5. CASE UNCHANGED tasks
  BY <1>1, <1>2, <1>3, <1>5, SafetyAwayFromTable DEF WorkersGoOn
<1>6. ASSUME NEW w \in Workers, WorkerReports(w) PROVE SafetyInv'
  <2>1. PICK t \in TaskIds, next \in {"PendingReview", "Failed"} :
          /\ next = "PendingReview" => t \in worked
          /\ \A u \in TaskIds :
               /\ tasks'[u].status = IF u = t /\ tasks[t].status = "Dispatched"
                                     THEN next ELSE tasks[u].status
               /\ tasks'[u].approval = tasks[u].approval
               /\ tasks'[u].metaApproval \in {tasks[u].metaApproval, "none"}
               /\ tasks'[u].issue = tasks[u].issue
    BY <1>6, ReportedRows
  <2>2. RowInv'
    BY <1>2, <1>3, <2>1 DEF RowInv, WorkersGoOn
  <2>3. SnapshotInv' /\ GateInv'
    <3>1. \A u \in TaskIds : Taken(u)' => Taken(u) \/ tasks[u].status = "Dispatched"
      BY <1>3 DEF WorkersGoOn
    <3> QED BY <1>2, <2>1, <3>1 DEF SnapshotInv, GateInv, Started, Released, TaskIds
  <2>4. WorkHasItsIssue'
    BY <1>2, <2>1 DEF WorkHasItsIssue
  <2>5. \A u \in TaskIds : Exists(u)' <=> Exists(u)
    BY <2>1 DEF Exists
  <2>6. CommandInv' /\ LedgerInv'
    BY <1>2, <2>5 DEF CommandInv, LedgerInv, TypeOK, KeplerTypeOK, Scan, TaskIds
  <2> QED BY <1>1, <1>3, <2>2, <2>3, <2>4, <2>6 DEF WorkersGoOn
<1> QED BY <1>4, <1>5, <1>6

-----------------------------------------------------------------------------
(* The safety invariant: Europa.                                           *)

\* A command that leaves the table alone disturbs only the conjunct about
\* commands.
LEMMA SafetyBesideTable ==
  ASSUME SafetyInv, TypeOK', CommandInv', issues \subseteq issues',
         UNCHANGED <<tasks, agents, branches, launches, worker, worked, promoted,
                     approved, seen, scan>>
  PROVE  SafetyInv'
<1> USE DEF SafetyInv
<1>1. RowInv' /\ SnapshotInv' /\ GateInv' /\ ResultInv' /\ BranchInv'
  BY DEF RowInv, SnapshotInv, GateInv, ResultInv, BranchInv, Taken
<1>2. WorkHasItsIssue' /\ LedgerInv'
  BY DEF WorkHasItsIssue, LedgerInv, Exists
<1> QED BY <1>1, <1>2

\* A locked update of one row that has one of the statuses of a command: the
\* row conjuncts of the new row are what is left to show.
LEMMA SafetyOfUpdate ==
  ASSUME SafetyInv, TypeOK', CommandInv',
         NEW t \in TaskIds, Exists(t),
         \A u \in TaskIds \ {t} : tasks'[u] = tasks[u],
         UNCHANGED <<agents, branches, launches, worker, worked, issues, seen, scan>>,
         promoted \subseteq promoted', approved \subseteq approved',
         tasks'[t].status \in Status,
         tasks'[t].status = "Pending" =>
           /\ tasks[t].status = "PendingProposal" /\ t \in promoted'
           /\ GitHubBacked /\ ~IntakeLocalOnly => tasks'[t].issue /\ t \in issues,
         tasks'[t].status # "Dispatched", tasks'[t].status # "PendingReview",
         tasks'[t].status = "Processed" =>
           /\ tasks[t].status = "PendingReview" /\ t \in approved'
           /\ tasks'[t].issue = tasks[t].issue,
         tasks'[t].status = "PendingProposal" => tasks[t].status = "PendingProposal",
         tasks'[t].approval = "approved" <=> tasks'[t].status = "Processed",
         tasks'[t].metaApproval = "approved" => tasks'[t].approval = "approved"
  PROVE  SafetyInv'
<1> USE DEF SafetyInv
<1>1. RowInv'
  BY DEF RowInv
<1>2. SnapshotInv'
  <2>1. \A u \in TaskIds : Taken(u)' <=> Taken(u)
    BY DEF Taken
  <2>2. Taken(t) => tasks'[t].status \in Started
    BY DEF SnapshotInv, Started, Status
  <2> QED BY <2>1, <2>2 DEF SnapshotInv
<1>3. GateInv'
  <2>1. \A u \in TaskIds : Taken(u)' <=> Taken(u)
    BY DEF Taken
  <2> QED BY <2>1 DEF GateInv, Released, TaskIds
<1>4. ResultInv' /\ BranchInv'
  BY DEF ResultInv, BranchInv
<1>5. WorkHasItsIssue'
  BY DEF WorkHasItsIssue
<1>6. LedgerInv'
  BY DEF LedgerInv, Exists, Status, TypeOK, KeplerTypeOK, Scan, TaskIds
<1> QED BY <1>1, <1>2, <1>3, <1>4, <1>5, <1>6

LEMMA SafetyEuropa ==
  SafetyInv /\ Europa(EuropaStep) => SafetyInv'
<1> SUFFICES ASSUME SafetyInv, Europa(EuropaStep) PROVE SafetyInv'
  OBVIOUS
<1> USE DEF SafetyInv
<1>1. TypeOK'
  BY TypeEuropa
<1>2. UNCHANGED <<agents, branches, launches, worker, worked, seen, scan>>
  BY DEF Europa, workerVars, agentVars, keplerVars
<1>3. command \in [Slots -> Command] /\ command' \in [Slots -> Command]
  BY <1>1 DEF TypeOK, EuropaTypeOK
<1>4. tasks \in [TaskIds -> Row]
  BY DEF TypeOK, TableTypeOK
<1> USE DEF Command, NoCommand, europaVars
<1>5. ASSUME NEW s \in Slots, NEW t \in Requested, RunBegins(s, t) PROVE SafetyInv'
  <2>1. /\ command' = [command EXCEPT ![s] = Waiting("run", t)]
        /\ ~Exists(t) /\ \A other \in Slots : command[other].task # t
        /\ UNCHANGED <<tasks, issues, promoted, approved>>
    BY <1>5 DEF RunBegins
  <2>2. CommandInv'
    BY <1>3, <2>1 DEF CommandInv, Waiting, Exists
  <2> QED BY <1>1, <1>2, <2>1, <2>2, SafetyBesideTable
<1>6. ASSUME NEW s \in Slots, NEW t \in TaskIds, ProposeApproveBegins(s, t)
      PROVE SafetyInv'
  <2>1. /\ command' = [command EXCEPT ![s] = Waiting("propose-approve", t)]
        /\ Exists(t)
        /\ UNCHANGED <<tasks, issues, promoted, approved>>
    BY <1>6 DEF ProposeApproveBegins, HasStatusIn, Exists
  <2>2. CommandInv'
    BY <1>3, <2>1 DEF CommandInv, Waiting, Exists
  <2> QED BY <1>1, <1>2, <2>1, <2>2, SafetyBesideTable
<1>7. ASSUME NEW s \in Slots, NEW result \in IntakeResult, IntakeReturns(s, result)
      PROVE SafetyInv'
  <2>1. /\ command' = [command EXCEPT ![s].intake = result]
        /\ issues \subseteq issues'
        /\ result = "created" => command[s].task \in issues'
        /\ result = "skipped" => ~GitHubBacked
        /\ UNCHANGED <<tasks, promoted, approved>>
    BY <1>7 DEF IntakeReturns
  <2>2. /\ command'[s].name = command[s].name /\ command'[s].task = command[s].task
        /\ command'[s].intake = result
        /\ \A other \in Slots \ {s} : command'[other] = command[other]
    BY <1>3, <2>1
  <2>3. CommandInv'
    BY <2>1, <2>2 DEF CommandInv, Exists
  <2> QED BY <1>1, <1>2, <2>1, <2>3, SafetyBesideTable
<1>8. ASSUME NEW s \in Slots, RunGivesUp(s) \/ CommandAborts(s) PROVE SafetyInv'
  <2>1. /\ command' = [command EXCEPT ![s] = NoCommand]
        /\ UNCHANGED <<tasks, issues, promoted, approved>>
    BY <1>8 DEF RunGivesUp, CommandAborts
  <2>2. CommandInv'
    BY <1>3, <2>1, TableAssumption DEF CommandInv, Exists, TableAssumption
  <2> QED BY <1>1, <1>2, <2>1, <2>2, SafetyBesideTable
<1>9. CASE EuropaRestart
  <2>1. /\ command' = [s \in Slots |-> NoCommand]
        /\ issues \subseteq issues'
        /\ UNCHANGED <<tasks, promoted, approved>>
    BY <1>9 DEF EuropaRestart
  <2>2. CommandInv'
    BY <2>1 DEF CommandInv
  <2> QED BY <1>1, <1>2, <2>1, <2>2, SafetyBesideTable
<1>10. ASSUME NEW s \in Slots, RunAppends(s) PROVE SafetyInv'
  <2> DEFINE t == command[s].task
             row == RequestedRow(command[s].intake)
  <2>1. /\ t \in Requested /\ t \in TaskIds /\ ~Exists(t)
        /\ \A other \in Slots \ {s} : command[other].task # t
        /\ command[s].intake = "created" => t \in issues
        /\ command[s].intake = "skipped" => ~GitHubBacked
    BY <1>10 DEF RunAppends, CommandInv, TaskIds
  <2>2. /\ MayGoOn(s)
        /\ tasks' = [tasks EXCEPT ![t] = row]
        /\ command' = [command EXCEPT ![s] = NoCommand]
        /\ UNCHANGED <<issues, promoted, approved>>
    BY <1>10 DEF RunAppends, BotAppend
  <2>3. /\ row.status = "Pending" /\ row.approval = "pending"
        /\ row.metaApproval = "pending"
        /\ row.issue = (command[s].intake = "created")
    BY DEF RequestedRow
  <2>4. /\ tasks'[t] = row
        /\ \A u \in TaskIds \ {t} : tasks'[u] = tasks[u]
    BY <1>4, <2>1, <2>2
  <2>5. GitHubBacked /\ ~IntakeLocalOnly => row.issue /\ t \in issues
    BY <2>1, <2>2, <2>3 DEF MayGoOn
  <2> HIDE DEF t, row
  <2>6. RowInv'
    BY <1>2, <2>2, <2>3, <2>4 DEF RowInv
  <2>7. \A u \in TaskIds : Taken(u)' <=> Taken(u)
    BY <1>2 DEF Taken
  <2>8. SnapshotInv' /\ GateInv'
    BY <2>1, <2>2, <2>4, <2>7, TableAssumption
       DEF SnapshotInv, GateInv, Exists, Started, TableAssumption, TaskIds
  <2>9. ResultInv' /\ BranchInv'
    BY <1>2 DEF ResultInv, BranchInv
  <2>10. CommandInv'
    BY <1>3, <2>1, <2>2, <2>4, TableAssumption
       DEF CommandInv, Exists, TableAssumption, TaskIds, t
  <2>11. WorkHasItsIssue'
    BY <2>2, <2>4, <2>5 DEF WorkHasItsIssue
  <2>12. LedgerInv'
    BY <1>2, <2>3, <2>4 DEF LedgerInv, Exists, TypeOK, KeplerTypeOK, Scan, TaskIds
  <2> QED BY <1>1, <2>6, <2>8, <2>9, <2>10, <2>11, <2>12
<1>11. ASSUME NEW s \in Slots, ProposeApprovePromotes(s) PROVE SafetyInv'
  <2> DEFINE t == command[s].task
             row == WithIntake(tasks[t], command[s].intake)
  <2>1. /\ t \in TaskIds /\ MayGoOn(s)
        /\ command' = [command EXCEPT ![s] = NoCommand]
        /\ UNCHANGED <<issues, approved>>
    BY <1>3, <1>11 DEF ProposeApprovePromotes
  <2>2. CASE tasks[t].status = "PendingProposal"
    <3>1. BotUpdate(t, row, "Pending") /\ promoted' = promoted \cup {t}
      BY <1>11, <2>2 DEF ProposeApprovePromotes, HasStatusIn
    <3>2. /\ row \in Row
          /\ row.approval = tasks[t].approval
          /\ row.metaApproval = tasks[t].metaApproval
          /\ row.issue = (tasks[t].issue \/ command[s].intake = "created")
      <4>1. tasks[t] \in Row
        BY <1>4, <2>1
      <4> QED BY <4>1 DEF WithIntake, Row, ApprovalState
    <3>3. /\ \A u \in TaskIds \ {t} : tasks'[u] = tasks[u]
          /\ tasks'[t].status = "Pending"
          /\ tasks'[t].approval = tasks[t].approval
          /\ tasks'[t].metaApproval = tasks[t].metaApproval
          /\ tasks'[t].issue = (tasks[t].issue \/ command[s].intake = "created")
      BY <2>1, <3>1, <3>2, UpdateRows DEF TypeOK, Status
    <3>4. GitHubBacked /\ ~IntakeLocalOnly => tasks'[t].issue /\ t \in issues
      BY <2>1, <3>3 DEF MayGoOn, CommandInv
    <3>5. tasks[t].approval # "approved" /\ tasks[t].metaApproval # "approved"
      BY <2>1, <2>2 DEF RowInv
    <3>6. CommandInv'
      BY <1>3, <2>1, <2>2, <3>3, TableAssumption
         DEF CommandInv, Exists, TableAssumption, TaskIds
    <3> HIDE DEF t, row
    <3> QED BY <1>1, <1>2, <2>1, <2>2, <3>1, <3>3, <3>4, <3>5, <3>6, SafetyOfUpdate
            DEF Exists, Status
  <2>3. CASE tasks[t].status # "PendingProposal"
    <3>1. UNCHANGED <<tasks, promoted>>
      BY <1>11, <2>3 DEF ProposeApprovePromotes, HasStatusIn
    <3>2. CommandInv'
      BY <1>3, <2>1, <3>1, TableAssumption DEF CommandInv, Exists, TableAssumption, TaskIds
    <3> QED BY <1>1, <1>2, <2>1, <3>1, <3>2, SafetyBesideTable
  <2> QED BY <2>2, <2>3
<1>12. ASSUME NEW s \in Slots, ProposeApproveFails(s) PROVE SafetyInv'
  <2> DEFINE t == command[s].task
             row == IntakeFailed(tasks[t])
  <2>1. /\ t \in TaskIds
        /\ command' = [command EXCEPT ![s] = NoCommand]
        /\ UNCHANGED <<issues, promoted, approved>>
    BY <1>3, <1>12 DEF ProposeApproveFails
  <2>2. CASE tasks[t].status = "PendingProposal"
    <3>1. BotUpdate(t, row, "PendingProposal")
      BY <1>12, <2>2 DEF ProposeApproveFails, HasStatusIn
    <3>2. /\ row \in Row
          /\ row.approval = tasks[t].approval
          /\ row.metaApproval = tasks[t].metaApproval
      BY <1>4, <2>1, WrittenRows
    <3>3. /\ \A u \in TaskIds \ {t} : tasks'[u] = tasks[u]
          /\ tasks'[t].status = "PendingProposal"
          /\ tasks'[t].approval = tasks[t].approval
          /\ tasks'[t].metaApproval = tasks[t].metaApproval
      BY <2>1, <3>1, <3>2, UpdateRows DEF TypeOK, Status
    <3>4. tasks[t].approval # "approved" /\ tasks[t].metaApproval # "approved"
      BY <2>1, <2>2 DEF RowInv
    <3>5. CommandInv'
      BY <1>3, <2>1, <2>2, <3>3, TableAssumption
         DEF CommandInv, Exists, TableAssumption, TaskIds
    <3> HIDE DEF t, row
    <3> QED BY <1>1, <1>2, <2>1, <2>2, <3>3, <3>4, <3>5, SafetyOfUpdate
            DEF Exists, Status
  <2>3. CASE tasks[t].status # "PendingProposal"
    <3>1. UNCHANGED tasks
      BY <1>12, <2>3 DEF ProposeApproveFails, HasStatusIn
    <3>2. CommandInv'
      BY <1>3, <2>1, <3>1, TableAssumption DEF CommandInv, Exists, TableAssumption, TaskIds
    <3> QED BY <1>1, <1>2, <2>1, <3>1, <3>2, SafetyBesideTable
  <2> QED BY <2>2, <2>3
<1>13. ASSUME NEW t \in TaskIds, Approve(t) PROVE SafetyInv'
  <2>1. /\ tasks[t].status = "PendingReview"
        /\ BotUpdate(t, MarkedApproved(tasks[t]), "Processed")
        /\ approved' = approved \cup {t}
        /\ UNCHANGED <<command, issues, promoted>>
    BY <1>13 DEF Approve, HasStatusIn
  <2>2. /\ \A u \in TaskIds \ {t} : tasks'[u] = tasks[u]
        /\ tasks'[t].status = "Processed"
        /\ tasks'[t].approval = "approved"
        /\ tasks'[t].issue = tasks[t].issue
    BY <1>4, <2>1, UpdateRows, WrittenRows DEF TypeOK, Status
  <2>3. CommandInv'
    BY <2>1, <2>2 DEF CommandInv, Exists, TaskIds
  <2> QED BY <1>1, <1>2, <2>1, <2>2, <2>3, SafetyOfUpdate DEF Exists, Status
<1>14. ASSUME NEW t \in TaskIds, Reject(t) PROVE SafetyInv'
  <2>1. /\ tasks[t].status = "PendingReview"
        /\ BotUpdate(t, MarkedRejected(tasks[t]), "Failed")
        /\ UNCHANGED <<command, issues, promoted, approved>>
    BY <1>14 DEF Reject, HasStatusIn
  <2>2. /\ \A u \in TaskIds \ {t} : tasks'[u] = tasks[u]
        /\ tasks'[t].status = "Failed"
        /\ tasks'[t].approval = "rejected"
        /\ tasks'[t].metaApproval = "rejected"
    BY <1>4, <2>1, UpdateRows, WrittenRows DEF TypeOK, Status
  <2>3. CommandInv'
    BY <2>1, <2>2 DEF CommandInv, Exists, TaskIds
  <2> QED BY <1>1, <1>2, <2>1, <2>2, <2>3, SafetyOfUpdate DEF Exists, Status
<1>15. ASSUME NEW t \in TaskIds, ProposeReject(t) \/ Cancel(t) PROVE SafetyInv'
  <2>1. /\ Exists(t) /\ tasks[t].status # "Processed"
        /\ BotUpdate(t, tasks[t], "Failed")
        /\ UNCHANGED <<command, issues, promoted, approved>>
    BY <1>15 DEF ProposeReject, Cancel, HasStatusIn, Exists
  <2>2. /\ \A u \in TaskIds \ {t} : tasks'[u] = tasks[u]
        /\ tasks'[t].status = "Failed"
        /\ tasks'[t].approval = tasks[t].approval
        /\ tasks'[t].metaApproval = tasks[t].metaApproval
    BY <1>4, <2>1, UpdateRows DEF TypeOK, Status
  <2>3. tasks[t].approval # "approved" /\ tasks[t].metaApproval # "approved"
    BY <2>1 DEF RowInv
  <2>4. CommandInv'
    BY <2>1, <2>2 DEF CommandInv, Exists, TaskIds
  <2> QED BY <1>1, <1>2, <2>1, <2>2, <2>3, <2>4, SafetyOfUpdate DEF Status
<1> QED BY <1>5, <1>6, <1>7, <1>8, <1>9, <1>10, <1>11, <1>12, <1>13, <1>14, <1>15
        DEF Europa, EuropaStep

LEMMA SafetyInit == Init => SafetyInv
<1> SUFFICES ASSUME Init PROVE SafetyInv
  OBVIOUS
<1>1. TypeOK
  BY TypeInit
<1>2. /\ tasks = [t \in TaskIds |-> NoRow]
      /\ launches = [t \in TaskIds |-> 0] /\ agents = {}
      /\ worker = [w \in Workers |-> IdleWorker({})] /\ worked = {}
      /\ command = [s \in Slots |-> NoCommand]
      /\ seen = {} /\ scan = NoScan
  BY DEF Init, TableInit, WorkerInit, AgentInit, EuropaInit, KeplerInit
<1>3. RowInv /\ WorkHasItsIssue
  BY <1>2 DEF RowInv, WorkHasItsIssue, NoRow
<1>4. \A t \in TaskIds : ~Taken(t) /\ tasks[t].status = "Absent"
  BY <1>2, TableAssumption DEF Taken, IdleWorker, NoRow, TableAssumption, TaskIds
<1>5. SnapshotInv /\ GateInv
  BY <1>4 DEF SnapshotInv, GateInv, Released, TaskIds
<1>6. ResultInv /\ BranchInv
  BY <1>2 DEF ResultInv, BranchInv, IdleWorker
<1>7. CommandInv
  BY <1>2 DEF CommandInv, NoCommand
<1>8. LedgerInv
  BY <1>2 DEF LedgerInv, NoScan
<1> QED BY <1>1, <1>3, <1>5, <1>6, <1>7, <1>8 DEF SafetyInv

LEMMA SafetyStep == SafetyInv /\ [Next]_vars => SafetyInv'
<1> SUFFICES ASSUME SafetyInv, [Next]_vars PROVE SafetyInv'
  OBVIOUS
<1>1. CASE UNCHANGED vars
  <2>1. TypeOK'
    BY TypeStep DEF SafetyInv
  <2>2. /\ UNCHANGED <<tasks, issues, promoted, approved, command>>
        /\ UNCHANGED <<agents, branches, launches, worker, worked, seen, scan>>
    BY <1>1 DEF vars, workerVars, agentVars, europaVars, keplerVars
  <2>3. CommandInv'
    BY <2>2 DEF SafetyInv, CommandInv, Exists
  <2> QED BY <2>1, <2>2, <2>3, SafetyBesideTable
<1>2. CASE Next
  BY <1>2, SafetyScheduler, SafetyLaniakea, SafetyEuropa, SafetyKepler DEF Next
<1> QED BY <1>1, <1>2

\* Every reachable state of the pipeline satisfies the inductive invariant.
THEOREM Safety == Spec => []SafetyInv
<1>1. SafetyInv /\ [Next]_vars => SafetyInv'
  BY SafetyStep
<1> QED BY SafetyInit, <1>1, PTL DEF Spec

-----------------------------------------------------------------------------
(* The safety properties of Pipeline.                                      *)

\* No canopus process is ever launched for a finding that no human promoted.
THEOREM GateIsKept == Spec => []NoRunWithoutGate
<1>1. SafetyInv => NoRunWithoutGate
  BY DEF SafetyInv, GateInv, Taken, NoRunWithoutGate
<1> QED BY <1>1, Safety, PTL

\* Europa and canopus agree on which tasks are approved and finished.
THEOREM ApprovalAgreement == Spec => []ApprovalIsShared
<1>1. SafetyInv => ApprovalIsShared
  BY DEF SafetyInv, RowInv, ApprovalIsShared, CanopusFinalizes,
         IsApprovedProcessedTask
<1> QED BY <1>1, Safety, PTL

\* What canopus may finalize was approved by a human, on finished work.
THEOREM FinalizedIsApprovedWork == Spec => []ApprovalIsEarned
<1>1. SafetyInv => ApprovalIsEarned
  BY DEF SafetyInv, RowInv, ApprovalIsEarned, CanopusFinalizes
<1> QED BY <1>1, Safety, PTL

\* Nothing works on an implementation that is under review or approved.
THEOREM ReviewIsUndisturbed == Spec => []ReviewedWorkIsQuiet
<1>1. SafetyInv => ReviewedWorkIsQuiet
  BY DEF SafetyInv, RowInv, BranchInv, ReviewedWorkIsQuiet
<1> QED BY <1>1, Safety, PTL

\* Queued, running and reviewed work of a GitHub-backed project has its Issue.
THEOREM IssueBeforeWork == Spec => []WorkHasItsIssue
<1>1. SafetyInv => WorkHasItsIssue
  BY DEF SafetyInv
<1> QED BY <1>1, Safety, PTL

\* Kepler's ledger never hides a finding that the table does not have.
THEOREM LedgerIsSound == Spec => []SeenIsRegistered
<1>1. SafetyInv => SeenIsRegistered
  BY DEF SafetyInv, LedgerInv, SeenIsRegistered
<1> QED BY <1>1, Safety, PTL

=============================================================================
