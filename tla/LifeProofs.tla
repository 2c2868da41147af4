------------------------------ MODULE LifeProofs ------------------------------
(***************************************************************************)
(* Proofs that Pipeline implements TaskLife, that a verdict is final, that *)
(* canopus is not launched for a task again and again, and of what is left *)
(* when the bot may lose the table.                                        *)
(*                                                                         *)
(* The first two go over the steps of the components once: what a step     *)
(* does to the statuses is an action of TaskLife or nothing, and it leaves *)
(* the rows that have their verdict alone.  The third counts: a worker may *)
(* still launch canopus for a task when it has the task in its snapshot,   *)
(* or may yet read it; a launch uses this chance up, and only a fault can  *)
(* give it back.  The last is an invariant without the parts that speak of *)
(* rows that are gone: what remains is about rows that exist, about        *)
(* branches and about what humans did, and carries itself.                 *)
(***************************************************************************)
EXTENDS PipelineProofs, TableLoss, FiniteSetTheorems

\* The status of t changes, and no other.
Moves(t, from, to) ==
  /\ tasks[t].status = from /\ tasks'[t].status = to
  /\ \A u \in TaskIds \ {t} : tasks'[u].status = tasks[u].status

\* No status changes.
Rests == \A u \in TaskIds : tasks'[u].status = tasks[u].status

\* What VerdictIsFinal says of a step.
VerdictKept ==
  \A t \in TaskIds :
    IsTerminal(tasks[t].status) =>
      /\ tasks'[t].status = tasks[t].status
      /\ tasks'[t].approval = tasks[t].approval

\* A step of the pipeline is one of TaskLife, and keeps the verdicts.
StepOfLife == [Life!Next]_(Life!vars) /\ VerdictKept

\* A change of one status in the table is a change of one life.
LEMMA MoveOfLife ==
  ASSUME NEW t \in TaskIds, NEW from, NEW to, Moves(t, from, to)
  PROVE  Life!Move(t, from, to)
BY DEF Moves, Life!Move, TaskIds

\* Statuses that rest are lives that rest.
LEMMA RestOfLife ==
  ASSUME Rests, UNCHANGED <<promoted, worked, approved>>
  PROVE  UNCHANGED Life!vars
BY DEF Rests, Life!vars, TaskIds

LEMMA LifeOfScheduler ==
  SafetyInv /\ Scheduler(SchedulerStep) => StepOfLife
<1> SUFFICES ASSUME SafetyInv, Scheduler(SchedulerStep) PROVE StepOfLife
  OBVIOUS
<1>1. TableTypeOK
  BY DEF SafetyInv, TypeOK
<1>2. UNCHANGED <<promoted, worked, approved>>
  BY DEF Scheduler, workerVars, europaVars
<1>3. CASE UNCHANGED tasks
  BY <1>2, <1>3, RestOfLife DEF StepOfLife, VerdictKept, Rests
<1>4. ASSUME NEW t \in TaskIds, DispatchTask(t) PROVE StepOfLife
  <2>1. tasks' = AfterTransition(t, "Pending", "Dispatched")
    BY <1>4 DEF DispatchTask
  <2>2. \A u \in TaskIds :
          /\ tasks'[u].approval = tasks[u].approval
          /\ tasks'[u].status = IF u = t /\ tasks[t].status = "Pending"
                                THEN "Dispatched" ELSE tasks[u].status
    BY <1>1, <2>1, TransitionRows DEF Status, TransitionAllowed, CanTransitionTo
  <2>3. VerdictKept
    BY <2>2 DEF VerdictKept, IsTerminal
  <2>4. CASE tasks[t].status = "Pending"
    <3>1. Moves(t, "Pending", "Dispatched")
      BY <2>2, <2>4 DEF Moves
    <3>2. Life!Dispatch(t)
      BY <1>2, <3>1, MoveOfLife DEF Life!Dispatch
    <3> QED BY <2>3, <3>2 DEF StepOfLife, Life!Next, Life!TaskIds, TaskIds
  <2>5. CASE tasks[t].status # "Pending"
    BY <1>2, <2>2, <2>3, <2>5, RestOfLife DEF StepOfLife, Rests
  <2> QED BY <2>4, <2>5
<1> QED BY <1>3, <1>4
        DEF Scheduler, SchedulerStep, FetchPending, DispatchTaskFails, SchedulerRestart

LEMMA LifeOfKepler ==
  SafetyInv /\ Kepler(KeplerStep) => StepOfLife
<1> SUFFICES ASSUME SafetyInv, Kepler(KeplerStep) PROVE StepOfLife
  OBVIOUS
<1>1. TableTypeOK
  BY DEF SafetyInv, TypeOK
<1>2. UNCHANGED <<promoted, worked, approved>>
  BY DEF Kepler, workerVars, europaVars
<1>3. CASE UNCHANGED tasks
  BY <1>2, <1>3, RestOfLife DEF StepOfLife, VerdictKept, Rests
<1>4. ASSUME NEW t \in Discovered, KeplerRegisters(t), ~UNCHANGED tasks PROVE StepOfLife
  <2>1. ProposalRow \in Row /\ ProposalRow.metaApproval = "none"
        /\ ProposalRow.status = "PendingProposal"
    BY DEF ProposalRow, NoRow, Row, Status, ApprovalState
  <2>2. tasks' = AfterCreate(t, ProposalRow) /\ ~Exists(t) /\ t \in TaskIds
    BY <1>4 DEF KeplerRegisters, AfterCreate, TaskIds
  <2>3. /\ tasks[t].status = "Absent" /\ tasks'[t].status = "PendingProposal"
        /\ \A u \in TaskIds \ {t} : /\ tasks'[u].status = tasks[u].status
                                    /\ tasks'[u].approval = tasks[u].approval
    BY <1>1, <2>1, <2>2, CreateRows DEF Exists
  <2>4. Life!Propose(t)
    BY <1>2, <2>2, <2>3, MoveOfLife DEF Moves, Life!Propose
  <2>5. VerdictKept
    BY <2>3 DEF VerdictKept, IsTerminal
  <2> QED BY <2>2, <2>4, <2>5 DEF StepOfLife, Life!Next, Life!TaskIds, TaskIds
<1>5. ASSUME NEW t \in Discovered, KeplerCannotRegister(t) PROVE UNCHANGED tasks
  BY <1>5 DEF KeplerCannotRegister
<1>6. ASSUME NEW findings \in SUBSET Discovered, KeplerScans(findings)
      PROVE UNCHANGED tasks
  BY <1>6 DEF KeplerScans
<1> QED BY <1>3, <1>4, <1>5, <1>6
        DEF Kepler, KeplerStep, KeplerWritesSeen, KeplerCannotWriteSeen, KeplerRestart

LEMMA LifeOfLaniakea ==
  SafetyInv /\ Laniakea(WorkerStep) => StepOfLife
<1> SUFFICES ASSUME SafetyInv, Laniakea(WorkerStep) PROVE StepOfLife
  OBVIOUS
<1>1. TableTypeOK /\ worker \in [Workers -> Worker] /\ agents \subseteq Agent
  BY DEF SafetyInv, TypeOK, WorkerTypeOK, AgentTypeOK
<1>2. UNCHANGED <<promoted, approved>>
  BY DEF Laniakea, europaVars
<1>3. CASE UNCHANGED <<tasks, worked>>
  BY <1>2, <1>3, RestOfLife DEF StepOfLife, VerdictKept, Rests
<1>4. ASSUME NEW t \in TaskIds, UNCHANGED tasks, worked' = worked \cup {t},
             tasks[t].status \in Started, t \in Discovered => t \in promoted
      PROVE  StepOfLife
  <2>1. Life!Work(t)
    BY <1>2, <1>4 DEF Life!Work, Started, TaskIds
  <2>2. VerdictKept
    BY <1>4 DEF VerdictKept
  <2> QED BY <2>1, <2>2 DEF StepOfLife, Life!Next, Life!TaskIds, TaskIds
<1>5. ASSUME NEW w \in Workers, NEW t \in TaskIds, WorkerHandles(w, t) PROVE StepOfLife
  <2>1. Taken(t)
    BY <1>5 DEF WorkerHandles, TurnTo, Taken
  <2>2. tasks[t].status \in Started /\ (t \in Discovered => t \in promoted)
    BY <2>1 DEF SafetyInv, SnapshotInv, GateInv
  <2>3. UNCHANGED tasks /\ worked' \in {worked, worked \cup {t}}
    BY <1>5 DEF WorkerHandles, TurnTo
  <2> QED BY <1>3, <1>4, <2>2, <2>3
<1>6. ASSUME NEW a \in agents, NEW outcome \in {"ok", "err"}, CanopusExits(a, outcome)
      PROVE StepOfLife
  <2>1. CASE outcome = "ok" /\ \E w \in Workers : Awaits(w, a)
    <3>1. a.task \in TaskIds /\ Taken(a.task)
      BY <1>1, <2>1 DEF Agent, Awaits, Taken
    <3>2. /\ tasks[a.task].status \in Started
          /\ a.task \in Discovered => a.task \in promoted
      BY <3>1 DEF SafetyInv, SnapshotInv, GateInv
    <3>3. UNCHANGED tasks /\ worked' = worked \cup {a.task}
      BY <1>6, <2>1 DEF CanopusExits
    <3> QED BY <1>4, <3>1, <3>2, <3>3
  <2>2. CASE ~(outcome = "ok" /\ \E w \in Workers : Awaits(w, a))
    BY <1>3, <1>6, <2>2 DEF CanopusExits
  <2> QED BY <2>1, <2>2
<1>7. ASSUME NEW w \in Workers, WorkerReports(w) PROVE StepOfLife
  <2>1. PICK t \in TaskIds, next \in {"PendingReview", "Failed"} :
          /\ tasks' = AfterTransition(t, "Dispatched", next)
          /\ next = "PendingReview" => t \in worked
    <3>1. /\ worker[w].task \in TaskIds
          /\ worker[w].phase = "ok" => worker[w].task \in worked
      BY <1>1, <1>7 DEF WorkerReports, Worker, SafetyInv, TypeOK, WorkerTypeOK, ResultInv
    <3> QED BY <1>7, <3>1 DEF WorkerReports, ReportedStatus
  <2>2. UNCHANGED worked
    BY <1>7 DEF WorkerReports
  <2>3. \A u \in TaskIds :
          /\ tasks'[u].approval = tasks[u].approval
          /\ tasks'[u].status = IF u = t /\ tasks[t].status = "Dispatched"
                                THEN next ELSE tasks[u].status
    <3>1. next \in Status /\ TransitionAllowed("Dispatched", next)
      BY DEF Status, TransitionAllowed, CanTransitionTo
    <3> QED BY <1>1, <2>1, <3>1, TransitionRows DEF Status
  <2>4. VerdictKept
    BY <2>3 DEF VerdictKept, IsTerminal
  <2>5. CASE tasks[t].status = "Dispatched"
    <3>1. Moves(t, "Dispatched", next)
      BY <2>3, <2>5 DEF Moves
    <3>2. CASE next = "PendingReview"
      <4>1. Life!Submit(t)
        BY <1>2, <2>1, <2>2, <3>1, <3>2, MoveOfLife DEF Life!Submit
      <4> QED BY <2>4, <4>1 DEF StepOfLife, Life!Next, Life!TaskIds, TaskIds
    <3>3. CASE next = "Failed"
      <4>1. Life!Fail(t)
        BY <1>2, <2>1, <2>2, <3>1, <3>3, MoveOfLife
           DEF Life!Fail, Life!Move, Life!Open
      <4> QED BY <2>4, <4>1 DEF StepOfLife, Life!Next, Life!TaskIds, TaskIds
    <3> QED BY <3>2, <3>3
  <2>6. CASE tasks[t].status # "Dispatched"
    BY <1>2, <2>2, <2>3, <2>4, <2>6, RestOfLife DEF StepOfLife, Rests
  <2> QED BY <2>5, <2>6
<1> QED BY <1>3, <1>5, <1>6, <1>7
        DEF Laniakea, WorkerStep, WorkerFetch, WorkerLaunches, WorkerCannotLaunch, TurnTo,
            CanopusPrepares, CanopusTimeout, WorkerCannotReport, WorkerRestart

\* A locked update of a row without a verdict changes one life.
LEMMA LifeOfUpdate ==
  ASSUME TableTypeOK, NEW t \in TaskIds, NEW from \in {"PendingReview", "PendingProposal",
                                                      "Pending", "Dispatched"},
         tasks[t].status = from,
         NEW row \in Row, NEW next \in Status, BotUpdate(t, row, next)
  PROVE  Moves(t, from, next) /\ Life!Move(t, from, next) /\ VerdictKept
<1>1. Moves(t, from, next) /\ \A u \in TaskIds \ {t} : tasks'[u] = tasks[u]
  BY UpdateRows DEF Moves
<1>2. VerdictKept
  BY <1>1 DEF VerdictKept, IsTerminal
<1> QED BY <1>1, <1>2, MoveOfLife

LEMMA LifeOfEuropa ==
  SafetyInv /\ Europa(EuropaStep) => StepOfLife
<1> SUFFICES ASSUME SafetyInv, Europa(EuropaStep) PROVE StepOfLife
  OBVIOUS
<1>1. TableTypeOK /\ command \in [Slots -> Command]
  BY DEF SafetyInv, TypeOK, EuropaTypeOK
<1>2. UNCHANGED worked
  BY DEF Europa, workerVars
<1>3. CASE UNCHANGED <<tasks, promoted, approved>>
  BY <1>2, <1>3, RestOfLife DEF StepOfLife, VerdictKept, Rests
<1>4. \A t \in TaskIds : tasks[t] \in Row
  BY <1>1 DEF TableTypeOK
<1> USE DEF StepOfLife, Life!Next, Life!TaskIds, TaskIds
<1>5. ASSUME NEW s \in Slots, RunAppends(s) PROVE StepOfLife
  <2>1. PICK t \in Requested : t = command[s].task /\ ~Exists(t)
    BY <1>5 DEF RunAppends, SafetyInv, CommandInv
  <2>2. tasks' = [tasks EXCEPT ![t] = RequestedRow(command[s].intake)]
        /\ UNCHANGED <<promoted, approved>>
    BY <1>5, <2>1 DEF RunAppends, BotAppend
  <2>3. /\ tasks[t].status = "Absent" /\ tasks'[t].status = "Pending"
        /\ \A u \in TaskIds \ {t} : tasks'[u] = tasks[u]
    BY <1>1, <2>1, <2>2 DEF TableTypeOK, RequestedRow, Exists
  <2>4. Life!Request(t)
    BY <1>2, <2>2, <2>3, MoveOfLife DEF Moves, Life!Request
  <2>5. VerdictKept
    BY <2>3 DEF VerdictKept, IsTerminal
  <2> QED BY <2>4, <2>5
<1>6. ASSUME NEW s \in Slots, ProposeApprovePromotes(s) PROVE StepOfLife
  <2>1. CASE tasks[command[s].task].status = "PendingProposal"
    <3>1. PICK t \in TaskIds, row \in Row :
            /\ tasks[t].status = "PendingProposal"
            /\ BotUpdate(t, row, "Pending")
            /\ promoted' = promoted \cup {t}
      <4>1. /\ command[s].task \in TaskIds
            /\ BotUpdate(command[s].task,
                         WithIntake(tasks[command[s].task], command[s].intake), "Pending")
            /\ promoted' = promoted \cup {command[s].task}
        BY <1>1, <1>6, <2>1 DEF ProposeApprovePromotes, HasStatusIn, Command, NoCommand
      <4>2. WithIntake(tasks[command[s].task], command[s].intake) \in Row
        BY <1>4, <4>1, WrittenRows
      <4> QED BY <2>1, <4>1, <4>2
    <3>2. Life!Move(t, "PendingProposal", "Pending") /\ VerdictKept
      BY <1>1, <3>1, LifeOfUpdate DEF Status
    <3>3. Life!Release(t)
      BY <1>2, <1>6, <3>1, <3>2 DEF ProposeApprovePromotes, Life!Release
    <3> QED BY <3>2, <3>3
  <2>2. CASE tasks[command[s].task].status # "PendingProposal"
    BY <1>3, <1>6, <2>2 DEF ProposeApprovePromotes, HasStatusIn
  <2> QED BY <2>1, <2>2
<1>7. ASSUME NEW s \in Slots, ProposeApproveFails(s) PROVE StepOfLife
  <2>1. UNCHANGED <<promoted, approved>>
    BY <1>7 DEF ProposeApproveFails
  <2>2. CASE tasks[command[s].task].status = "PendingProposal"
    <3>1. PICK t \in TaskIds, row \in Row :
            tasks[t].status = "PendingProposal" /\ BotUpdate(t, row, "PendingProposal")
      <4>1. /\ command[s].task \in TaskIds
            /\ BotUpdate(command[s].task, IntakeFailed(tasks[command[s].task]),
                         "PendingProposal")
        BY <1>1, <1>7, <2>2 DEF ProposeApproveFails, HasStatusIn, Command, NoCommand
      <4>2. IntakeFailed(tasks[command[s].task]) \in Row
        BY <1>4, <4>1, WrittenRows
      <4> QED BY <2>2, <4>1, <4>2
    <3>2. Moves(t, "PendingProposal", "PendingProposal") /\ VerdictKept
      BY <1>1, <3>1, LifeOfUpdate DEF Status
    <3>3. Rests
      BY <3>2 DEF Moves, Rests
    <3> QED BY <1>2, <2>1, <3>2, <3>3, RestOfLife
  <2>3. CASE tasks[command[s].task].status # "PendingProposal"
    BY <1>3, <1>7, <2>1, <2>3 DEF ProposeApproveFails, HasStatusIn
  <2> QED BY <2>2, <2>3
<1>8. ASSUME NEW t \in TaskIds, Approve(t) PROVE StepOfLife
  <2>1. /\ tasks[t].status = "PendingReview" /\ MarkedApproved(tasks[t]) \in Row
        /\ BotUpdate(t, MarkedApproved(tasks[t]), "Processed")
    BY <1>4, <1>8, WrittenRows DEF Approve, HasStatusIn
  <2>2. Life!Move(t, "PendingReview", "Processed") /\ VerdictKept
    BY <1>1, <2>1, LifeOfUpdate DEF Status
  <2>3. Life!Approve(t)
    BY <1>2, <1>8, <2>2 DEF Approve, Life!Approve
  <2> QED BY <2>2, <2>3
<1>9. ASSUME NEW t \in TaskIds, NEW row \in Row, tasks[t].status \in Life!Open,
             BotUpdate(t, row, "Failed"), UNCHANGED <<promoted, approved>>
      PROVE  StepOfLife
  <2>1. PICK from \in Life!Open : tasks[t].status = from
    BY <1>9
  <2>2. Life!Move(t, from, "Failed") /\ VerdictKept
    BY <1>1, <1>9, <2>1, LifeOfUpdate DEF Status, Life!Open
  <2>3. Life!Fail(t)
    BY <1>2, <1>9, <2>2 DEF Life!Fail, Life!Move
  <2> QED BY <2>2, <2>3
<1>10. ASSUME NEW t \in TaskIds, Reject(t) PROVE StepOfLife
  <2>1. MarkedRejected(tasks[t]) \in Row
    BY <1>4, WrittenRows
  <2> QED BY <1>9, <1>10, <2>1 DEF Reject, HasStatusIn, europaVars, Life!Open
<1>11. ASSUME NEW t \in TaskIds, ProposeReject(t) \/ Cancel(t) PROVE StepOfLife
  BY <1>4, <1>9, <1>11 DEF ProposeReject, Cancel, HasStatusIn, europaVars, Life!Open
<1>12. ASSUME NEW s \in Slots, NEW result \in IntakeResult, IntakeReturns(s, result)
       PROVE StepOfLife
  BY <1>3, <1>12 DEF IntakeReturns
<1>13. CASE EuropaRestart
  BY <1>3, <1>13 DEF EuropaRestart
<1> HIDE DEF StepOfLife
<1> QED BY <1>3, <1>5, <1>6, <1>7, <1>8, <1>10, <1>11, <1>12, <1>13
        DEF Europa, EuropaStep, RunBegins, ProposeApproveBegins, RunGivesUp,
            CommandAborts

-----------------------------------------------------------------------------

LEMMA LifeInit == Init => Life!Init
BY DEF Init, TableInit, WorkerInit, EuropaInit, Life!Init, Life!TaskIds, TaskIds, NoRow

LEMMA LifeStep == SafetyInv /\ [Next]_vars => StepOfLife
<1>1. SafetyInv /\ Next => StepOfLife
  BY LifeOfScheduler, LifeOfLaniakea, LifeOfEuropa, LifeOfKepler DEF Next
<1>2. UNCHANGED vars => StepOfLife
  <2>1. UNCHANGED vars => UNCHANGED <<tasks, promoted, worked, approved>>
    BY DEF vars, workerVars, europaVars
  <2> QED BY <2>1, RestOfLife DEF StepOfLife, VerdictKept, Rests
<1> QED BY <1>1, <1>2

\* The pipeline implements the life of a task.
THEOREM Refinement == Spec => ImplementsTaskLife
<1>1. SafetyInv /\ [Next]_vars => [Life!Next]_(Life!vars)
  BY LifeStep DEF StepOfLife
<1> QED BY LifeInit, <1>1, Safety, PTL DEF Spec, ImplementsTaskLife, Life!Spec

\* No step of any process changes a verdict.
THEOREM VerdictsAreFinal == Spec => VerdictIsFinal
<1>1. SafetyInv /\ [Next]_vars =>
        [\A t \in TaskIds :
           IsTerminal(tasks[t].status) =>
             /\ tasks'[t].status = tasks[t].status
             /\ tasks'[t].approval = tasks[t].approval]_vars
  BY LifeStep DEF StepOfLife, VerdictKept
<1> QED BY <1>1, Safety, PTL DEF Spec, VerdictIsFinal

-----------------------------------------------------------------------------
(* Launches. *)

Resolved == {"PendingReview", "Processed", "Failed"}

\* A task that is resolved never becomes unresolved.
LEMMA ResolvedStays ==
  ASSUME StepOfLife, NEW t \in TaskIds, tasks[t].status \in Resolved
  PROVE  tasks'[t].status \in Resolved
<1>1. CASE UNCHANGED Life!vars
  <2>1. [u \in TaskIds |-> tasks'[u].status] = [u \in TaskIds |-> tasks[u].status]
    BY <1>1 DEF Life!vars
  <2> QED BY <2>1
<1>2. CASE IsTerminal(tasks[t].status)
  BY <1>2 DEF StepOfLife, VerdictKept, Resolved
<1>3. CASE Life!Next /\ tasks[t].status = "PendingReview"
  <2>1. PICK u \in TaskIds :
          \/ Life!Request(u) \/ Life!Propose(u) \/ Life!Release(u) \/ Life!Dispatch(u)
          \/ Life!Work(u) \/ Life!Submit(u) \/ Life!Approve(u) \/ Life!Fail(u)
    BY <1>3 DEF Life!Next, Life!TaskIds, TaskIds
  <2>2. CASE Life!Request(u) \/ Life!Propose(u) \/ Life!Release(u) \/ Life!Dispatch(u)
                \/ Life!Work(u)  \/ Life!Submit(u)
    BY <1>3, <2>2 DEF Life!Request, Life!Propose, Life!Release, Life!Dispatch, Life!Work,
                      Life!Submit, Life!Move, Resolved, TaskIds
  <2>3. CASE Life!Approve(u) \/ Life!Fail(u)
    BY <1>3, <2>3 DEF Life!Approve, Life!Fail, Life!Move, Resolved, TaskIds
  <2> QED BY <2>1, <2>2, <2>3
<1> QED BY <1>1, <1>2, <1>3 DEF StepOfLife, Resolved, IsTerminal

\* How a set of workers may change together with the two counters.
LEMMA CountOfStep ==
  ASSUME NEW A \in SUBSET Workers, NEW B \in SUBSET Workers, NEW w,
         NEW runs \in Nat, NEW newRuns \in Nat, NEW f \in Nat, NEW newF \in Nat,
         runs + Cardinality(A) <= Cardinality(Workers) + f,
         \/ B \subseteq A /\ newRuns = runs /\ newF >= f
         \/ w \in A /\ B \subseteq A \ {w} /\ newRuns = runs + 1 /\ newF = f
         \/ B \subseteq A \cup {w} /\ newRuns = runs /\ newF = f + 1
  PROVE  newRuns + Cardinality(B) <= Cardinality(Workers) + newF
<1>1. /\ IsFiniteSet(A) /\ IsFiniteSet(A \ {w}) /\ IsFiniteSet(A \cup {w})
      /\ IsFiniteSet(B)
  BY FS_Subset, FS_AddElement, WorkerAssumption DEF WorkerAssumption
<1>2. /\ Cardinality(A) \in Nat /\ Cardinality(B) \in Nat
      /\ Cardinality(Workers) \in Nat
  BY <1>1, FS_CardinalityType, WorkerAssumption DEF WorkerAssumption
<1>3. w \in A => Cardinality(A \ {w}) = Cardinality(A) - 1
  BY <1>1, FS_RemoveElement
<1>4. Cardinality(A \cup {w}) <= Cardinality(A) + 1
  BY <1>1, <1>2, FS_AddElement
<1>5. /\ B \subseteq A => Cardinality(B) <= Cardinality(A)
      /\ B \subseteq A \ {w} => Cardinality(B) <= Cardinality(A \ {w})
      /\ B \subseteq A \cup {w} => Cardinality(B) <= Cardinality(A \cup {w})
  BY <1>1, FS_Subset
<1>6. Cardinality(A \cup {w}) \in Nat
  BY <1>1, FS_CardinalityType
<1> QED BY <1>2, <1>3, <1>4, <1>5, <1>6

LEMMA CountTypes ==
  ASSUME SafetyInv, SafetyInv'
  PROVE  /\ faults \in Nat /\ faults' \in Nat
         /\ \A t \in TaskIds : /\ launches[t] \in Nat /\ launches'[t] \in Nat
                               /\ MayLaunch(t) \in SUBSET Workers
                               /\ MayLaunch(t)' \in SUBSET Workers
<1>1. /\ faults \in 0..MaxFaults /\ faults' \in 0..MaxFaults
      /\ launches \in [TaskIds -> Nat] /\ launches' \in [TaskIds -> Nat]
  BY DEF SafetyInv, TypeOK, TableTypeOK, WorkerTypeOK, AgentTypeOK
<1> QED BY <1>1, TableAssumption DEF TableAssumption, MayLaunch

\* The invariant is kept when, for each task, the chances to launch change in
\* one of the ways of CountOfStep.
LEMMA CountKept ==
  ASSUME SafetyInv, SafetyInv', CountInv, NEW w,
         \A t \in TaskIds :
           \/ /\ MayLaunch(t)' \subseteq MayLaunch(t)
              /\ launches'[t] = launches[t] /\ faults' >= faults
           \/ /\ w \in MayLaunch(t) /\ MayLaunch(t)' \subseteq MayLaunch(t) \ {w}
              /\ launches'[t] = launches[t] + 1 /\ faults' = faults
           \/ /\ MayLaunch(t)' \subseteq MayLaunch(t) \cup {w}
              /\ launches'[t] = launches[t] /\ faults' = faults + 1
  PROVE  CountInv'
<1> SUFFICES ASSUME NEW t \in TaskIds
             PROVE  launches'[t] + Cardinality(MayLaunch(t)')
                      <= Cardinality(Workers) + faults'
  BY DEF CountInv
<1>1. launches[t] + Cardinality(MayLaunch(t)) <= Cardinality(Workers) + faults
  BY DEF CountInv
<1> HIDE DEF MayLaunch
<1> QED BY <1>1, CountTypes, CountOfStep

\* A step that leaves the workers alone gives no worker a new chance.
LEMMA CountBesideWorkers ==
  ASSUME SafetyInv, SafetyInv', ReexecutionInv, StepOfLife,
         UNCHANGED <<worker, launches>>, faults' \in {faults, faults + 1}
  PROVE  ReexecutionInv'
<1>1. BatchInv'
  BY DEF ReexecutionInv, BatchInv
<1>2. ASSUME NEW t \in TaskIds PROVE MayLaunch(t)' \subseteq MayLaunch(t)
  BY ResolvedStays DEF MayLaunch, Resolved
<1>3. faults' >= faults
  BY CountTypes
<1> QED BY <1>1, <1>2, <1>3, CountKept DEF ReexecutionInv

LEMMA CountOfLaniakea ==
  ASSUME SafetyInv, SafetyInv', ReexecutionInv, StepOfLife, Laniakea(WorkerStep)
  PROVE  ReexecutionInv'
<1> USE DEF ReexecutionInv
<1>1. worker \in [Workers -> Worker] /\ launches \in [TaskIds -> Nat]
      /\ faults \in Nat /\ agents \subseteq Agent
      /\ NoTask \notin TaskIds
      /\ \A w \in Workers : worker[w].task = NoTask <=> worker[w].phase = "idle"
  BY CountTypes, TableAssumption
     DEF SafetyInv, TypeOK, WorkerTypeOK, AgentTypeOK, TableAssumption, TaskIds
<1>2. \A t \in TaskIds : tasks[t].status \in Resolved => tasks'[t].status \in Resolved
  BY ResolvedStays
<1> USE DEF Worker, IdleWorker, agentVars
<1>3. ASSUME NEW w \in Workers, WorkerFetch(w) PROVE ReexecutionInv'
  <2>1. /\ worker[w] = IdleWorker({})
        /\ worker' = [worker EXCEPT ![w].batch = FetchBy("Dispatched")]
        /\ UNCHANGED <<tasks, faults, launches>>
    BY <1>3 DEF WorkerFetch
  <2>2. BatchInv'
    BY <1>1, <2>1 DEF BatchInv, FetchBy
  <2>3. \A t \in TaskIds : MayLaunch(t)' \subseteq MayLaunch(t)
    BY <1>1, <2>1 DEF MayLaunch, FetchBy
  <2> QED BY <1>1, <2>1, <2>2, <2>3, CountKept
<1>4. ASSUME NEW w \in Workers, NEW t \in TaskIds, NEW run, NEW phase,
             TurnTo(w, t, run, phase)
      PROVE  /\ BatchInv' /\ UNCHANGED faults
             /\ w \in MayLaunch(t) /\ MayLaunch(t)' \subseteq MayLaunch(t) \ {w}
             /\ \A u \in TaskIds : MayLaunch(u)' \subseteq MayLaunch(u)
  <2>1. /\ worker[w].phase = "idle" /\ worker[w].task = NoTask
        /\ t \in worker[w].batch
        /\ worker'[w].batch = worker[w].batch \ {t} /\ worker'[w].task = t
        /\ \A v \in Workers \ {w} : worker'[v] = worker[v]
        /\ UNCHANGED <<tasks, faults>>
    BY <1>1, <1>4 DEF TurnTo
  <2> QED BY <1>1, <2>1 DEF BatchInv, MayLaunch
<1>5. ASSUME NEW w \in Workers, NEW t \in TaskIds,
             WorkerHandles(w, t) \/ WorkerCannotLaunch(w, t)
      PROVE  ReexecutionInv'
  <2>1. /\ UNCHANGED launches
        /\ \E run \in Nat, phase \in {"ok", "err"} : TurnTo(w, t, run, phase)
    BY <1>5 DEF WorkerHandles, WorkerCannotLaunch
  <2> QED BY <1>1, <1>4, <2>1, CountKept
<1>6. ASSUME NEW w \in Workers, NEW t \in TaskIds, WorkerLaunches(w, t)
      PROVE  ReexecutionInv'
  <2>1. /\ launches' = [launches EXCEPT ![t] = @ + 1]
        /\ \E run \in Nat, phase \in {"waiting"} : TurnTo(w, t, run, phase)
    BY <1>1, <1>6 DEF WorkerLaunches, Launch
  <2>2. /\ launches'[t] = launches[t] + 1
        /\ \A u \in TaskIds \ {t} : launches'[u] = launches[u]
    BY <1>1, <2>1
  <2>3. /\ BatchInv' /\ faults' = faults
        /\ w \in MayLaunch(t) /\ MayLaunch(t)' \subseteq MayLaunch(t) \ {w}
        /\ \A u \in TaskIds : MayLaunch(u)' \subseteq MayLaunch(u)
    BY <1>4, <2>1
  <2>4. CountInv'
    <3>1. faults' >= faults
      BY <1>1, <2>3
    <3> HIDE DEF ReexecutionInv
    <3>2. CountInv
      BY DEF ReexecutionInv
    <3> QED BY <2>2, <2>3, <3>1, <3>2, CountKept
  <2> QED BY <2>3, <2>4
<1>7. ASSUME UNCHANGED <<tasks, faults, launches>>,
             \A w \in Workers : /\ worker'[w].batch = worker[w].batch
                                /\ worker'[w].task = worker[w].task
      PROVE  ReexecutionInv'
  <2>1. BatchInv' /\ \A t \in TaskIds : MayLaunch(t)' \subseteq MayLaunch(t)
    BY <1>7 DEF BatchInv, MayLaunch
  <2> QED BY <1>1, <1>7, <2>1, CountKept
<1>8. ASSUME NEW a \in agents, CanopusPrepares(a) PROVE ReexecutionInv'
  BY <1>7, <1>8 DEF CanopusPrepares, AgentPrepares
<1>9. ASSUME NEW a \in agents, NEW outcome \in {"ok", "err"}, CanopusExits(a, outcome)
      PROVE ReexecutionInv'
  BY <1>1, <1>7, <1>9 DEF CanopusExits, AgentExits
<1>10. ASSUME NEW w \in Workers, CanopusTimeout(w) PROVE ReexecutionInv'
  BY <1>1, <1>7, <1>10 DEF CanopusTimeout
<1>11. ASSUME NEW w \in Workers, WorkerReports(w) PROVE ReexecutionInv'
  <2>1. PICK t \in TaskIds, next \in {"PendingReview", "Failed"} :
          /\ t = worker[w].task
          /\ tasks' = AfterTransition(t, "Dispatched", next)
    BY <1>1, <1>11 DEF WorkerReports, ReportedStatus
  <2>2. /\ worker'[w] = [batch |-> worker[w].batch, task |-> NoTask, run |-> 0,
                          phase |-> "idle"]
        /\ \A v \in Workers \ {w} : worker'[v] = worker[v]
        /\ UNCHANGED <<faults, launches>>
    BY <1>1, <1>11 DEF WorkerReports
  <2>3. tasks'[t].status \in Resolved
    <3>1. TableTypeOK /\ next \in Status /\ TransitionAllowed("Dispatched", next)
      BY DEF SafetyInv, TypeOK, Status, TransitionAllowed, CanTransitionTo
    <3>2. tasks'[t].status = IF tasks[t].status = "Dispatched" THEN next
                                                             ELSE tasks[t].status
      BY <2>1, <3>1, TransitionRows DEF Status
    <3>3. tasks[t].status \in Started
      BY <2>1 DEF SafetyInv, SnapshotInv, Taken
    <3> QED BY <3>2, <3>3 DEF Started, Resolved
  <2>4. BatchInv'
    BY <1>1, <2>2 DEF BatchInv
  <2>5. ASSUME NEW u \in TaskIds PROVE MayLaunch(u)' \subseteq MayLaunch(u)
    BY <1>1, <1>2, <2>1, <2>2, <2>3 DEF MayLaunch, Resolved, BatchInv
  <2> QED BY <1>1, <2>2, <2>4, <2>5, CountKept
<1>12. ASSUME NEW w \in Workers, WorkerCannotReport(w) \/ WorkerRestart(w)
       PROVE  ReexecutionInv'
  <2>1. /\ faults' = faults + 1
        /\ UNCHANGED <<tasks, launches>>
        /\ worker'[w].batch \subseteq worker[w].batch /\ worker'[w].task = NoTask
        /\ \A v \in Workers \ {w} : worker'[v] = worker[v]
    BY <1>1, <1>12 DEF WorkerCannotReport, WorkerRestart, Fault
  <2>2. BatchInv'
    BY <1>1, <2>1 DEF BatchInv
  <2>3. \A t \in TaskIds : MayLaunch(t)' \subseteq MayLaunch(t) \cup {w}
    BY <2>1 DEF MayLaunch
  <2> QED BY <2>1, <2>2, <2>3, CountKept
<1> QED BY <1>3, <1>5, <1>6, <1>8, <1>9, <1>10, <1>11, <1>12 DEF Laniakea, WorkerStep

LEMMA FaultsOfStep ==
  [Next]_vars => \/ UNCHANGED vars
                 \/ Laniakea(WorkerStep)
                 \/ UNCHANGED <<worker, launches>> /\ faults' \in {faults, faults + 1}
<1>1. Scheduler(SchedulerStep) =>
        UNCHANGED <<worker, launches>> /\ faults' \in {faults, faults + 1}
  BY DEF Scheduler, workerVars, agentVars, SchedulerStep, FetchPending, DispatchTask,
         DispatchTaskFails, SchedulerRestart, Fault
<1>2. Europa(EuropaStep) =>
        UNCHANGED <<worker, launches>> /\ faults' \in {faults, faults + 1}
  BY DEF Europa, workerVars, agentVars, EuropaStep, RunBegins, ProposeApproveBegins,
         IntakeReturns, RunAppends, RunGivesUp, CommandAborts,
         ProposeApprovePromotes, ProposeApproveFails, Approve, Reject, ProposeReject, Cancel, EuropaRestart, Fault
<1>3. Kepler(KeplerStep) =>
        UNCHANGED <<worker, launches>> /\ faults' \in {faults, faults + 1}
  <2>1. ASSUME NEW findings \in SUBSET Discovered, KeplerScans(findings)
        PROVE  faults' \in {faults, faults + 1}
    BY <2>1 DEF KeplerScans, Fault
  <2>2. ASSUME NEW t \in Discovered, KeplerRegisters(t) \/ KeplerCannotRegister(t)
        PROVE  faults' \in {faults, faults + 1}
    BY <2>2 DEF KeplerRegisters, KeplerCannotRegister, Fault
  <2> QED BY <2>1, <2>2 DEF Kepler, workerVars, agentVars, KeplerStep, KeplerWritesSeen,
                            KeplerCannotWriteSeen, KeplerRestart, Fault
<1> QED BY <1>1, <1>2, <1>3 DEF Next

LEMMA CountStep == SafetyInv /\ SafetyInv' /\ ReexecutionInv /\ [Next]_vars => ReexecutionInv'
<1> SUFFICES ASSUME SafetyInv, SafetyInv', ReexecutionInv, [Next]_vars
             PROVE  ReexecutionInv'
  OBVIOUS
<1>1. StepOfLife
  BY LifeStep
<1>2. UNCHANGED vars => UNCHANGED <<worker, launches>> /\ faults' \in {faults, faults + 1}
  BY DEF vars, workerVars, agentVars
<1> QED BY <1>1, <1>2, FaultsOfStep, CountOfLaniakea, CountBesideWorkers

LEMMA CountInit == Init => ReexecutionInv
<1> SUFFICES ASSUME Init PROVE ReexecutionInv
  OBVIOUS
<1>1. /\ faults = 0 /\ launches = [t \in TaskIds |-> 0]
      /\ worker = [w \in Workers |-> IdleWorker({})]
  BY DEF Init, TableInit, WorkerInit, AgentInit
<1>2. BatchInv
  BY <1>1 DEF BatchInv, IdleWorker
<1>3. ASSUME NEW t \in TaskIds PROVE Cardinality(MayLaunch(t)) <= Cardinality(Workers)
  BY FS_Subset, WorkerAssumption DEF MayLaunch, WorkerAssumption
<1>4. Cardinality(Workers) \in Nat
      /\ \A t \in TaskIds : Cardinality(MayLaunch(t)) \in Nat
  BY FS_Subset, FS_CardinalityType, WorkerAssumption DEF MayLaunch, WorkerAssumption
<1> QED BY <1>1, <1>2, <1>3, <1>4 DEF ReexecutionInv, CountInv

\* The two invariants hold together.
LEMMA Counted == Spec => [](SafetyInv /\ ReexecutionInv)
BY CountInit, CountStep, Safety, PTL DEF Spec

(* A worker is done with a task when it turns to it, and the launches of a task
   that were and those its workers may still make without a further fault are
   together no more than the workers and the faults (custom.rs 380-401,
   worker.rs 35-84). *)
THEOREM LaunchesAreCounted == Spec => []ReexecutionInv
BY Counted, PTL

\* Canopus runs for a task at most once for each worker and each fault.
THEOREM ReexecutionBound == Spec => []ReexecutionIsBounded
<1>1. SafetyInv /\ ReexecutionInv => ReexecutionIsBounded
  <2> SUFFICES ASSUME SafetyInv, ReexecutionInv, NEW t \in TaskIds
               PROVE  launches[t] <= Cardinality(Workers) + faults
    BY DEF ReexecutionIsBounded
  <2>1. launches[t] + Cardinality(MayLaunch(t)) <= Cardinality(Workers) + faults
    BY DEF ReexecutionInv, CountInv
  <2>2. /\ launches[t] \in Nat /\ faults \in Nat
        /\ Cardinality(Workers) \in Nat /\ Cardinality(MayLaunch(t)) \in Nat
    BY FS_Subset, FS_CardinalityType, WorkerAssumption, TableAssumption
       DEF MayLaunch, WorkerAssumption, SafetyInv, TypeOK, TableTypeOK, WorkerTypeOK,
           AgentTypeOK, TableAssumption
  <2> QED BY <2>1, <2>2
<1> QED BY <1>1, Counted, PTL

-----------------------------------------------------------------------------
(* What survives the loss of the table.                                    *)

\* A step that keeps the table's promises by row, puts no unreleased finding
\* into a released status and takes only dispatched tasks keeps what is left.
LEMMA LossOfRows ==
  ASSUME LossInv, TypeOK', RowInv', RunInFlightInv', WorkersGoOn,
         promoted \subseteq promoted',
         \A t \in Discovered :
           tasks'[t].status \in Released => tasks[t].status \in Released \/ t \in promoted'
  PROVE  LossInv'
<1>1. \A t \in Discovered : Taken(t)' => Taken(t) \/ tasks[t].status = "Dispatched"
  BY DEF WorkersGoOn, TaskIds
<1>2. GateInv'
  BY <1>1 DEF LossInv, GateInv, Released
<1> QED BY <1>2 DEF LossInv, WorkersGoOn

\* Nothing happens to workers and processes.
LEMMA WorkersRest ==
  ASSUME LossInv, UNCHANGED <<agents, branches, launches, worker, worked>>
  PROVE  WorkersGoOn
BY DEF LossInv, WorkersGoOn, ResultInv, BranchInv, Taken

\* A step that leaves the table and the verdicts alone.
LEMMA LossBesideTable ==
  ASSUME LossInv, TypeOK', RunInFlightInv', WorkersGoOn, UNCHANGED <<tasks, promoted, approved>>
  PROVE  LossInv'
<1>1. RowInv'
  BY DEF LossInv, RowInv, WorkersGoOn
<1> QED BY <1>1, LossOfRows

\* The dispatcher dispatches a pending row and changes no other status.
LEMMA LossScheduler == LossInv /\ Scheduler(SchedulerStep) => LossInv'
<1> SUFFICES ASSUME LossInv, Scheduler(SchedulerStep) PROVE LossInv'
  OBVIOUS
<1>1. TypeOK' /\ TypeOK
  BY TypeScheduler DEF LossInv
<1>2. UNCHANGED <<agents, branches, launches, worker, worked, command, promoted, approved>>
  BY DEF Scheduler, workerVars, agentVars, europaVars
<1>3. WorkersGoOn /\ RunInFlightInv'
  BY <1>2, WorkersRest DEF LossInv, RunInFlightInv
<1>4. CASE UNCHANGED tasks
  BY <1>1, <1>2, <1>3, <1>4, LossBesideTable
<1>5. ASSUME NEW t \in TaskIds, DispatchTask(t) PROVE LossInv'
  <2>1. \A u \in TaskIds :
          /\ tasks'[u].status = IF u = t /\ tasks[t].status = "Pending"
                                THEN "Dispatched" ELSE tasks[u].status
          /\ tasks'[u].approval = tasks[u].approval
          /\ tasks'[u].metaApproval \in {tasks[u].metaApproval, "none"}
    BY <1>1, <1>5, TransitionRows
       DEF DispatchTask, TypeOK, Status, TransitionAllowed, CanTransitionTo
  <2>2. RowInv'
    BY <1>2, <2>1 DEF LossInv, RowInv
  <2> QED BY <1>1, <1>2, <1>3, <2>1, <2>2, LossOfRows DEF Released, TaskIds
<1>6. UNCHANGED tasks \/ \E t \in TaskIds : DispatchTask(t)
  BY DEF Scheduler, SchedulerStep, FetchPending, DispatchTaskFails, SchedulerRestart
<1> QED BY <1>4, <1>5, <1>6

\* A worker reports on a dispatched row, as pending review when the work is done.
LEMMA LossLaniakea == LossInv /\ Laniakea(WorkerStep) => LossInv'
<1> SUFFICES ASSUME LossInv, Laniakea(WorkerStep) PROVE LossInv'
  OBVIOUS
<1>1. TypeOK' /\ TypeOK /\ ResultInv
  BY TypeLaniakea DEF LossInv
<1>2. UNCHANGED <<command, promoted, approved>>
  BY DEF Laniakea, europaVars
<1>3. WorkersGoOn /\ RunInFlightInv'
  BY <1>2, WorkersAndBranches DEF LossInv, RunInFlightInv, Laniakea
<1>4. UNCHANGED tasks \/ \E w \in Workers : WorkerReports(w)
  BY DEF Laniakea, WorkerStep, WorkerFetch, WorkerHandles, WorkerLaunches,
         WorkerCannotLaunch, TurnTo, CanopusPrepares, CanopusExits, CanopusTimeout,
         WorkerCannotReport, WorkerRestart
<1>5. CASE UNCHANGED tasks
  BY <1>1, <1>2, <1>3, <1>5, LossBesideTable
<1>6. ASSUME NEW w \in Workers, WorkerReports(w) PROVE LossInv'
  <2>1. PICK t \in TaskIds, next \in {"PendingReview", "Failed"} :
          /\ next = "PendingReview" => t \in worked
          /\ \A u \in TaskIds :
               /\ tasks'[u].status = IF u = t /\ tasks[t].status = "Dispatched"
                                     THEN next ELSE tasks[u].status
               /\ tasks'[u].approval = tasks[u].approval
               /\ tasks'[u].metaApproval \in {tasks[u].metaApproval, "none"}
    BY <1>1, <1>6, ReportedRows
  <2>2. RowInv'
    BY <1>2, <1>3, <2>1 DEF LossInv, RowInv, WorkersGoOn
  <2> QED BY <1>1, <1>2, <1>3, <2>1, <2>2, LossOfRows DEF Released, TaskIds
<1> QED BY <1>4, <1>5, <1>6

\* Kepler adds a proposal, which no human has promoted yet and nobody takes.
LEMMA LossKepler == LossInv /\ Kepler(KeplerStep) => LossInv'
<1> SUFFICES ASSUME LossInv, Kepler(KeplerStep) PROVE LossInv'
  OBVIOUS
<1>1. TypeOK' /\ TypeOK
  BY TypeKepler DEF LossInv
<1>2. UNCHANGED <<agents, branches, launches, worker, worked, command, promoted, approved>>
  BY DEF Kepler, workerVars, agentVars, europaVars
<1>3. WorkersGoOn /\ RunInFlightInv'
  BY <1>2, WorkersRest DEF LossInv, RunInFlightInv
<1>4. CASE UNCHANGED tasks
  BY <1>1, <1>2, <1>3, <1>4, LossBesideTable
<1>5. ASSUME NEW t \in Discovered, tasks' = AfterCreate(t, ProposalRow) PROVE LossInv'
  <2>1. /\ ProposalRow \in Row /\ ProposalRow.metaApproval = "none"
        /\ ProposalRow.status = "PendingProposal" /\ ProposalRow.approval = "none"
    BY DEF ProposalRow, NoRow, Row, ApprovalState, Status
  <2>2. \A u \in TaskIds :
          IF u = t /\ ~Exists(t)
          THEN tasks'[u].status = "PendingProposal" /\ tasks'[u].approval = "none"
               /\ tasks'[u].metaApproval = "none"
          ELSE /\ tasks'[u].status = tasks[u].status
               /\ tasks'[u].approval = tasks[u].approval
               /\ tasks'[u].metaApproval \in {tasks[u].metaApproval, "none"}
    BY <1>1, <1>5, <2>1, CreateRows DEF TypeOK, TaskIds
  <2>3. RowInv'
    BY <1>2, <2>2 DEF LossInv, RowInv
  <2> QED BY <1>1, <1>2, <1>3, <2>2, <2>3, LossOfRows DEF Released, TaskIds
<1>6. UNCHANGED tasks \/ \E t \in Discovered : tasks' = AfterCreate(t, ProposalRow)
  BY DEF Kepler, KeplerStep, KeplerScans, KeplerRegisters, KeplerCannotRegister,
         KeplerWritesSeen, KeplerCannotWriteSeen, KeplerRestart
<1> QED BY <1>4, <1>5, <1>6

\* What Europa does to the rows: nothing, a row of a requested task alone or
\* before all others are gone, or a locked update along the life of a task.
LEMMA LossOfUpdate ==
  ASSUME LossInv, TypeOK', WorkersGoOn, RunInFlightInv', UNCHANGED worked,
         NEW t \in TaskIds,
         \A u \in TaskIds \ {t} : tasks'[u] = tasks[u] \/ tasks'[u] = NoRow,
         promoted \subseteq promoted', approved \subseteq approved',
         tasks'[t].status \in {"Pending", "PendingProposal", "Processed", "Failed"},
         tasks'[t].status = "Pending" => t \in promoted' \/ t \in Requested,
         tasks'[t].status = "PendingProposal" => tasks[t].status = "PendingProposal",
         tasks'[t].status = "Processed" => tasks[t].status = "PendingReview" /\ t \in approved',
         tasks'[t].approval = "approved" <=> tasks'[t].status = "Processed",
         tasks'[t].metaApproval = "approved" => tasks'[t].approval = "approved"
  PROVE  LossInv'
<1>1. NoRow.status = "Absent" /\ NoRow.approval = "none" /\ NoRow.metaApproval = "none"
  BY DEF NoRow
<1>2. RowInv'
  <2> SUFFICES ASSUME NEW u \in TaskIds
               PROVE  /\ tasks'[u].metaApproval = "approved" => tasks'[u].approval = "approved"
                      /\ tasks'[u].approval = "approved" <=> tasks'[u].status = "Processed"
                      /\ tasks'[u].status = "Processed" => u \in approved'
                      /\ tasks'[u].status \in {"PendingReview", "Processed"} => u \in worked'
                      /\ tasks'[u].status = "PendingProposal" => u \in Discovered
    BY DEF RowInv
  <2>1. CASE u = t
    BY <2>1 DEF LossInv, RowInv
  <2>2. CASE u # t
    BY <1>1, <2>2 DEF LossInv, RowInv
  <2> QED BY <2>1, <2>2
<1>3. \A u \in Discovered :
        tasks'[u].status \in Released => tasks[u].status \in Released \/ u \in promoted'
  BY <1>1, TableAssumption DEF Released, TaskIds, TableAssumption
<1> QED BY <1>2, <1>3, LossOfRows

\* The bot's own steps, the append to a table it could not read among them.
LEMMA LossEuropa ==
  LossInv /\ Europa(EuropaStep \/ \E s \in Slots : RunAppendsUnread(s)) => LossInv'
<1> SUFFICES ASSUME LossInv, Europa(EuropaStep \/ \E s \in Slots : RunAppendsUnread(s))
             PROVE  LossInv'
  OBVIOUS
<1>1. UNCHANGED <<agents, branches, launches, worker, worked, seen, scan, dispatchBatch>>
  BY DEF Europa, workerVars, agentVars, keplerVars, schedulerVars
<1>2. WorkersGoOn
  BY <1>1, WorkersRest
<1>3. TypeOK /\ tasks \in [TaskIds -> Row] /\ command \in [Slots -> Command]
  BY DEF LossInv, TypeOK, TableTypeOK, EuropaTypeOK
<1>4. ASSUME NEW s \in Slots, RunAppends(s) \/ RunAppendsUnread(s) PROVE LossInv'
  <2> DEFINE t == command[s].task
             row == RequestedRow(command[s].intake)
  <2>1. t \in Requested /\ t \in TaskIds
    BY <1>4 DEF RunAppends, RunAppendsUnread, LossInv, RunInFlightInv, TaskIds
  <2>2. /\ row.status = "Pending" /\ row.approval = "pending" /\ row.metaApproval = "pending"
        /\ row \in Row
    BY DEF RequestedRow, Row, ApprovalState, Status
  <2>3. NoRow \in Row
    BY DEF NoRow, Row, ApprovalState
  <2>4. /\ tasks' \in [TaskIds -> Row] /\ tasks'[t] = row
        /\ \A u \in TaskIds \ {t} : tasks'[u] = tasks[u] \/ tasks'[u] = NoRow
    <3> HIDE DEF t, row
    <3>1. \/ tasks' = [tasks EXCEPT ![t] = row]
          \/ tasks' = [[u \in TaskIds |-> NoRow] EXCEPT ![t] = row]
      BY <1>4 DEF RunAppends, RunAppendsUnread, BotAppend, BotAppendUnread, t, row
    <3> QED BY <1>3, <2>1, <2>2, <2>3, <3>1
  <2>5. /\ command' = [command EXCEPT ![s] = NoCommand]
        /\ UNCHANGED <<issues, promoted, approved>>
        /\ faults' \in 0 .. MaxFaults
    BY <1>3, <1>4, FaultType DEF RunAppends, RunAppendsUnread, TypeOK, TableTypeOK
  <2>6. TypeOK'
    BY <1>1, <1>3, <2>4, <2>5
       DEF TypeOK, TableTypeOK, SchedulerTypeOK, WorkerTypeOK, AgentTypeOK, EuropaTypeOK,
           KeplerTypeOK, Command
  <2>7. RunInFlightInv'
    BY <1>3, <2>5 DEF LossInv, RunInFlightInv, NoCommand
  <2> HIDE DEF t, row
  <2> QED BY <1>1, <1>2, <2>1, <2>2, <2>4, <2>5, <2>6, <2>7, LossOfUpdate
<1> SUFFICES ASSUME Europa(EuropaStep), TypeOK' PROVE LossInv'
  BY <1>3, <1>4, TypeEuropa DEF Europa
<1>5. RunInFlightInv'
  <2>1. \A s \in Slots : command'[s].name = "run" =>
          \/ command'[s].task \in Requested
          \/ command[s].name = "run" /\ command[s].task = command'[s].task
    BY <1>3 DEF Europa, EuropaStep, RunBegins, ProposeApproveBegins, IntakeReturns, RunAppends,
                RunGivesUp, ProposeApprovePromotes, ProposeApproveFails, CommandAborts, Approve,
                Reject, ProposeReject, Cancel, EuropaRestart, Waiting, NoCommand, europaVars,
                Command
  <2> QED BY <2>1 DEF LossInv, RunInFlightInv
<1>6. ASSUME NEW t \in TaskIds, NEW row \in Row,
             NEW next \in {"Pending", "PendingProposal", "Processed", "Failed"},
             BotUpdate(t, row, next),
             promoted \subseteq promoted', approved \subseteq approved',
             next = "Pending" => t \in promoted',
             next = "PendingProposal" => tasks[t].status = "PendingProposal",
             next = "Processed" => tasks[t].status = "PendingReview" /\ t \in approved',
             row.approval = "approved" <=> next = "Processed",
             row.metaApproval = "approved" => row.approval = "approved"
      PROVE  LossInv'
  <2>1. next \in Status
    BY DEF Status
  <2>2. /\ \A u \in TaskIds \ {t} : tasks'[u] = tasks[u]
        /\ tasks'[t].status = next /\ tasks'[t].approval = row.approval
        /\ tasks'[t].metaApproval = row.metaApproval
    BY <1>3, <1>6, <2>1, UpdateRows DEF TypeOK
  <2> QED BY <1>1, <1>2, <1>5, <1>6, <2>2, LossOfUpdate
<1>7. CASE UNCHANGED <<tasks, promoted, approved>>
  BY <1>2, <1>5, <1>7, LossBesideTable
<1>8. \A t \in TaskIds : /\ tasks[t].metaApproval = "approved" => tasks[t].approval = "approved"
                         /\ tasks[t].approval = "approved" <=> tasks[t].status = "Processed"
  BY DEF LossInv, RowInv
<1>9. ASSUME NEW s \in Slots, ProposeApprovePromotes(s) PROVE LossInv'
  <2>1. CASE UNCHANGED <<tasks, promoted>>
    BY <1>7, <1>9, <2>1 DEF ProposeApprovePromotes
  <2>2. CASE tasks[command[s].task].status = "PendingProposal"
    <3> DEFINE t == command[s].task
               row == WithIntake(tasks[t], command[s].intake)
    <3>1. t \in TaskIds /\ BotUpdate(t, row, "Pending") /\ promoted' = promoted \cup {t}
          /\ UNCHANGED approved
      BY <1>3, <1>9, <2>2 DEF ProposeApprovePromotes, HasStatusIn, Command, NoCommand
    <3>2. row \in Row /\ row.approval = tasks[t].approval
          /\ row.metaApproval = tasks[t].metaApproval
      BY <1>3, <3>1, WrittenRows
    <3> HIDE DEF row
    <3> QED BY <1>6, <1>8, <2>2, <3>1, <3>2
  <2> QED BY <1>9, <2>1, <2>2 DEF ProposeApprovePromotes, HasStatusIn
<1>10. ASSUME NEW s \in Slots, ProposeApproveFails(s) PROVE LossInv'
  <2>1. CASE UNCHANGED tasks
    BY <1>7, <1>10, <2>1 DEF ProposeApproveFails
  <2>2. CASE tasks[command[s].task].status = "PendingProposal"
    <3> DEFINE t == command[s].task
               row == IntakeFailed(tasks[t])
    <3>1. t \in TaskIds /\ BotUpdate(t, row, "PendingProposal")
          /\ UNCHANGED <<promoted, approved>>
      BY <1>3, <1>10, <2>2 DEF ProposeApproveFails, HasStatusIn, Command, NoCommand
    <3>2. row \in Row /\ row.approval = tasks[t].approval
          /\ row.metaApproval = tasks[t].metaApproval
      BY <1>3, <3>1, WrittenRows
    <3> HIDE DEF row
    <3> QED BY <1>6, <1>8, <2>2, <3>1, <3>2
  <2> QED BY <1>10, <2>1, <2>2 DEF ProposeApproveFails, HasStatusIn
<1>11. ASSUME NEW t \in TaskIds, Approve(t) PROVE LossInv'
  <2>1. tasks[t] \in Row /\ MarkedApproved(tasks[t]) \in Row
        /\ MarkedApproved(tasks[t]).approval = "approved"
    BY <1>3, WrittenRows
  <2> QED BY <1>6, <1>11, <2>1 DEF Approve, HasStatusIn
<1>12. ASSUME NEW t \in TaskIds, Reject(t) PROVE LossInv'
  <2>1. tasks[t] \in Row /\ MarkedRejected(tasks[t]) \in Row
        /\ MarkedRejected(tasks[t]).approval = "rejected"
        /\ MarkedRejected(tasks[t]).metaApproval = "rejected"
    BY <1>3, WrittenRows
  <2> QED BY <1>6, <1>12, <2>1 DEF Reject, europaVars
<1>13. ASSUME NEW t \in TaskIds, ProposeReject(t) \/ Cancel(t) PROVE LossInv'
  <2>1. tasks[t] \in Row /\ tasks[t].status # "Processed" /\ BotUpdate(t, tasks[t], "Failed")
        /\ UNCHANGED <<promoted, approved>>
    BY <1>3, <1>13 DEF ProposeReject, Cancel, HasStatusIn, europaVars
  <2> QED BY <1>6, <1>8, <2>1
<1>14. \/ UNCHANGED <<tasks, promoted, approved>>
       \/ \E s \in Slots : RunAppends(s) \/ ProposeApprovePromotes(s) \/ ProposeApproveFails(s)
       \/ \E t \in TaskIds : Approve(t) \/ Reject(t) \/ ProposeReject(t) \/ Cancel(t)
  BY DEF Europa, EuropaStep, RunBegins, ProposeApproveBegins, IntakeReturns, RunGivesUp,
         CommandAborts, EuropaRestart
<1> QED BY <1>4, <1>7, <1>9, <1>10, <1>11, <1>12, <1>13, <1>14

\* With a bot that may lose the table, what is left of the invariant holds.
THEOREM SafetyWithLoss == LossySpec => []LossInv
<1>1. Init => LossInv
  BY SafetyInit DEF SafetyInv, LossInv, CommandInv, RunInFlightInv
<1>2. LossInv /\ [LossyNext]_vars => LossInv'
  <2> SUFFICES ASSUME LossInv, [LossyNext]_vars PROVE LossInv'
    OBVIOUS
  <2>1. CASE UNCHANGED vars
    <3>1. TypeOK'
      BY <2>1, TypeStep DEF LossInv
    <3>2. /\ UNCHANGED <<tasks, command, promoted, approved>>
          /\ UNCHANGED <<agents, branches, launches, worker, worked>>
      BY <2>1 DEF vars, workerVars, agentVars, europaVars
    <3>3. RunInFlightInv'
      BY <3>2 DEF LossInv, RunInFlightInv
    <3> QED BY <3>1, <3>2, <3>3, WorkersRest, LossBesideTable
  <2>2. CASE LossyNext
    BY <2>2, LossScheduler, LossLaniakea, LossKepler, LossEuropa DEF LossyNext, Next, Europa
  <2> QED BY <2>1, <2>2
<1> QED BY <1>1, <1>2, PTL DEF LossySpec

\* Also then no canopus process is launched for a finding that no human promoted.
THEOREM GateSurvivesLoss == LossySpec => []NoRunWithoutGate
<1>1. LossInv => NoRunWithoutGate
  BY DEF LossInv, GateInv, Taken, NoRunWithoutGate
<1> QED BY <1>1, SafetyWithLoss, PTL

\* Also then what canopus may finalize was approved by a human, on finished work,
\* and Europa agrees.
THEOREM ApprovalSurvivesLoss == LossySpec => [](ApprovalIsEarned /\ ApprovalIsShared)
<1>1. LossInv => ApprovalIsEarned /\ ApprovalIsShared
  BY DEF LossInv, RowInv, ApprovalIsEarned, ApprovalIsShared, CanopusFinalizes,
         IsApprovedProcessedTask
<1> QED BY <1>1, SafetyWithLoss, PTL

\* Also then nothing works on an implementation that is under review or approved.
THEOREM ReviewSurvivesLoss == LossySpec => []ReviewedWorkIsQuiet
<1>1. LossInv => ReviewedWorkIsQuiet
  BY DEF LossInv, RowInv, BranchInv, ReviewedWorkIsQuiet
<1> QED BY <1>1, SafetyWithLoss, PTL

=============================================================================
