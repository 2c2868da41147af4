------------------------------- MODULE Europa -------------------------------
(***************************************************************************)
(* Europa, the Discord bot, through which humans steer the pipeline.  Its  *)
(* commands are coroutines of one event loop: a command runs alone up to   *)
(* an await, and other commands, and the other processes, run while it     *)
(* waits.  !run and !propose-approve await `canopus work-intake`, which    *)
(* opens a GitHub Issue for the task, before they touch the table; the     *)
(* other commands change the table in one locked update.                   *)
(***************************************************************************)
EXTENDS TaskTable

CONSTANTS
  Slots,             \* bound: commands that wait for an intake at a time
  GitHubBacked,      \* the project is registered with an owner and a repo
  IntakeLocalOnly    \* EUROPA_INTAKE_FAILURE_LOCAL_ONLY is "1"

ASSUME EuropaAssumption == GitHubBacked \in BOOLEAN /\ IntakeLocalOnly \in BOOLEAN

VARIABLES
  command,      \* the commands in flight
  issues,       \* tasks for which an Issue was opened on GitHub
  promoted,     \* proposals a human released for work (history)
  approved      \* tasks whose result a human approved (history)

europaVars == <<command, issues, promoted, approved>>

IntakeResult == {"skipped", "created", "failed", "partial"}

NoCommand == [name |-> "none", task |-> NoTask, intake |-> "waiting"]

Command == {NoCommand} \cup [name   : {"run", "propose-approve"},
                             task   : TaskIds,
                             intake : {"waiting"} \cup IntakeResult]

EuropaInit ==
  /\ command = [s \in Slots |-> NoCommand]
  /\ issues = {}
  /\ promoted = {}
  /\ approved = {}

EuropaTypeOK ==
  /\ command \in [Slots -> Command]
  /\ issues \subseteq TaskIds
  /\ promoted \subseteq TaskIds
  /\ approved \subseteq TaskIds

-----------------------------------------------------------------------------
(* What the commands write into a row.                                     *)

\* build_task_payload and cmd_run: a new row, with the Issue intake returned.
RequestedRow(intake) ==
  [status |-> "Pending", approval |-> "pending", metaApproval |-> "pending",
   intake |-> "none", issue |-> intake = "created"]

\* mark_proposal_intake_failed: the error is recorded, and nothing else.
IntakeFailed(row) == [row EXCEPT !.intake = "failed"]

\* promote_pending_proposal_with_intake: an intake is merged into the payload.
WithIntake(row, intake) ==
  IF intake = "created"
  THEN [row EXCEPT !.intake = "succeeded", !.issue = TRUE]
  ELSE row

\* Mutant: the approval is recorded in meta only.
MarkedApprovedInMeta(row) == [row EXCEPT !.metaApproval = "approved"]

\* mark_task_approved.
MarkedApproved(row) ==
  [row EXCEPT !.approval = "approved", !.metaApproval = "approved"]

\* mark_task_rejected.
MarkedRejected(row) ==
  [row EXCEPT !.approval = "rejected", !.metaApproval = "rejected"]

\* is_approved_processed_task, by which !finalize and the bot's hints go.
IsApprovedProcessedTask(row) ==
  /\ row.status = "Processed"
  /\ row.metaApproval = "approved" \/ row.approval = "approved"

-----------------------------------------------------------------------------
(* The commands that wait for an intake.                                   *)

Waiting(name, t) == [name |-> name, task |-> t, intake |-> "waiting"]

\* !run takes a fresh id and awaits the intake.
RunBegins(s, t) ==
  /\ command[s] = NoCommand
  /\ t \in Requested
  /\ ~Exists(t) /\ t \notin issues
  /\ \A other \in Slots : command[other].task # t
  /\ command' = [command EXCEPT ![s] = Waiting("run", t)]
  /\ UNCHANGED <<tasks, faults, issues, promoted, approved>>

\* !propose-approve reads its proposal under the lock and awaits the intake.
ProposeApproveBegins(s, t) ==
  /\ command[s] = NoCommand
  /\ HasStatusIn(t, {"PendingProposal"})
  /\ command' = [command EXCEPT ![s] = Waiting("propose-approve", t)]
  /\ UNCHANGED <<tasks, faults, issues, promoted, approved>>

\* intake_github_work returns: nothing to do without GitHub; otherwise an
\* Issue, an error, or an error after the Issue was opened.
IntakeReturns(s, result) ==
  /\ command[s] # NoCommand
  /\ command[s].intake = "waiting"
  /\ GitHubBacked <=> result # "skipped"
  /\ command' = [command EXCEPT ![s].intake = result]
  /\ issues' = IF result \in {"created", "partial"}
               THEN issues \cup {command[s].task} ELSE issues
  /\ UNCHANGED <<tasks, faults, promoted, approved>>

\* Mutant: a failed intake does not stop the command.
MayGoOnAnyway(s) == command[s].intake \in IntakeResult

\* The command goes on after the intake: it returned no error, or its error
\* is waived.
MayGoOn(s) ==
  \/ command[s].intake \in {"skipped", "created"}
  \/ command[s].intake \in {"failed", "partial"} /\ IntakeLocalOnly

\* The intake's error stops the command.
IntakeStops(s) ==
  command[s].intake \in {"failed", "partial"} /\ ~IntakeLocalOnly

\* !run appends the task.
RunAppends(s) ==
  /\ command[s].name = "run"
  /\ MayGoOn(s)
  /\ BotAppend(command[s].task, RequestedRow(command[s].intake))
  /\ command' = [command EXCEPT ![s] = NoCommand]
  /\ UNCHANGED <<faults, issues, promoted, approved>>

\* !run gives up; the id is never used again.
RunGivesUp(s) ==
  /\ command[s].name = "run"
  /\ IntakeStops(s)
  /\ command' = [command EXCEPT ![s] = NoCommand]
  /\ UNCHANGED <<tasks, faults, issues, promoted, approved>>

\* Mutant: the proposal that was read before the await is written back.
PromotesUnchecked(s) ==
  LET t == command[s].task IN
  /\ command[s].name = "propose-approve"
  /\ MayGoOn(s)
  /\ BotUpdate(t, WithIntake(tasks[t], command[s].intake), "Pending")
  /\ promoted' = promoted \cup {t}
  /\ command' = [command EXCEPT ![s] = NoCommand]
  /\ UNCHANGED <<faults, issues, approved>>

\* !propose-approve promotes, if the task is a proposal still.
ProposeApprovePromotes(s) ==
  LET t == command[s].task IN
  /\ command[s].name = "propose-approve"
  /\ MayGoOn(s)
  /\ IF HasStatusIn(t, {"PendingProposal"})
     THEN /\ BotUpdate(t, WithIntake(tasks[t], command[s].intake), "Pending")
          /\ promoted' = promoted \cup {t}
     ELSE UNCHANGED <<tasks, promoted>>
  /\ command' = [command EXCEPT ![s] = NoCommand]
  /\ UNCHANGED <<faults, issues, approved>>

\* !propose-approve marks the failed intake, if the task is a proposal still.
ProposeApproveFails(s) ==
  LET t == command[s].task IN
  /\ command[s].name = "propose-approve"
  /\ IntakeStops(s)
  /\ IF HasStatusIn(t, {"PendingProposal"})
     THEN BotUpdate(t, IntakeFailed(tasks[t]), "PendingProposal")
     ELSE UNCHANGED tasks
  /\ command' = [command EXCEPT ![s] = NoCommand]
  /\ UNCHANGED <<faults, issues, promoted, approved>>

\* A command ends early by an exception: canopus cannot be launched, Discord
\* refuses a message, or the table cannot be accessed.
CommandAborts(s) ==
  /\ command[s] # NoCommand
  /\ Fault
  /\ command' = [command EXCEPT ![s] = NoCommand]
  /\ UNCHANGED <<tasks, issues, promoted, approved>>

-----------------------------------------------------------------------------
(* The commands that are one locked update.                                *)

\* !approve; the finalization it then awaits does not write to the table.
Approve(t) ==
  /\ HasStatusIn(t, {"PendingReview"})
  /\ BotUpdate(t, MarkedApproved(tasks[t]), "Processed")
  /\ approved' = approved \cup {t}
  /\ UNCHANGED <<faults, command, issues, promoted>>

\* !reject.
Reject(t) ==
  /\ HasStatusIn(t, {"PendingReview"})
  /\ BotUpdate(t, MarkedRejected(tasks[t]), "Failed")
  /\ UNCHANGED <<faults, europaVars>>

\* !propose-reject.
ProposeReject(t) ==
  /\ HasStatusIn(t, {"PendingProposal"})
  /\ BotUpdate(t, tasks[t], "Failed")
  /\ UNCHANGED <<faults, europaVars>>

\* !cancel.
Cancel(t) ==
  /\ HasStatusIn(t, {"Pending", "Dispatched", "PendingReview", "PendingProposal"})
  /\ BotUpdate(t, tasks[t], "Failed")
  /\ UNCHANGED <<faults, europaVars>>

\* Tasks whose Issue may be opened after the bot is gone.
IntakesUnderWay ==
  {t \in TaskIds : GitHubBacked /\ \E s \in Slots : /\ command[s].task = t
                                                   /\ command[s].intake = "waiting"}

\* The bot stops and starts again: commands in flight are lost, while an
\* intake that is under way may still open its Issue.
EuropaRestart ==
  /\ \E s \in Slots : command[s] # NoCommand
  /\ Fault
  /\ command' = [s \in Slots |-> NoCommand]
  /\ \E opened \in SUBSET IntakesUnderWay : issues' = issues \cup opened
  /\ UNCHANGED <<tasks, promoted, approved>>

EuropaStep ==
  \/ \E s \in Slots, t \in Requested : RunBegins(s, t)
  \/ \E s \in Slots, t \in TaskIds : ProposeApproveBegins(s, t)
  \/ \E s \in Slots, result \in IntakeResult : IntakeReturns(s, result)
  \/ \E s \in Slots : RunAppends(s)
  \/ \E s \in Slots : RunGivesUp(s)
  \/ \E s \in Slots : ProposeApprovePromotes(s)
  \/ \E s \in Slots : ProposeApproveFails(s)
  \/ \E s \in Slots : CommandAborts(s)
  \/ \E t \in TaskIds : Approve(t)
  \/ \E t \in TaskIds : Reject(t)
  \/ \E t \in TaskIds : ProposeReject(t)
  \/ \E t \in TaskIds : Cancel(t)
  \/ EuropaRestart

=============================================================================
