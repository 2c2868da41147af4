------------------------------ MODULE TableLoss ------------------------------
(***************************************************************************)
(* Pipeline assumes that Europa can read tasks.json.  When it cannot,      *)
(* tasks_store takes the table to be empty, where the Rust processes stop  *)
(* with an error: the next !run then publishes a table of its own task     *)
(* alone.  Snapshots, child processes, branches and Kepler's ledger        *)
(* survive the loss.  This module adds that step, to see which promises of *)
(* the pipeline do not rest on the assumption.                             *)
(*                                                                         *)
(* Ids stay fresh when the project is GitHub-backed without the waiver: a  *)
(* task that was appended has its Issue then, and RunBegins avoids it.     *)
(***************************************************************************)
EXTENDS PipelineInv

\* append_task_locked after a failed read.
BotAppendUnread(t, row) ==
  tasks' = [[u \in TaskIds |-> NoRow] EXCEPT ![t] = row]

\* !run appends the task to a table it could not read.
RunAppendsUnread(s) ==
  /\ command[s].name = "run"
  /\ MayGoOn(s)
  /\ Fault
  /\ BotAppendUnread(command[s].task, RequestedRow(command[s].intake))
  /\ command' = [command EXCEPT ![s] = NoCommand]
  /\ UNCHANGED <<issues, promoted, approved>>

LossyNext ==
  \/ Next
  \/ \E s \in Slots : Europa(RunAppendsUnread(s))

LossySpec == Init /\ [][LossyNext]_vars

\* A !run in flight is for a requested task.
RunInFlightInv == \A s \in Slots : command[s].name = "run" => command[s].task \in Requested

\* What is left of the invariant: the parts that speak of lost rows, of what
\* snapshots and ledger know and of the Issue of each row, are gone.
LossInv ==
  /\ TypeOK
  /\ RowInv
  /\ GateInv
  /\ ResultInv
  /\ BranchInv
  /\ RunInFlightInv

=============================================================================
