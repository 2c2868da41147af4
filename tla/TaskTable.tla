------------------------------ MODULE TaskTable ------------------------------
(***************************************************************************)
(* tasks.json, the file through which every process of the system          *)
(* coordinates, and the operations on it: dysonsphere's FileTaskTable      *)
(* (Rust) and Europa's tasks_store (Python).                               *)
(*                                                                         *)
(* Both read, change and replace the whole file under the same exclusive   *)
(* lock and publish it by an atomic rename, so an operation is one atomic  *)
(* change of `tasks`, a crash falls before or after it, and a reader that  *)
(* takes no lock still sees one published version.  The order of rows in   *)
(* the file is abstracted: a table is a function from task ids.            *)
(***************************************************************************)
EXTENDS TaskStatus, Naturals

CONSTANTS
  Requested,    \* ids of the tasks users ask for with !run (fresh uuids)
  Discovered,   \* ids of the findings Kepler reports (FNV hash of a finding)
  NoTask,       \* no task id
  MaxFaults     \* bound: crashes and failed file accesses in one behaviour

ASSUME TableAssumption ==
  /\ Requested \cap Discovered = {}
  /\ NoTask \notin Requested \cup Discovered
  /\ MaxFaults \in Nat

TaskIds == Requested \cup Discovered

VARIABLES
  tasks,        \* the rows of tasks.json
  faults        \* crashes and failed accesses so far

ApprovalState == {"none", "pending", "approved", "rejected"}

\* A row keeps what the processes decide by: meta.status, payload.approval_state
\* with its copy in meta, and what work-intake left in the payload.
Row == [status       : Status \cup {"Absent"},
        approval     : ApprovalState,
        metaApproval : ApprovalState,
        intake       : {"none", "failed", "succeeded"},
        issue        : BOOLEAN]

NoRow == [status |-> "Absent", approval |-> "none", metaApproval |-> "none",
          intake |-> "none", issue |-> FALSE]

Exists(t) == tasks[t].status # "Absent"

\* fetch_pending, fetch_dispatched, fetch_processed.
FetchBy(status) == {t \in TaskIds : tasks[t].status = status}

\* A crash or failed access happens, within the bound.
Fault == faults < MaxFaults /\ faults' = faults + 1

-----------------------------------------------------------------------------
(* FileTaskTable.  Its TaskMeta knows three fields, so that every rewrite   *)
(* by a Rust process drops the meta fields Europa added, of every row.      *)

Rewritten(table) ==
  [t \in TaskIds |-> [table[t] EXCEPT !.metaApproval = "none"]]

\* FileTaskTable::create; a duplicate id is an error and writes nothing.
AfterCreate(t, row) ==
  IF Exists(t) THEN tasks ELSE Rewritten([tasks EXCEPT ![t] = row])

\* FileTaskTable::transition compares the status, then moves: Applied, Stale,
\* or an error (TaskNotFound, InvalidStatusTransition).
TransitionApplies(t, expected, next) ==
  Exists(t) /\ tasks[t].status = expected /\ TransitionAllowed(expected, next)

TransitionIsStale(t, expected) == Exists(t) /\ tasks[t].status # expected

\* Mutant: the row is moved without comparing its status.
AfterTransitionUnchecked(t, expected, next) ==
  IF Exists(t) THEN Rewritten([tasks EXCEPT ![t].status = next]) ELSE tasks

\* The table after FileTaskTable::transition: an error writes nothing, a
\* stale call writes the unchanged rows back.
AfterTransition(t, expected, next) ==
  IF TransitionApplies(t, expected, next)
  THEN Rewritten([tasks EXCEPT ![t].status = next])
  ELSE IF TransitionIsStale(t, expected) THEN Rewritten(tasks) ELSE tasks

-----------------------------------------------------------------------------
(* tasks_store.                                                            *)

\* update_task_status_locked finds its target: a row in one of the statuses,
\* named by the command or the only one there.
HasStatusIn(t, statuses) == tasks[t].status \in statuses

\* update_task_status_locked writes: the status is set as asked, without the
\* lifecycle matrix, and `mutate` has made the other changes in `row`.
BotUpdate(t, row, next) ==
  tasks' = [tasks EXCEPT ![t] = [row EXCEPT !.status = next]]

\* append_task_locked.
BotAppend(t, row) == tasks' = [tasks EXCEPT ![t] = row]

-----------------------------------------------------------------------------

TableInit ==
  /\ tasks = [t \in TaskIds |-> NoRow]
  /\ faults = 0

TableTypeOK ==
  /\ tasks \in [TaskIds -> Row]
  /\ faults \in 0..MaxFaults

=============================================================================
