------------------------------- MODULE Ton618 -------------------------------
(***************************************************************************)
(* TON618, the scheduler process: every ten seconds it reads the Pending   *)
(* tasks and moves each of them to Dispatched with a compare-and-set       *)
(* against the status it read.  The file changes under its snapshot.       *)
(***************************************************************************)
EXTENDS TaskTable

VARIABLE dispatchBatch     \* the tasks of the snapshot still to be dispatched

schedulerVars == dispatchBatch

SchedulerInit == dispatchBatch = {}

SchedulerTypeOK == dispatchBatch \subseteq TaskIds

\* fetch_pending; a failed read is an empty snapshot, which changes nothing.
FetchPending ==
  /\ dispatchBatch = {}
  /\ dispatchBatch' = FetchBy("Pending")
  /\ UNCHANGED <<tasks, faults>>

\* One turn of the loop over the snapshot: Applied, or Stale and skipped.
DispatchTask(t) ==
  /\ t \in dispatchBatch
  /\ tasks' = AfterTransition(t, "Pending", "Dispatched")
  /\ dispatchBatch' = dispatchBatch \ {t}
  /\ UNCHANGED faults

\* The table access fails: logged, the loop goes on.
DispatchTaskFails(t) ==
  /\ t \in dispatchBatch
  /\ Fault
  /\ dispatchBatch' = dispatchBatch \ {t}
  /\ UNCHANGED tasks

SchedulerRestart ==
  /\ dispatchBatch # {}
  /\ Fault
  /\ dispatchBatch' = {}
  /\ UNCHANGED tasks

SchedulerStep ==
  \/ FetchPending
  \/ \E t \in TaskIds : DispatchTask(t)
  \/ \E t \in TaskIds : DispatchTaskFails(t)
  \/ SchedulerRestart

=============================================================================
