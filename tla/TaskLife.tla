------------------------------ MODULE TaskLife ------------------------------
(***************************************************************************)
(* What the pipeline promises about a task, whatever the processes do and  *)
(* whichever of them crash: a finding waits for a human before anything    *)
(* works on it, only dispatched tasks are worked on, only finished work is *)
(* put up for review, only reviewed work is approved, and a verdict stays. *)
(* The task table, the snapshots and the processes are absent here.        *)
(***************************************************************************)
CONSTANTS
  Requested,    \* tasks that users ask for
  Discovered    \* findings that need a human's release

TaskIds == Requested \cup Discovered

VARIABLES
  life,         \* the status of each task
  released,     \* findings a human released for work
  worked,       \* tasks that work was finished for
  approved      \* tasks whose work a human approved

vars == <<life, released, worked, approved>>

Open == {"Pending", "Dispatched", "PendingReview", "PendingProposal"}

Init ==
  /\ life = [t \in TaskIds |-> "Absent"]
  /\ released = {}
  /\ worked = {}
  /\ approved = {}

Move(t, from, to) == life[t] = from /\ life' = [life EXCEPT ![t] = to]

Request(t) ==
  /\ t \in Requested
  /\ Move(t, "Absent", "Pending")
  /\ UNCHANGED <<released, worked, approved>>

Propose(t) ==
  /\ t \in Discovered
  /\ Move(t, "Absent", "PendingProposal")
  /\ UNCHANGED <<released, worked, approved>>

Release(t) ==
  /\ Move(t, "PendingProposal", "Pending")
  /\ released' = released \cup {t}
  /\ UNCHANGED <<worked, approved>>

Dispatch(t) ==
  /\ Move(t, "Pending", "Dispatched")
  /\ UNCHANGED <<released, worked, approved>>

\* Work is finished: never for a finding that was not released, nor for a
\* task that was not dispatched; a verdict may have come in the meantime.
Work(t) ==
  /\ t \in Requested \cup released
  /\ life[t] \in {"Dispatched", "PendingReview", "Processed", "Failed"}
  /\ worked' = worked \cup {t}
  /\ UNCHANGED <<life, released, approved>>

Submit(t) ==
  /\ t \in worked
  /\ Move(t, "Dispatched", "PendingReview")
  /\ UNCHANGED <<released, worked, approved>>

Approve(t) ==
  /\ Move(t, "PendingReview", "Processed")
  /\ approved' = approved \cup {t}
  /\ UNCHANGED <<released, worked>>

Fail(t) ==
  /\ life[t] \in Open
  /\ life' = [life EXCEPT ![t] = "Failed"]
  /\ UNCHANGED <<released, worked, approved>>

Next ==
  \E t \in TaskIds :
    \/ Request(t) \/ Propose(t) \/ Release(t) \/ Dispatch(t)
    \/ Work(t) \/ Submit(t) \/ Approve(t) \/ Fail(t)

Spec == Init /\ [][Next]_vars

=============================================================================
