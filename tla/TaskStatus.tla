----------------------------- MODULE TaskStatus -----------------------------
(***************************************************************************)
(* The status lifecycle of a Stellaris task: dysonsphere's TaskStatus and  *)
(* the rule TaskMessage::transition_to applies to a status change.         *)
(***************************************************************************)

Status == {"Pending", "Dispatched", "PendingReview", "Processed", "Failed",
           "PendingProposal"}

IsTerminal(status) == status \in {"Processed", "Failed"}

\* TaskStatus::can_transition_to as a relation.
CanTransitionTo ==
  { <<"Pending", "Dispatched">>,       <<"Pending", "Failed">>,
    <<"Pending", "PendingProposal">>,  <<"Dispatched", "PendingReview">>,
    <<"Dispatched", "Failed">>,        <<"PendingReview", "Processed">>,
    <<"PendingReview", "Failed">>,     <<"PendingProposal", "Pending">>,
    <<"PendingProposal", "Failed">> }

\* TaskMessage::transition_to succeeds: a same-status call is an idempotent Ok.
TransitionAllowed(from, next) == from = next \/ <<from, next>> \in CanTransitionTo

=============================================================================
