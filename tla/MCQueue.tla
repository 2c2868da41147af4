------------------------------ MODULE MCQueue ------------------------------
(***************************************************************************)
(* The reserved parts of TON618 and Laniakea's RabbitMQ mode on a small    *)
(* instance.  Nothing wires scheduler and dispatcher together, so that a    *)
(* behaviour is about the one or the other.                                *)
(***************************************************************************)
EXTENDS Scheduler, Broker

CONSTANTS often, seldom, t1, t2, bad, w1, w2

MCInterval == (often :> 1) @@ (seldom :> 3)
MCServes == (w1 :> {t1}) @@ (w2 :> {})

VARIABLE part     \* which of the two a behaviour is about

vars == <<part, schedulerVars, brokerVars>>

Init == SchedulerInit /\ BrokerInit /\ part \in {"scheduler", "broker"}

Next ==
  /\ UNCHANGED part
  /\ \/ part = "scheduler" /\ SchedulerNext /\ UNCHANGED brokerVars
     \/ part = "broker" /\ BrokerNext /\ UNCHANGED schedulerVars

Spec ==
  /\ Init /\ [][Next]_vars
  /\ WF_vars(part = "scheduler" /\ RunnerStep /\ UNCHANGED <<part, brokerVars>>)
  /\ WF_vars(part = "scheduler" /\ Tick /\ UNCHANGED <<part, brokerVars>>)
=============================================================================
