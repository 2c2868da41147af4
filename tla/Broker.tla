------------------------------- MODULE Broker -------------------------------
(***************************************************************************)
(* The RabbitMQ side of Stellaris: TON618's reserved dispatcher, which     *)
(* reads pending tasks from its file and publishes each to the queue named *)
(* after a worker; dysonsphere's client; and Laniakea in RabbitMQ mode.    *)
(*                                                                         *)
(* The broker itself is external: a message for a queue nobody declared is *)
(* dropped, what a consumer has not acknowledged is queued again when the  *)
(* consumer is gone, and queues that are not durable end with the broker.  *)
(***************************************************************************)
EXTENDS SequencesExt, TLC

CONSTANTS
  Messages,     \* tasks
  Workers,      \* instance names, which are also names of queues
  Serves,       \* for each worker the tasks whose type it registers for
  Undecodable,  \* messages of another publisher that are no TaskMessage
  Capacity,     \* of the channel between client and worker loop
  MaxFaults     \* bound on deaths, lost connections and broker restarts

ASSUME BrokerAssumption ==
  /\ IsFiniteSet(Messages) /\ Undecodable \subseteq Messages
  /\ Capacity \in Nat /\ MaxFaults \in Nat

VARIABLES
  registered,   \* worker_queues: worker -> status
  batch,        \* the tasks dispatch_all still has to dispatch
  sent,         \* task -> unsent, routed, dropped (history)
  queues,       \* declared queues: name -> messages
  consumer,     \* worker -> down, up, or cut (its connection is lost)
  unacked,      \* worker -> messages delivered to it and not acknowledged
  inbox,        \* worker -> the channel
  working,      \* worker -> [task, done] at most one
  finished,     \* messages whose handler has ended (history)
  faults

brokerVars == <<registered, batch, sent, queues, consumer, unacked, inbox, working,
                finished, faults>>
workerVars == <<consumer, unacked, inbox, working, finished>>

\* Only Active matters to a dispatch.
WorkerStatus == {"Active", "Busy", "Inactive"}

BrokerInit ==
  /\ registered = <<>> /\ batch = <<>>
  /\ sent = [t \in Messages |-> "unsent"]
  /\ queues = <<>>
  /\ consumer = [w \in Workers |-> "down"] /\ unacked = [w \in Workers |-> {}]
  /\ inbox = [w \in Workers |-> <<>>] /\ working = [w \in Workers |-> <<>>]
  /\ finished = {} /\ faults = 0

Fault == faults < MaxFaults /\ faults' = faults + 1

-----------------------------------------------------------------------------
(* The dispatcher. *)

\* The tasks that fetch_pending found Pending are handed to dispatch_all; once,
\* a bound.
fetch_pending(pending) ==
  /\ batch = <<>> /\ \A t \in Messages \ Undecodable : sent[t] = "unsent"
  /\ pending # {} /\ batch' = SetToSeq(pending)
  /\ UNCHANGED <<registered, sent, queues, workerVars, faults>>

set_worker(w, status) ==
  /\ registered' = (w :> status) @@ registered
  /\ UNCHANGED <<batch, sent, queues, workerVars, faults>>

register_worker(w) == w \notin DOMAIN registered /\ set_worker(w, "Active")

set_worker_status(w, status) ==
  w \in DOMAIN registered /\ registered[w] # status /\ set_worker(w, status)

unregister_worker(w) ==
  /\ w \in DOMAIN registered
  /\ registered' = [x \in DOMAIN registered \ {w} |-> registered[x]]
  /\ UNCHANGED <<batch, sent, queues, workerVars, faults>>

\* The active workers for the task's type, or else all active ones; the order
\* of the round robin is that of a hash map, so it may be any of them.
select_target_queue(t) ==
  LET active == {w \in DOMAIN registered : registered[w] = "Active"}
      fit == {w \in active : t \in Serves[w]}
  IN IF fit # {} THEN fit ELSE active

\* publish: without confirms, an unroutable message is dropped in silence.
publish(t, queue) ==
  IF queue \in DOMAIN queues
  THEN /\ queues' = [queues EXCEPT ![queue] = Append(@, t)]
       /\ sent' = [sent EXCEPT ![t] = "routed"]
  ELSE UNCHANGED queues /\ sent' = [sent EXCEPT ![t] = "dropped"]

\* dispatch_all: one task after the other; an error leaves the rest.
dispatch ==
  /\ batch # <<>>
  /\ \/ \E w \in select_target_queue(Head(batch)) :
          publish(Head(batch), w) /\ batch' = Tail(batch)
     \/ select_target_queue(Head(batch)) = {} /\ batch' = <<>> /\ UNCHANGED <<queues, sent>>
  /\ UNCHANGED <<registered, workerVars, faults>>

\* Somebody else publishes what is no task.
OthersPublish(m, queue) ==
  /\ m \in Undecodable /\ sent[m] = "unsent"
  /\ publish(m, queue)
  /\ UNCHANGED <<registered, batch, workerVars, faults>>

-----------------------------------------------------------------------------
(* The worker. *)

\* subscribe: the queue is declared and consumed.
subscribe(w) ==
  /\ consumer[w] = "down"
  /\ consumer' = [consumer EXCEPT ![w] = "up"]
  /\ queues' = [q \in DOMAIN queues \cup {w} |->
                  IF q \in DOMAIN queues THEN queues[q] ELSE <<>>]
  /\ UNCHANGED <<registered, batch, sent, unacked, inbox, working, finished, faults>>

\* A delivery; what cannot be decoded is neither passed on nor acknowledged.
Deliver(w) ==
  /\ consumer[w] = "up" /\ queues[w] # <<>> /\ Len(inbox[w]) < Capacity
  /\ LET m == Head(queues[w])
     IN /\ unacked' = [unacked EXCEPT ![w] = @ \cup {m}]
        /\ inbox' = IF m \in Undecodable THEN inbox ELSE [inbox EXCEPT ![w] = Append(@, m)]
  /\ queues' = [queues EXCEPT ![w] = Tail(@)]
  /\ UNCHANGED <<registered, batch, sent, consumer, working, finished, faults>>

Takes(w) ==
  /\ consumer[w] # "down" /\ inbox[w] # <<>> /\ working[w] = <<>>
  /\ working' = [working EXCEPT ![w] = <<Head(inbox[w])>>]
  /\ inbox' = [inbox EXCEPT ![w] = Tail(@)]

\* Mutant: the message is acknowledged when it is taken.
TakeAndAck(w) ==
  /\ Takes(w)
  /\ unacked' = [unacked EXCEPT ![w] = @ \ {Head(inbox[w])}]
  /\ UNCHANGED <<registered, batch, sent, queues, consumer, finished, faults>>

\* run_rabbit_loop takes the next message of the channel ...
Take(w) ==
  /\ Takes(w)
  /\ UNCHANGED <<registered, batch, sent, queues, consumer, unacked, finished, faults>>

\* ... whose handler ends, well or not ...
HandlerEnds(w) ==
  /\ working[w] # <<>> /\ Head(working[w]) \notin finished
  /\ finished' = finished \cup {Head(working[w])}
  /\ UNCHANGED <<registered, batch, sent, queues, consumer, unacked, inbox, working, faults>>

\* ... and the message is acked, or nacked without requeue: gone either way.
\* An ack over a lost connection fails and is logged.
AckOrNack(w) ==
  /\ working[w] # <<>> /\ Head(working[w]) \in finished
  /\ unacked' = [unacked EXCEPT ![w] = @ \ {Head(working[w])}]
  /\ working' = [working EXCEPT ![w] = <<>>]
  /\ UNCHANGED <<registered, batch, sent, queues, consumer, inbox, finished, faults>>

\* What w had not acknowledged is at the head of its queue again.
Requeued(w) ==
  /\ queues' = IF w \in DOMAIN queues
               THEN [queues EXCEPT ![w] = SetToSeq(unacked[w]) \o @] ELSE queues
  /\ unacked' = [unacked EXCEPT ![w] = {}]

\* The connection is lost: the subscription ends, the loop drains the channel.
ConnectionLost(w) ==
  /\ consumer[w] = "up" /\ Fault
  /\ consumer' = [consumer EXCEPT ![w] = "cut"]
  /\ Requeued(w)
  /\ UNCHANGED <<registered, batch, sent, inbox, working, finished>>

Stopped(w) ==
  /\ consumer' = [consumer EXCEPT ![w] = "down"]
  /\ inbox' = [inbox EXCEPT ![w] = <<>>]
  /\ working' = [working EXCEPT ![w] = <<>>]

\* The channel is drained: run_rabbit_loop returns and the process ends.
LoopEnds(w) ==
  /\ consumer[w] = "cut" /\ inbox[w] = <<>> /\ working[w] = <<>>
  /\ Stopped(w)
  /\ UNCHANGED <<registered, batch, sent, queues, unacked, finished, faults>>

WorkerDies(w) ==
  /\ consumer[w] # "down" /\ Fault
  /\ Requeued(w) /\ Stopped(w)
  /\ UNCHANGED <<registered, batch, sent, finished>>

\* No queue is durable.
BrokerRestarts ==
  /\ Fault /\ queues # <<>>
  /\ queues' = <<>>
  /\ consumer' = [w \in Workers |-> IF consumer[w] = "up" THEN "cut" ELSE consumer[w]]
  /\ unacked' = [w \in Workers |-> {}]
  /\ sent' = [t \in Messages |-> IF sent[t] = "routed" THEN "dropped" ELSE sent[t]]
  /\ UNCHANGED <<registered, batch, inbox, working, finished>>

WorkerStep(w) ==
  \/ subscribe(w) \/ Deliver(w) \/ Take(w) \/ HandlerEnds(w) \/ AckOrNack(w)
  \/ ConnectionLost(w) \/ LoopEnds(w) \/ WorkerDies(w)

BrokerNext ==
  \/ \E pending \in SUBSET (Messages \ Undecodable) : fetch_pending(pending)
  \/ dispatch \/ BrokerRestarts
  \/ \E w \in Workers :
       \/ register_worker(w) \/ unregister_worker(w) \/ WorkerStep(w)
       \/ \E s \in WorkerStatus : set_worker_status(w, s)
       \/ \E m \in Undecodable : OthersPublish(m, w)

\* The broker side alone.
BrokerSpec == BrokerInit /\ [][BrokerNext]_brokerVars

-----------------------------------------------------------------------------

(* A task that reached a queue is kept until its handler has ended: it is in a
   queue, or held for a worker that has not acknowledged it, whatever worker
   or connection is lost (rabbit_mq.rs 49-84, worker.rs 77-99). *)
DeliveredOrKept ==
  \A t \in Messages : sent[t] = "routed" =>
    \/ t \in finished
    \/ \E w \in DOMAIN queues : t \in ToSet(queues[w])
    \/ \E w \in Workers : consumer[w] = "up" /\ t \in unacked[w]

\* What the queues, the channels and the deliveries hold.
BrokerTyped ==
  /\ batch \in Seq(Messages)
  /\ sent \in [Messages -> {"unsent", "routed", "dropped"}]
  /\ DOMAIN queues \subseteq Workers /\ queues \in [DOMAIN queues -> Seq(Messages)]
  /\ consumer \in [Workers -> {"down", "up", "cut"}]
  /\ unacked \in [Workers -> SUBSET Messages]
  /\ inbox \in [Workers -> Seq(Messages)] /\ working \in [Workers -> Seq(Messages)]
  /\ finished \subseteq Messages /\ faults \in 0 .. MaxFaults

\* A consumer has its queue, and only a consumer holds deliveries: without
\* the first, what a lost consumer held would have no queue to return to.
ConsumersHaveQueues ==
  \A w \in Workers :
    /\ consumer[w] = "up" => w \in DOMAIN queues
    /\ consumer[w] # "up" => unacked[w] = {}
    /\ consumer[w] = "down" => inbox[w] = <<>> /\ working[w] = <<>>
    /\ Len(inbox[w]) <= Capacity /\ Len(working[w]) <= 1

(* A routed task is kept until its handler ends, and every consumer has the
   queue its deliveries return to: the inductive form of DeliveredOrKept
   (rabbit_mq.rs 49-84, worker.rs 77-99). *)
BrokerInv == BrokerTyped /\ ConsumersHaveQueues /\ DeliveredOrKept

=============================================================================
