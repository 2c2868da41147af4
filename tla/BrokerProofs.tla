--------------------------- MODULE BrokerProofs ---------------------------
(***************************************************************************)
(* Proofs that a task that reached a queue is kept until its handler has   *)
(* ended, whatever worker, connection or delivery is lost, for any number  *)
(* of tasks, workers and faults.                                           *)
(*                                                                         *)
(* A task is Kept when its handler has ended, a queue has it, or a         *)
(* consumer holds it.  A step moves it from one of these to the next:      *)
(* DeliveredOrKept is inductive together with the fact that every consumer *)
(* has its queue, which is where a lost consumer's deliveries return to.   *)
(***************************************************************************)
EXTENDS Broker, FiniteSetTheorems, SequenceTheorems, TLAPS

\* What DeliveredOrKept says of a routed task.
Kept(t) ==
  \/ t \in finished
  \/ \E w \in DOMAIN queues : t \in ToSet(queues[w])
  \/ \E w \in Workers : consumer[w] = "up" /\ t \in unacked[w]

-----------------------------------------------------------------------------
(* Sequences and the sets of their elements. *)

\* A finite set is listed by SetToSeq: nothing is left out, nothing added.
LEMMA Listed ==
  ASSUME NEW S, IsFiniteSet(S)
  PROVE  SetToSeq(S) \in Seq(S) /\ ToSet(SetToSeq(S)) = S
<1> DEFINE n == Cardinality(S)
<1> DEFINE f == SetToSeq(S)
<1>1. n \in Nat /\ ExistsBijection(1..n, S)
  BY FS_CardinalityType
<1>2. PICK g : g \in Bijection(1..n, S)
  BY <1>1, Zenon DEF ExistsBijection
<1>3. g \in [1..n -> S] /\ IsInjective(g)
  BY <1>2, Zenon DEF Bijection, Injection
<1>4. f \in [1..n -> S] /\ IsInjective(f)
  BY <1>3, Zenon DEF SetToSeq
<1>5. f \in Injection(1..n, S)
  BY <1>4, Zenon DEF Injection
<1>6. Cardinality(1..n) = n
  <2> HIDE DEF n
  <2> QED BY <1>1, FS_Interval
<1>7. f \in Surjection(1..n, S)
  BY <1>5, <1>6, FS_Injection, Zenon
<1>8. \A s \in S : \E i \in 1..n : f[i] = s
  BY <1>7, Zenon DEF Surjection
<1> HIDE DEF n, f
<1>9. f \in Seq(S) /\ DOMAIN f = 1..n
  BY <1>1, <1>4
<1>10. ToSet(f) = S
  BY <1>4, <1>8, <1>9 DEF ToSet
<1> QED BY <1>9, <1>10 DEF f

\* An appended element is there with the others.
LEMMA AppendedSet ==
  ASSUME NEW S, NEW s \in Seq(S), NEW x \in S
  PROVE  Append(s, x) \in Seq(S) /\ ToSet(Append(s, x)) = ToSet(s) \cup {x}
BY AppendProperties DEF ToSet

\* A sequence has its head and its tail.
LEMMA HeadAndTail ==
  ASSUME NEW S, NEW s \in Seq(S), s # <<>>
  PROVE  /\ Head(s) \in S /\ Tail(s) \in Seq(S)
         /\ ToSet(s) = ToSet(Tail(s)) \cup {Head(s)}
         /\ Len(Tail(s)) = Len(s) - 1
<1>1. Len(s) \in Nat \ {0} /\ Head(s) = s[1] /\ Head(s) \in S /\ DOMAIN s = 1..Len(s)
  BY EmptySeq
<1>2. /\ Tail(s) \in Seq(S) /\ Len(Tail(s)) = Len(s) - 1
      /\ DOMAIN Tail(s) = 1..(Len(s) - 1)
      /\ \A i \in 1..(Len(s) - 1) : Tail(s)[i] = s[i + 1]
  BY <1>1
<1>3. ToSet(s) \subseteq ToSet(Tail(s)) \cup {Head(s)}
  <2> SUFFICES ASSUME NEW i \in 1..Len(s) PROVE s[i] \in ToSet(Tail(s)) \cup {Head(s)}
    BY <1>1 DEF ToSet
  <2>1. CASE i = 1
    BY <1>1, <2>1
  <2>2. CASE i # 1
    <3>1. i - 1 \in 1..(Len(s) - 1) /\ s[i] = Tail(s)[i - 1]
      BY <1>1, <1>2, <2>2
    <3> QED BY <1>2, <3>1 DEF ToSet
  <2> QED BY <2>1, <2>2
<1>4. ToSet(Tail(s)) \cup {Head(s)} \subseteq ToSet(s)
  <2>1. Head(s) \in ToSet(s)
    BY <1>1 DEF ToSet
  <2>2. \A i \in 1..(Len(s) - 1) : Tail(s)[i] \in ToSet(s)
    BY <1>1, <1>2 DEF ToSet
  <2> QED BY <1>2, <2>1, <2>2 DEF ToSet
<1> QED BY <1>1, <1>2, <1>3, <1>4

\* Two sequences, one after the other.
LEMMA JoinedSet ==
  ASSUME NEW S, NEW s \in Seq(S), NEW u \in Seq(S)
  PROVE  s \o u \in Seq(S) /\ ToSet(s \o u) = ToSet(s) \cup ToSet(u)
<1>1. /\ s \o u \in Seq(S) /\ Len(s \o u) = Len(s) + Len(u)
      /\ \A i \in 1..(Len(s) + Len(u)) :
           (s \o u)[i] = IF i <= Len(s) THEN s[i] ELSE u[i - Len(s)]
  BY ConcatProperties
<1>2. /\ Len(s) \in Nat /\ Len(u) \in Nat /\ DOMAIN s = 1..Len(s) /\ DOMAIN u = 1..Len(u)
      /\ DOMAIN (s \o u) = 1..(Len(s) + Len(u))
  BY <1>1, LenProperties
<1>3. ToSet(s \o u) \subseteq ToSet(s) \cup ToSet(u)
  <2> SUFFICES ASSUME NEW i \in 1..(Len(s) + Len(u))
               PROVE  (s \o u)[i] \in ToSet(s) \cup ToSet(u)
    BY <1>2 DEF ToSet
  <2>1. CASE i <= Len(s)
    BY <1>1, <1>2, <2>1 DEF ToSet
  <2>2. CASE i > Len(s)
    <3>1. i - Len(s) \in 1..Len(u) /\ (s \o u)[i] = u[i - Len(s)]
      BY <1>1, <1>2, <2>2
    <3> QED BY <1>2, <3>1 DEF ToSet
  <2> QED BY <1>2, <2>1, <2>2
<1>4. ToSet(s) \subseteq ToSet(s \o u)
  <2> SUFFICES ASSUME NEW i \in 1..Len(s) PROVE s[i] \in ToSet(s \o u)
    BY <1>2 DEF ToSet
  <2>1. i \in 1..(Len(s) + Len(u)) /\ (s \o u)[i] = s[i]
    BY <1>1, <1>2
  <2> QED BY <1>2, <2>1 DEF ToSet
<1>5. ToSet(u) \subseteq ToSet(s \o u)
  <2> SUFFICES ASSUME NEW i \in 1..Len(u) PROVE u[i] \in ToSet(s \o u)
    BY <1>2 DEF ToSet
  <2>1. i + Len(s) \in 1..(Len(s) + Len(u)) /\ (s \o u)[i + Len(s)] = u[i]
    BY <1>1, <1>2
  <2> QED BY <1>2, <2>1 DEF ToSet
<1> QED BY <1>1, <1>3, <1>4, <1>5

-----------------------------------------------------------------------------
(* The initial states, and the steps, each on its own. *)

LEMMA BrokerStarts ==
  ASSUME BrokerInit PROVE BrokerInv
<1>1. DOMAIN queues = {}
  BY DEF BrokerInit
<1>2. BrokerTyped
  BY <1>1, BrokerAssumption, EmptySeq DEF BrokerInit, BrokerTyped
<1>3. ConsumersHaveQueues
  BY BrokerAssumption DEF BrokerInit, ConsumersHaveQueues
<1>4. DeliveredOrKept
  BY DEF BrokerInit, DeliveredOrKept
<1> QED BY <1>2, <1>3, <1>4 DEF BrokerInv

\* The dispatcher's own steps leave queues and workers alone.
LEMMA RegistryKeeps ==
  ASSUME BrokerInv, UNCHANGED <<sent, queues, workerVars, faults>>, batch' \in Seq(Messages)
  PROVE  BrokerInv'
<1> USE DEF BrokerInv, workerVars
<1>1. BrokerTyped'
  BY DEF BrokerTyped
<1>2. ConsumersHaveQueues'
  BY DEF ConsumersHaveQueues
<1>3. DeliveredOrKept'
  BY DEF DeliveredOrKept
<1> QED BY <1>1, <1>2, <1>3

LEMMA FetchKeeps ==
  ASSUME BrokerInv, NEW pending \in SUBSET (Messages \ Undecodable), fetch_pending(pending)
  PROVE  BrokerInv'
<1>1. IsFiniteSet(pending)
  BY BrokerAssumption, FS_Subset
<1>2. SetToSeq(pending) \in Seq(Messages)
  <2>1. SetToSeq(pending) \in Seq(pending)
    BY <1>1, Listed
  <2> HIDE DEF SetToSeq
  <2> QED BY <2>1
<1>3. batch' \in Seq(Messages)
  BY <1>2 DEF fetch_pending
<1> QED BY <1>3, RegistryKeeps DEF fetch_pending

\* A published task is in its queue, or not routed.
LEMMA PublishKeeps ==
  ASSUME BrokerInv, NEW t \in Messages, NEW queue, publish(t, queue),
         batch' \in Seq(Messages), UNCHANGED <<workerVars, faults>>
  PROVE  BrokerInv'
<1> USE DEF workerVars
<1>1. BrokerTyped /\ ConsumersHaveQueues /\ DeliveredOrKept
  BY DEF BrokerInv
<1>2. /\ DOMAIN queues' = DOMAIN queues
      /\ \A q \in DOMAIN queues :
           queues'[q] \in Seq(Messages) /\ ToSet(queues[q]) \subseteq ToSet(queues'[q])
  <2>1. \A q \in DOMAIN queues : queues[q] \in Seq(Messages)
    BY <1>1 DEF BrokerTyped
  <2>2. CASE queue \in DOMAIN queues
    <3>1. /\ Append(queues[queue], t) \in Seq(Messages)
          /\ ToSet(queues[queue]) \subseteq ToSet(Append(queues[queue], t))
      BY <2>1, <2>2, AppendedSet
    <3> QED BY <2>1, <2>2, <3>1 DEF publish
  <2>3. CASE queue \notin DOMAIN queues
    BY <2>1, <2>3 DEF publish
  <2> QED BY <2>2, <2>3
<1>3. queues' \in [DOMAIN queues' -> Seq(Messages)]
  <2>1. queues' = [q \in DOMAIN queues' |-> queues'[q]]
    BY <1>1 DEF publish, BrokerTyped
  <2> QED BY <1>2, <2>1
<1>4. BrokerTyped'
  <2>1. sent' \in [Messages -> {"unsent", "routed", "dropped"}]
    BY <1>1 DEF publish, BrokerTyped
  <2> QED BY <1>1, <1>2, <1>3, <2>1 DEF BrokerTyped
<1>5. ConsumersHaveQueues'
  BY <1>1, <1>2 DEF ConsumersHaveQueues
<1>6. DeliveredOrKept'
  <2> SUFFICES ASSUME NEW u \in Messages, sent'[u] = "routed" PROVE Kept(u)'
    BY DEF DeliveredOrKept, Kept
  <2>1. CASE sent[u] = "routed"
    <3>1. Kept(u)
      BY <1>1, <2>1 DEF DeliveredOrKept, Kept
    <3> QED BY <1>2, <3>1 DEF Kept
  <2>2. CASE sent[u] # "routed"
    <3>1. u = t /\ queue \in DOMAIN queues /\ queues'[queue] = Append(queues[queue], t)
      BY <1>1, <2>2 DEF publish, BrokerTyped
    <3>2. queues[queue] \in Seq(Messages)
      BY <1>1, <3>1 DEF BrokerTyped
    <3>3. u \in ToSet(queues'[queue])
      BY <3>1, <3>2, AppendedSet
    <3> QED BY <1>2, <3>1, <3>3 DEF Kept
  <2> QED BY <2>1, <2>2
<1> QED BY <1>4, <1>5, <1>6 DEF BrokerInv

LEMMA DispatchKeeps ==
  ASSUME BrokerInv, dispatch PROVE BrokerInv'
<1>1. batch \in Seq(Messages) /\ batch # <<>>
  BY DEF BrokerInv, BrokerTyped, dispatch
<1>2. Head(batch) \in Messages /\ Tail(batch) \in Seq(Messages)
  BY <1>1, HeadAndTail
<1>3. CASE \E w \in select_target_queue(Head(batch)) :
             publish(Head(batch), w) /\ batch' = Tail(batch)
  BY <1>2, <1>3, PublishKeeps DEF dispatch
<1>4. CASE batch' = <<>> /\ UNCHANGED <<queues, sent>>
  BY <1>4, RegistryKeeps, EmptySeq DEF dispatch
<1> QED BY <1>3, <1>4 DEF dispatch

LEMMA SubscribeKeeps ==
  ASSUME BrokerInv, NEW w \in Workers, subscribe(w) PROVE BrokerInv'
<1>1. BrokerTyped /\ ConsumersHaveQueues /\ DeliveredOrKept
  BY DEF BrokerInv
<1>2. /\ DOMAIN queues' = DOMAIN queues \cup {w}
      /\ queues' = [q \in DOMAIN queues' |-> queues'[q]]
      /\ \A q \in DOMAIN queues : queues'[q] = queues[q]
      /\ w \notin DOMAIN queues => queues'[w] = <<>>
  BY DEF subscribe
<1>3. BrokerTyped'
  <2>1. queues' \in [DOMAIN queues' -> Seq(Messages)]
    <3>1. \A q \in DOMAIN queues' : queues'[q] \in Seq(Messages)
      BY <1>1, <1>2, EmptySeq DEF BrokerTyped
    <3> QED BY <1>2, <3>1
  <2> QED BY <1>1, <1>2, <2>1 DEF BrokerTyped, subscribe
<1>4. ConsumersHaveQueues'
  BY <1>1, <1>2 DEF ConsumersHaveQueues, BrokerTyped, subscribe
<1>5. DeliveredOrKept'
  BY <1>1, <1>2 DEF DeliveredOrKept, BrokerTyped, subscribe
<1> QED BY <1>3, <1>4, <1>5 DEF BrokerInv

LEMMA DeliverKeeps ==
  ASSUME BrokerInv, NEW w \in Workers, Deliver(w) PROVE BrokerInv'
<1> DEFINE m == Head(queues[w])
<1>1. BrokerTyped /\ ConsumersHaveQueues /\ DeliveredOrKept
  BY DEF BrokerInv
<1>2. consumer[w] = "up" /\ w \in DOMAIN queues /\ queues[w] \in Seq(Messages)
  BY <1>1 DEF Deliver, ConsumersHaveQueues, BrokerTyped
<1>3. /\ m \in Messages /\ Tail(queues[w]) \in Seq(Messages)
      /\ ToSet(queues[w]) = ToSet(Tail(queues[w])) \cup {m}
  BY <1>2, HeadAndTail DEF Deliver
<1>4. /\ queues' = [queues EXCEPT ![w] = Tail(@)] /\ DOMAIN queues' = DOMAIN queues
      /\ unacked' = [unacked EXCEPT ![w] = @ \cup {m}]
      /\ UNCHANGED <<batch, sent, consumer, working, finished, faults>>
  BY DEF Deliver
<1> HIDE DEF m
<1>5. inbox[w] \in Seq(Messages) /\ Len(inbox[w]) \in Nat /\ Len(inbox[w]) < Capacity
  BY <1>1 DEF Deliver, BrokerTyped
<1>6. /\ Append(inbox[w], m) \in Seq(Messages)
      /\ Len(Append(inbox[w], m)) = Len(inbox[w]) + 1
  BY <1>3, <1>5, AppendProperties
<1>7. inbox' = inbox \/ inbox' = [inbox EXCEPT ![w] = Append(@, m)]
  BY DEF Deliver, m
<1>8. BrokerTyped'
  <2>1. queues' \in [DOMAIN queues' -> Seq(Messages)]
    BY <1>1, <1>3, <1>4 DEF BrokerTyped
  <2>2. inbox' \in [Workers -> Seq(Messages)]
    BY <1>1, <1>6, <1>7 DEF BrokerTyped
  <2>3. unacked' \in [Workers -> SUBSET Messages]
    BY <1>1, <1>3, <1>4 DEF BrokerTyped
  <2> QED BY <1>1, <1>4, <2>1, <2>2, <2>3 DEF BrokerTyped
<1>9. ConsumersHaveQueues'
  <2> SUFFICES ASSUME NEW x \in Workers
               PROVE  /\ consumer[x] = "up" => x \in DOMAIN queues
                      /\ consumer[x] # "up" => unacked'[x] = {}
                      /\ consumer[x] = "down" => inbox'[x] = <<>> /\ working[x] = <<>>
                      /\ Len(inbox'[x]) <= Capacity /\ Len(working[x]) <= 1
    BY <1>4 DEF ConsumersHaveQueues
  <2>1. CASE x = w
    <3>1. Len(inbox'[w]) <= Capacity
      BY <1>1, <1>5, <1>6, <1>7, BrokerAssumption DEF BrokerTyped
    <3> QED BY <1>1, <1>2, <2>1, <3>1 DEF ConsumersHaveQueues
  <2>2. CASE x # w
    <3>1. inbox'[x] = inbox[x] /\ unacked'[x] = unacked[x]
      BY <1>1, <1>4, <1>7, <2>2 DEF BrokerTyped
    <3> QED BY <1>1, <3>1 DEF ConsumersHaveQueues
  <2> QED BY <2>1, <2>2
<1>10. DeliveredOrKept'
  <2> SUFFICES ASSUME NEW t \in Messages, Kept(t) PROVE Kept(t)'
    BY <1>1, <1>4 DEF DeliveredOrKept, Kept
  <2>1. \A x \in Workers : unacked[x] \subseteq unacked'[x]
    BY <1>1, <1>4 DEF BrokerTyped
  <2>2. ASSUME NEW q \in DOMAIN queues, t \in ToSet(queues[q]) PROVE Kept(t)'
    <3>1. CASE q # w
      <4>1. queues'[q] = queues[q]
        BY <1>4, <3>1
      <4> QED BY <1>4, <2>2, <4>1 DEF Kept
    <3>2. CASE q = w /\ t = m
      <4>1. t \in unacked'[w]
        BY <1>1, <1>4, <3>2 DEF BrokerTyped
      <4> QED BY <1>2, <1>4, <4>1 DEF Kept
    <3>3. CASE q = w /\ t # m
      <4>1. t \in ToSet(queues'[w])
        BY <1>2, <1>3, <1>4, <2>2, <3>3
      <4> QED BY <1>2, <1>4, <4>1 DEF Kept
    <3> QED BY <3>1, <3>2, <3>3
  <2> QED BY <1>4, <2>1, <2>2 DEF Kept
<1> QED BY <1>8, <1>9, <1>10 DEF BrokerInv

LEMMA TakeKeeps ==
  ASSUME BrokerInv, NEW w \in Workers, Take(w) PROVE BrokerInv'
<1>1. BrokerTyped /\ ConsumersHaveQueues /\ DeliveredOrKept
  BY DEF BrokerInv
<1>2. /\ consumer[w] # "down" /\ inbox[w] # <<>>
      /\ working' = [working EXCEPT ![w] = <<Head(inbox[w])>>]
      /\ inbox' = [inbox EXCEPT ![w] = Tail(@)]
      /\ UNCHANGED <<batch, sent, queues, consumer, unacked, finished, faults>>
  BY DEF Take, Takes
<1>3. inbox[w] \in Seq(Messages) /\ Len(inbox[w]) \in Nat /\ Len(inbox[w]) <= Capacity
  BY <1>1 DEF BrokerTyped, ConsumersHaveQueues
<1>4. /\ Head(inbox[w]) \in Messages /\ Tail(inbox[w]) \in Seq(Messages)
      /\ Len(Tail(inbox[w])) = Len(inbox[w]) - 1
  BY <1>2, <1>3, HeadAndTail
<1>5. <<Head(inbox[w])>> \in Seq(Messages) /\ Len(<<Head(inbox[w])>>) = 1
  BY <1>4
<1>6. BrokerTyped'
  <2>1. inbox' \in [Workers -> Seq(Messages)] /\ working' \in [Workers -> Seq(Messages)]
    BY <1>1, <1>2, <1>4, <1>5 DEF BrokerTyped
  <2> QED BY <1>1, <1>2, <2>1 DEF BrokerTyped
<1>7. ConsumersHaveQueues'
  <2> SUFFICES ASSUME NEW x \in Workers
               PROVE  /\ consumer[x] = "down" => inbox'[x] = <<>> /\ working'[x] = <<>>
                      /\ Len(inbox'[x]) <= Capacity /\ Len(working'[x]) <= 1
    BY <1>1, <1>2 DEF ConsumersHaveQueues
  <2>1. CASE x = w
    <3>1. inbox'[w] = Tail(inbox[w]) /\ working'[w] = <<Head(inbox[w])>>
      BY <1>1, <1>2 DEF BrokerTyped
    <3>2. Len(inbox'[w]) <= Capacity
      BY <1>3, <1>4, <3>1, BrokerAssumption
    <3>3. Len(working'[w]) <= 1
      BY <1>5, <3>1
    <3> QED BY <1>2, <2>1, <3>2, <3>3
  <2>2. CASE x # w
    BY <1>1, <1>2, <2>2 DEF BrokerTyped, ConsumersHaveQueues
  <2> QED BY <2>1, <2>2
<1>8. DeliveredOrKept'
  BY <1>1, <1>2 DEF DeliveredOrKept
<1> QED BY <1>6, <1>7, <1>8 DEF BrokerInv

LEMMA HandlerKeeps ==
  ASSUME BrokerInv, NEW w \in Workers, HandlerEnds(w) PROVE BrokerInv'
<1>1. BrokerTyped /\ ConsumersHaveQueues /\ DeliveredOrKept
  BY DEF BrokerInv
<1>2. Head(working[w]) \in Messages
  BY <1>1, HeadAndTail DEF BrokerTyped, HandlerEnds
<1>3. BrokerTyped'
  BY <1>1, <1>2 DEF BrokerTyped, HandlerEnds
<1>4. ConsumersHaveQueues'
  BY <1>1 DEF ConsumersHaveQueues, HandlerEnds
<1>5. DeliveredOrKept'
  BY <1>1 DEF DeliveredOrKept, HandlerEnds
<1> QED BY <1>3, <1>4, <1>5 DEF BrokerInv

\* Only what has been handled is given up.
LEMMA AckKeeps ==
  ASSUME BrokerInv, NEW w \in Workers, AckOrNack(w) PROVE BrokerInv'
<1>1. BrokerTyped /\ ConsumersHaveQueues /\ DeliveredOrKept
  BY DEF BrokerInv
<1>2. /\ Head(working[w]) \in finished
      /\ unacked' = [unacked EXCEPT ![w] = @ \ {Head(working[w])}]
      /\ working' = [working EXCEPT ![w] = <<>>]
      /\ UNCHANGED <<batch, sent, queues, consumer, inbox, finished, faults>>
  BY DEF AckOrNack
<1>3. BrokerTyped'
  BY <1>1, <1>2, EmptySeq DEF BrokerTyped
<1>4. ConsumersHaveQueues'
  BY <1>1, <1>2 DEF ConsumersHaveQueues, BrokerTyped
<1>5. DeliveredOrKept'
  <2> SUFFICES ASSUME NEW t \in Messages, Kept(t) PROVE Kept(t)'
    BY <1>1, <1>2 DEF DeliveredOrKept, Kept
  <2>1. \A x \in Workers : t \in unacked[x] /\ t \notin finished => t \in unacked'[x]
    BY <1>1, <1>2 DEF BrokerTyped
  <2> QED BY <1>2, <2>1 DEF Kept
<1> QED BY <1>3, <1>4, <1>5 DEF BrokerInv

\* What a lost worker held is in its queue again; other queues and deliveries
\* are left alone.
LEMMA RequeuedWell ==
  ASSUME BrokerInv, NEW w \in Workers, Requeued(w)
  PROVE  /\ DOMAIN queues' = DOMAIN queues
         /\ queues' \in [DOMAIN queues' -> Seq(Messages)]
         /\ \A q \in DOMAIN queues : ToSet(queues[q]) \subseteq ToSet(queues'[q])
         /\ consumer[w] = "up" => unacked[w] \subseteq ToSet(queues'[w])
         /\ unacked' \in [Workers -> SUBSET Messages] /\ unacked'[w] = {}
         /\ \A x \in Workers \ {w} : unacked'[x] = unacked[x]
<1> DEFINE back == SetToSeq(unacked[w])
<1>1. BrokerTyped /\ ConsumersHaveQueues
  BY DEF BrokerInv
<1>2. unacked[w] \subseteq Messages
  BY <1>1 DEF BrokerTyped
<1>3. back \in Seq(unacked[w]) /\ ToSet(back) = unacked[w]
  BY <1>2, BrokerAssumption, FS_Subset, Listed
<1>4. queues' = IF w \in DOMAIN queues THEN [queues EXCEPT ![w] = back \o @] ELSE queues
  BY DEF Requeued
<1> HIDE DEF back
<1>5. back \in Seq(Messages)
  BY <1>2, <1>3
<1>6. unacked' = [unacked EXCEPT ![w] = {}]
  BY DEF Requeued
<1>7. /\ unacked' \in [Workers -> SUBSET Messages] /\ unacked'[w] = {}
      /\ \A x \in Workers \ {w} : unacked'[x] = unacked[x]
  BY <1>1, <1>6 DEF BrokerTyped
<1>8. CASE w \in DOMAIN queues
  <2>1. queues[w] \in Seq(Messages)
    BY <1>1, <1>8 DEF BrokerTyped
  <2>2. /\ back \o queues[w] \in Seq(Messages)
        /\ ToSet(back \o queues[w]) = unacked[w] \cup ToSet(queues[w])
    BY <1>3, <1>5, <2>1, JoinedSet
  <2>3. queues' = [queues EXCEPT ![w] = back \o @]
    BY <1>4, <1>8
  <2>4. queues' \in [DOMAIN queues -> Seq(Messages)]
    BY <1>1, <2>2, <2>3 DEF BrokerTyped
  <2>5. queues'[w] = back \o queues[w] /\ \A q \in DOMAIN queues \ {w} : queues'[q] = queues[q]
    BY <1>8, <2>3
  <2> QED BY <1>7, <2>2, <2>3, <2>4, <2>5
<1>9. CASE w \notin DOMAIN queues
  <2>1. consumer[w] # "up"
    BY <1>1, <1>9 DEF ConsumersHaveQueues
  <2> QED BY <1>1, <1>4, <1>7, <1>9, <2>1 DEF BrokerTyped
<1> QED BY <1>8, <1>9

\* A worker that loses its deliveries gives them back.
LEMMA KeptWhenRequeued ==
  ASSUME BrokerInv, NEW w \in Workers, Requeued(w), NEW t, Kept(t),
         finished' = finished, \A x \in Workers \ {w} : consumer'[x] = consumer[x]
  PROVE  Kept(t)'
<1>1. /\ DOMAIN queues' = DOMAIN queues
      /\ \A q \in DOMAIN queues : ToSet(queues[q]) \subseteq ToSet(queues'[q])
      /\ consumer[w] = "up" => unacked[w] \subseteq ToSet(queues'[w])
      /\ \A x \in Workers \ {w} : unacked'[x] = unacked[x]
  BY RequeuedWell
<1>2. consumer[w] = "up" => w \in DOMAIN queues
  BY DEF BrokerInv, ConsumersHaveQueues
<1>3. ASSUME NEW x \in Workers, consumer[x] = "up", t \in unacked[x] PROVE Kept(t)'
  <2>1. CASE x = w
    BY <1>1, <1>2, <1>3, <2>1 DEF Kept
  <2>2. CASE x # w
    BY <1>1, <1>3, <2>2 DEF Kept
  <2> QED BY <2>1, <2>2
<1> QED BY <1>1, <1>3 DEF Kept

LEMMA LostKeeps ==
  ASSUME BrokerInv, NEW w \in Workers, ConnectionLost(w) PROVE BrokerInv'
<1>1. BrokerTyped /\ ConsumersHaveQueues /\ DeliveredOrKept
  BY DEF BrokerInv
<1>2. /\ consumer' = [consumer EXCEPT ![w] = "cut"] /\ Requeued(w)
      /\ faults < MaxFaults /\ faults' = faults + 1
      /\ UNCHANGED <<batch, sent, inbox, working, finished>>
  BY DEF ConnectionLost, Fault
<1>3. /\ DOMAIN queues' = DOMAIN queues
      /\ queues' \in [DOMAIN queues' -> Seq(Messages)]
      /\ unacked' \in [Workers -> SUBSET Messages] /\ unacked'[w] = {}
      /\ \A x \in Workers \ {w} : unacked'[x] = unacked[x]
  BY <1>2, RequeuedWell
<1>4. BrokerTyped'
  <2>1. faults' \in 0 .. MaxFaults
    BY <1>1, <1>2, BrokerAssumption DEF BrokerTyped
  <2>2. consumer' \in [Workers -> {"down", "up", "cut"}]
    BY <1>1, <1>2 DEF BrokerTyped
  <2> QED BY <1>1, <1>2, <1>3, <2>1, <2>2 DEF BrokerTyped
<1>5. consumer'[w] = "cut" /\ \A x \in Workers \ {w} : consumer'[x] = consumer[x]
  BY <1>1, <1>2 DEF BrokerTyped
<1>6. ConsumersHaveQueues'
  BY <1>1, <1>2, <1>3, <1>5 DEF ConsumersHaveQueues
<1>7. DeliveredOrKept'
  <2>1. \A t \in Messages : sent[t] = "routed" => Kept(t)
    BY <1>1 DEF DeliveredOrKept, Kept
  <2>2. \A t \in Messages : sent[t] = "routed" => Kept(t)'
    BY <1>2, <1>5, <2>1, KeptWhenRequeued
  <2> QED BY <1>2, <2>2 DEF DeliveredOrKept, Kept
<1> QED BY <1>4, <1>6, <1>7 DEF BrokerInv

\* A worker that stops holds nothing.
LEMMA StoppedWell ==
  ASSUME BrokerInv, NEW w \in Workers, Stopped(w)
  PROVE  /\ consumer' \in [Workers -> {"down", "up", "cut"}]
         /\ inbox' \in [Workers -> Seq(Messages)] /\ working' \in [Workers -> Seq(Messages)]
         /\ consumer'[w] = "down" /\ inbox'[w] = <<>> /\ working'[w] = <<>>
         /\ \A x \in Workers \ {w} :
              consumer'[x] = consumer[x] /\ inbox'[x] = inbox[x] /\ working'[x] = working[x]
BY EmptySeq DEF Stopped, BrokerInv, BrokerTyped

LEMMA LoopKeeps ==
  ASSUME BrokerInv, NEW w \in Workers, LoopEnds(w) PROVE BrokerInv'
<1>1. BrokerTyped /\ ConsumersHaveQueues /\ DeliveredOrKept
  BY DEF BrokerInv
<1>2. /\ consumer[w] = "cut" /\ Stopped(w)
      /\ UNCHANGED <<batch, sent, queues, unacked, finished, faults>>
  BY DEF LoopEnds
<1>3. /\ consumer' \in [Workers -> {"down", "up", "cut"}]
      /\ inbox' \in [Workers -> Seq(Messages)] /\ working' \in [Workers -> Seq(Messages)]
      /\ consumer'[w] = "down" /\ inbox'[w] = <<>> /\ working'[w] = <<>>
      /\ \A x \in Workers \ {w} :
           consumer'[x] = consumer[x] /\ inbox'[x] = inbox[x] /\ working'[x] = working[x]
  BY <1>2, StoppedWell
<1>4. BrokerTyped'
  BY <1>1, <1>2, <1>3 DEF BrokerTyped
<1>5. ConsumersHaveQueues'
  <2>1. Len(inbox'[w]) <= Capacity /\ Len(working'[w]) <= 1
    BY <1>3, BrokerAssumption
  <2>2. unacked'[w] = {}
    BY <1>1, <1>2 DEF ConsumersHaveQueues

  <2>3. \A x \in Workers \ {w} :
          /\ consumer'[x] = consumer[x] /\ unacked'[x] = unacked[x]
          /\ inbox'[x] = inbox[x] /\ working'[x] = working[x]
    BY <1>2, <1>3
  <2> QED BY <1>1, <1>2, <1>3, <2>1, <2>2, <2>3 DEF ConsumersHaveQueues
<1>6. DeliveredOrKept'
  <2>1. \A x \in Workers : consumer[x] = "up" => consumer'[x] = "up"
    BY <1>2, <1>3
  <2> QED BY <1>1, <1>2, <2>1 DEF DeliveredOrKept
<1> QED BY <1>4, <1>5, <1>6 DEF BrokerInv

LEMMA DeathKeeps ==
  ASSUME BrokerInv, NEW w \in Workers, WorkerDies(w) PROVE BrokerInv'
<1>1. BrokerTyped /\ ConsumersHaveQueues /\ DeliveredOrKept
  BY DEF BrokerInv
<1>2. /\ Requeued(w) /\ Stopped(w)
      /\ faults < MaxFaults /\ faults' = faults + 1
      /\ UNCHANGED <<batch, sent, finished>>
  BY DEF WorkerDies, Fault
<1>3. /\ DOMAIN queues' = DOMAIN queues
      /\ queues' \in [DOMAIN queues' -> Seq(Messages)]
      /\ unacked' \in [Workers -> SUBSET Messages] /\ unacked'[w] = {}
      /\ \A x \in Workers \ {w} : unacked'[x] = unacked[x]
  BY <1>2, RequeuedWell
<1>4. /\ consumer' \in [Workers -> {"down", "up", "cut"}]
      /\ inbox' \in [Workers -> Seq(Messages)] /\ working' \in [Workers -> Seq(Messages)]
      /\ consumer'[w] = "down" /\ inbox'[w] = <<>> /\ working'[w] = <<>>
      /\ \A x \in Workers \ {w} :
           consumer'[x] = consumer[x] /\ inbox'[x] = inbox[x] /\ working'[x] = working[x]
  BY <1>2, StoppedWell
<1>5. BrokerTyped'
  <2>1. faults' \in 0 .. MaxFaults
    BY <1>1, <1>2, BrokerAssumption DEF BrokerTyped
  <2> QED BY <1>1, <1>2, <1>3, <1>4, <2>1 DEF BrokerTyped
<1>6. ConsumersHaveQueues'
  <2>1. Len(inbox'[w]) <= Capacity /\ Len(working'[w]) <= 1
    BY <1>4, BrokerAssumption
  <2> QED BY <1>1, <1>3, <1>4, <2>1 DEF ConsumersHaveQueues
<1>7. DeliveredOrKept'
  <2>1. \A t \in Messages : sent[t] = "routed" => Kept(t)
    BY <1>1 DEF DeliveredOrKept, Kept
  <2>2. \A t \in Messages : sent[t] = "routed" => Kept(t)'
    BY <1>2, <1>4, <2>1, KeptWhenRequeued
  <2> QED BY <1>2, <2>2 DEF DeliveredOrKept, Kept
<1> QED BY <1>5, <1>6, <1>7 DEF BrokerInv

\* The broker forgets everything, and nothing counts as routed any more.
LEMMA RestartKeeps ==
  ASSUME BrokerInv, BrokerRestarts PROVE BrokerInv'
<1>1. BrokerTyped /\ ConsumersHaveQueues
  BY DEF BrokerInv
<1>2. /\ faults < MaxFaults /\ faults' = faults + 1 /\ queues' = <<>>
      /\ consumer' = [w \in Workers |-> IF consumer[w] = "up" THEN "cut" ELSE consumer[w]]
      /\ unacked' = [w \in Workers |-> {}]
      /\ sent' = [t \in Messages |-> IF sent[t] = "routed" THEN "dropped" ELSE sent[t]]
      /\ UNCHANGED <<batch, inbox, working, finished>>
  BY DEF BrokerRestarts, Fault
<1>3. BrokerTyped'
  <2>1. faults' \in 0 .. MaxFaults
    BY <1>1, <1>2, BrokerAssumption DEF BrokerTyped
  <2>2. DOMAIN queues' = {} /\ queues' \in [DOMAIN queues' -> Seq(Messages)]
    BY <1>2
  <2>3. /\ consumer' \in [Workers -> {"down", "up", "cut"}]
        /\ unacked' \in [Workers -> SUBSET Messages]
        /\ sent' \in [Messages -> {"unsent", "routed", "dropped"}]
    BY <1>1, <1>2 DEF BrokerTyped
  <2> QED BY <1>1, <1>2, <2>1, <2>2, <2>3 DEF BrokerTyped
<1>4. ConsumersHaveQueues'
  BY <1>1, <1>2 DEF ConsumersHaveQueues
<1>5. DeliveredOrKept'
  BY <1>2 DEF DeliveredOrKept
<1> QED BY <1>3, <1>4, <1>5 DEF BrokerInv

-----------------------------------------------------------------------------
(* The invariant, and what it says. *)

LEMMA BrokerStepKeeps ==
  ASSUME BrokerInv, [BrokerNext]_brokerVars PROVE BrokerInv'
<1>1. batch \in Seq(Messages)
  BY DEF BrokerInv, BrokerTyped
<1>2. CASE UNCHANGED brokerVars
  BY <1>1, <1>2, RegistryKeeps DEF brokerVars, workerVars
<1>3. CASE \E pending \in SUBSET (Messages \ Undecodable) : fetch_pending(pending)
  BY <1>3, FetchKeeps
<1>4. CASE dispatch
  BY <1>4, DispatchKeeps
<1>5. CASE BrokerRestarts
  BY <1>5, RestartKeeps
<1>6. ASSUME NEW w \in Workers,
             \/ register_worker(w) \/ unregister_worker(w)
             \/ \E s \in WorkerStatus : set_worker_status(w, s)
      PROVE  BrokerInv'
  BY <1>1, <1>6, RegistryKeeps
     DEF register_worker, unregister_worker, set_worker_status, set_worker
<1>7. ASSUME NEW w \in Workers, NEW m \in Undecodable, OthersPublish(m, w) PROVE BrokerInv'
  <2>1. m \in Messages
    BY BrokerAssumption
  <2> QED BY <1>1, <1>7, <2>1, PublishKeeps DEF OthersPublish
<1>8. ASSUME NEW w \in Workers, WorkerStep(w) PROVE BrokerInv'
  BY <1>8, SubscribeKeeps, DeliverKeeps, TakeKeeps, HandlerKeeps, AckKeeps, LostKeeps,
     LoopKeeps, DeathKeeps DEF WorkerStep
<1> QED BY <1>2, <1>3, <1>4, <1>5, <1>6, <1>7, <1>8 DEF BrokerNext

\* Queues, channels and deliveries are what they should be, every consumer has
\* the queue its deliveries return to, and every routed task is kept, for any
\* number of tasks, workers and faults (rabbit_mq.rs 49-84, worker.rs 77-99).
THEOREM QueuesHoldTogether == BrokerSpec => []BrokerInv
<1>1. BrokerInit => BrokerInv
  BY BrokerStarts
<1>2. BrokerInv /\ [BrokerNext]_brokerVars => BrokerInv'
  BY BrokerStepKeeps
<1> QED BY <1>1, <1>2, PTL DEF BrokerSpec

\* A task that reached a queue is kept until its handler has ended, whatever
\* worker or connection is lost (rabbit_mq.rs 49-84, worker.rs 77-99).
THEOREM RoutedIsKept == BrokerSpec => []DeliveredOrKept
<1>1. BrokerInv => DeliveredOrKept
  BY DEF BrokerInv
<1> QED BY <1>1, QueuesHoldTogether, PTL
=============================================================================
