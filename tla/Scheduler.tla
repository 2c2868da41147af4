----------------------------- MODULE Scheduler -----------------------------
(***************************************************************************)
(* TON618's reserved scheduler: a heap of jobs ordered by the time of      *)
(* their next run, and the runner's loop over it.  Other threads may put   *)
(* jobs into the queue at any time.  Times are ticks from now, negative    *)
(* when overdue.                                                           *)
(***************************************************************************)
EXTENDS Integers

CONSTANTS
  Jobs,
  Interval,     \* the fixed schedule of each job, in ticks
  Poll,         \* the sleep over an empty queue
  MaxRun,       \* bound on the ticks one execution takes
  MaxLate       \* bound: jobs that are later than this are equally late

ASSUME SchedulerAssumption ==
  /\ Interval \in [Jobs -> Nat \ {0}]
  /\ Poll \in Nat \ {0} /\ MaxRun \in Nat /\ MaxLate \in Nat

VARIABLES
  heap,         \* the queued jobs: job -> next_run
  running,      \* the job that executes, as a set of at most one
  ran,          \* how long it does
  asleep        \* what is left of the runner's sleep

schedulerVars == <<heap, running, ran, asleep>>

SchedulerInit == heap = <<>> /\ running = {} /\ ran = 0 /\ asleep = 0

\* ScheduledJob::new and update_next_run, then enqueue.
Queued(j) == [x \in DOMAIN heap \cup {j} |-> IF x = j THEN Interval[j] ELSE heap[x]]

\* Mutant: a max-heap, the latest job comes first.
LatestJobs == {j \in DOMAIN heap : \A x \in DOMAIN heap : heap[j] >= heap[x]}

\* peek and dequeue; of jobs that are equal any comes first.
FirstJobs == {j \in DOMAIN heap : \A x \in DOMAIN heap : heap[j] <= heap[x]}

Awake == running = {} /\ asleep = 0

\* The first job is due: it is taken from the queue and executed.
Execute(j) ==
  /\ Awake /\ j \in FirstJobs /\ heap[j] <= 0
  /\ running' = {j} /\ ran' = 0
  /\ heap' = [x \in DOMAIN heap \ {j} |-> heap[x]]
  /\ UNCHANGED asleep

\* Nothing is due: sleep until the first job is, or for a poll.
Sleep ==
  /\ Awake
  /\ \/ heap = <<>> /\ asleep' = Poll
     \/ \E j \in FirstJobs : heap[j] > 0 /\ asleep' = heap[j]
  /\ UNCHANGED <<heap, running, ran>>

\* With or without an error, the job is queued again.
Executed ==
  /\ \E j \in running : heap' = Queued(j)
  /\ running' = {}
  /\ UNCHANGED <<ran, asleep>>

Enqueue(j) ==
  /\ j \notin DOMAIN heap \cup running
  /\ heap' = Queued(j)
  /\ UNCHANGED <<running, ran, asleep>>

Tick ==
  /\ \/ running # {} /\ ran < MaxRun /\ ran' = ran + 1 /\ UNCHANGED asleep
     \/ asleep > 0 /\ asleep' = asleep - 1 /\ UNCHANGED ran
  /\ heap' = [j \in DOMAIN heap |-> IF heap[j] > -MaxLate THEN heap[j] - 1 ELSE heap[j]]
  /\ UNCHANGED running

RunnerStep == (\E j \in Jobs : Execute(j)) \/ Sleep \/ Executed

SchedulerNext == RunnerStep \/ Tick \/ \E j \in Jobs : Enqueue(j)

(* A job that is queued is run, again and again, whatever else is queued and
   however long other jobs take; its schedule may not be empty, or the runner
   would never sleep (runner.rs 40-76, queue.rs 37-60). *)
JobsKeepRunning == \A j \in Jobs : j \in DOMAIN heap ~> j \in running

=============================================================================
