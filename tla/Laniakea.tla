------------------------------ MODULE Laniakea ------------------------------
(***************************************************************************)
(* Laniakea, the worker process, in file mode (run_file_loop): it reads    *)
(* the Dispatched tasks, runs the handler of each in turn, and reports the *)
(* result with a compare-and-set from Dispatched.  A task's status is not  *)
(* read again before its handler runs.  Several workers may share the      *)
(* table; nothing but the compare-and-set keeps them apart.                *)
(***************************************************************************)
EXTENDS CanopusAgent, FiniteSets

CONSTANT Workers

ASSUME WorkerAssumption == IsFiniteSet(Workers)

VARIABLES
  worker,       \* each worker's snapshot, current task and its result
  worked        \* tasks a handler returned Ok for (history)

workerVars == <<worker, worked, agentVars>>

Worker == [batch : SUBSET TaskIds,
           task  : TaskIds \cup {NoTask},
           run   : Nat,
           phase : {"idle", "waiting", "ok", "err"}]

IdleWorker(batch) ==
  [batch |-> batch, task |-> NoTask, run |-> 0, phase |-> "idle"]

\* Worker w waits for the output of process a.
Awaits(w, a) ==
  /\ worker[w].phase = "waiting"
  /\ worker[w].task = a.task
  /\ worker[w].run = a.run

WorkerInit ==
  /\ AgentInit
  /\ worker = [w \in Workers |-> IdleWorker({})]
  /\ worked = {}

WorkerTypeOK ==
  /\ AgentTypeOK
  /\ worker \in [Workers -> Worker]
  /\ worked \subseteq TaskIds
  /\ \A w \in Workers : worker[w].task = NoTask <=> worker[w].phase = "idle"

-----------------------------------------------------------------------------

\* fetch_dispatched; a failed read is retried and changes nothing.
WorkerFetch(w) ==
  /\ worker[w] = IdleWorker({})
  /\ worker' = [worker EXCEPT ![w].batch = FetchBy("Dispatched")]
  /\ UNCHANGED <<tasks, faults, worked, agentVars>>

\* The loop turns to task t of the snapshot, its handler being in `phase`.
TurnTo(w, t, run, phase) ==
  /\ worker[w].phase = "idle"
  /\ t \in worker[w].batch
  /\ worker' = [worker EXCEPT ![w] = [batch |-> worker[w].batch \ {t},
                                      task  |-> t,
                                      run   |-> run,
                                      phase |-> phase]]
  /\ UNCHANGED <<tasks, faults>>

\* news_a::handle returns Ok; an unsupported label is an error.
WorkerHandles(w, t) ==
  /\ ~RunsCanopus(t)
  /\ TurnTo(w, t, 0, IF Handler[t] = "news" THEN "ok" ELSE "err")
  /\ worked' = IF Handler[t] = "news" THEN worked \cup {t} ELSE worked
  /\ UNCHANGED agentVars

\* run_canopus spawns the process and waits for its output.
WorkerLaunches(w, t) ==
  /\ RunsCanopus(t)
  /\ TurnTo(w, t, launches[t] + 1, "waiting")
  /\ Launch(t)
  /\ UNCHANGED worked

\* run_canopus: the process cannot be launched.
WorkerCannotLaunch(w, t) ==
  /\ RunsCanopus(t)
  /\ TurnTo(w, t, 0, "err")
  /\ UNCHANGED <<worked, agentVars>>

\* A process prepares its run.
CanopusPrepares(a) ==
  /\ AgentPrepares(a)
  /\ UNCHANGED <<tasks, faults, worker, worked>>

\* A process exits; a worker that waits for it gets its exit status.
CanopusExits(a, outcome) ==
  /\ AgentExits(a, outcome)
  /\ worker' = [w \in Workers |->
                  IF Awaits(w, a) THEN [worker[w] EXCEPT !.phase = outcome]
                                  ELSE worker[w]]
  /\ worked' = IF outcome = "ok" /\ \E w \in Workers : Awaits(w, a)
               THEN worked \cup {a.task} ELSE worked
  /\ UNCHANGED <<tasks, faults>>

\* Mutant: a worker gives the run up without an answer.
NoTimeout(w) == FALSE /\ UNCHANGED <<tasks, faults, workerVars>>

\* CANOPUS_TIMEOUT_SECS pass: the handler fails, and the child is left alone.
CanopusTimeout(w) ==
  /\ worker[w].phase = "waiting"
  /\ worker' = [worker EXCEPT ![w].phase = "err"]
  /\ UNCHANGED <<tasks, faults, worked, agentVars>>

\* Mutant: a failed run is left Dispatched, to be tried again.
ReportedForRetry(phase) == IF phase = "ok" THEN "PendingReview" ELSE "Dispatched"

\* Mutant: a failed run goes to the human too.
ReportedForReview(phase) == "PendingReview"

\* The status a handler's result asks for.
ReportedStatus(phase) == IF phase = "ok" THEN "PendingReview" ELSE "Failed"

\* Mutant: the worker keeps its task when it goes on.
WorkerReportsOn(w) ==
  /\ worker[w].phase \in {"ok", "err"}
  /\ tasks' = AfterTransition(worker[w].task, "Dispatched",
                              ReportedStatus(worker[w].phase))
  /\ worker' = [worker EXCEPT ![w].phase = "idle"]
  /\ UNCHANGED <<faults, worked, agentVars>>

\* The handler's result is reported: Applied, or Stale and skipped.
WorkerReports(w) ==
  /\ worker[w].phase \in {"ok", "err"}
  /\ tasks' = AfterTransition(worker[w].task, "Dispatched",
                              ReportedStatus(worker[w].phase))
  /\ worker' = [worker EXCEPT ![w] = IdleWorker(@.batch)]
  /\ UNCHANGED <<faults, worked, agentVars>>

\* The table access fails: logged, and the task stays Dispatched.
WorkerCannotReport(w) ==
  /\ worker[w].phase \in {"ok", "err"}
  /\ Fault
  /\ worker' = [worker EXCEPT ![w] = IdleWorker(@.batch)]
  /\ UNCHANGED <<tasks, worked, agentVars>>

\* The worker process stops and is started again; the child it waits for
\* dies with it or goes on.
WorkerRestart(w) ==
  /\ worker[w] # IdleWorker({})
  /\ Fault
  /\ worker' = [worker EXCEPT ![w] = IdleWorker({})]
  /\ \/ UNCHANGED agents
     \/ /\ worker[w].phase = "waiting"
        /\ agents' = {a \in agents : ~Awaits(w, a)}
  /\ UNCHANGED <<tasks, worked, branches, launches>>

WorkerStep ==
  \/ \E w \in Workers : WorkerFetch(w)
  \/ \E w \in Workers, t \in TaskIds : WorkerHandles(w, t)
  \/ \E w \in Workers, t \in TaskIds : WorkerLaunches(w, t)
  \/ \E w \in Workers, t \in TaskIds : WorkerCannotLaunch(w, t)
  \/ \E a \in agents : CanopusPrepares(a)
  \/ \E a \in agents, outcome \in {"ok", "err"} : CanopusExits(a, outcome)
  \/ \E w \in Workers : CanopusTimeout(w)
  \/ \E w \in Workers : WorkerReports(w)
  \/ \E w \in Workers : WorkerCannotReport(w)
  \/ \E w \in Workers : WorkerRestart(w)

=============================================================================
