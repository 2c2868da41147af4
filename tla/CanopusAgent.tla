---------------------------- MODULE CanopusAgent ----------------------------
(***************************************************************************)
(* `canopus submit` as Laniakea sees it: a child process that works on one *)
(* task and exits.  An agent run first prepares: a run that implements     *)
(* takes the task's branch with `git checkout -b`, a planning or reviewing *)
(* run copies the repository.  The stages after that are abstracted to the *)
(* phase "working".                                                        *)
(*                                                                         *)
(* A child outlives a worker that stops waiting for it: the set `agents`   *)
(* is the set of live processes, whoever waits for them.                   *)
(***************************************************************************)
EXTENDS TaskTable

CONSTANT
  Handler       \* for each task, what handlers::dispatch makes of its type

HandlerKind == {"news", "implement", "readonly", "unsupported"}

ASSUME HandlerAssumption == Handler \in [TaskIds -> HandlerKind]

VARIABLES
  agents,       \* the live canopus processes
  branches,     \* tasks whose branch exists in the repository
  launches      \* number of processes launched for each task (history)

agentVars == <<agents, branches, launches>>

\* A process is named by its task and its number among the task's launches.
Agent == [task : TaskIds, run : Nat \ {0}, phase : {"preparing", "working"}]

RunsCanopus(t) == Handler[t] \in {"implement", "readonly"}

AgentInit ==
  /\ agents = {}
  /\ branches = {}
  /\ launches = [t \in TaskIds |-> 0]

AgentTypeOK ==
  /\ agents \subseteq Agent
  /\ branches \subseteq TaskIds
  /\ launches \in [TaskIds -> Nat]

\* A child process is spawned for t.
Launch(t) ==
  /\ launches' = [launches EXCEPT ![t] = @ + 1]
  /\ agents' = agents \cup
                 {[task |-> t, run |-> launches[t] + 1, phase |-> "preparing"]}
  /\ UNCHANGED branches

\* Mutant: a branch that exists is checked out again instead of refused.
TakeBranchAgain(t) ==
  branches' = IF Handler[t] = "implement" THEN branches \cup {t} ELSE branches

\* The preparation policy: `git checkout -b` fails when the branch exists.
TakeBranch(t) ==
  IF Handler[t] = "implement"
  THEN t \notin branches /\ branches' = branches \cup {t}
  ELSE UNCHANGED branches

\* The run is prepared and its agents start to work on the repository.
AgentPrepares(a) ==
  /\ a \in agents
  /\ a.phase = "preparing"
  /\ TakeBranch(a.task)
  /\ agents' = (agents \ {a}) \cup {[a EXCEPT !.phase = "working"]}
  /\ UNCHANGED launches

\* The process exits: with success only when its work is done; it may fail
\* at any time (a dirty worktree, a taken branch, a failed stage).
AgentExits(a, outcome) ==
  /\ a \in agents
  /\ outcome = "ok" => a.phase = "working"
  /\ agents' = agents \ {a}
  /\ UNCHANGED <<branches, launches>>

=============================================================================
