# Stellaris: models, checks and proofs

Stellaris is a pipeline of small processes that turn a request, or a finding
made by a scanner, into a reviewed change of a repository. They coordinate
through one file, `tasks.json`. This directory holds TLA+ models of that
pipeline, of a run of canopus from its command line to its last record, of the
delivery of its work to git, of the bot's project registry, of the calls to
GitHub Projects and of the queue mode; the TLC runs that check them; and the
proofs that TLAPS checks.

    tlc -workers 2 -config MCWorkers.cfg MCPipeline    # model-check a run
    tlapm PipelineProofs.tla                           # check the proofs of a module

## 1. Inventory

How the parts interact:

    Kepler ----create----+                              +--- GitHub Issue <-- work-intake
    (ledger file)        v                              |                        ^
    Europa --update--> tasks.json <--CAS-- TON618       +------- await ---- Europa commands
      (!run, !approve,   ^   |
       !reject, ...)     |   +--fetch_dispatched--> Laniakea --spawn--> canopus submit
                         +--------CAS-------------- Laniakea <--exit--- (branch, artifacts)
                             `--read (Processed, approved)--> canopus finalize / watch

| Part | State | Operations | What is hard |
| --- | --- | --- | --- |
| `dysonsphere` status, message, file table | one row per task in `tasks.json`, under an advisory lock, published by rename | `create`, `fetch`, `fetch_pending`, `fetch_dispatched`, `transition` (compare-and-set) | typed rewriting drops columns that another writer added; readers take no lock |
| `dysonsphere` discovery, `kepler` | the ledger of seen findings, a second file | `register_discoveries`: read ledger, create tasks, replace ledger | a crash between the two files; unreadable ledger; a failed create |
| `hubble` | none (idle binary) | produces discoveries of its own task type | - |
| `ton618` | a snapshot of Pending tasks | poll, dispatch one by one | the snapshot is stale when used |
| `laniakea`, file mode | a snapshot of Dispatched tasks, one child process | poll, run the handler, report | stale snapshot, several workers, lost report, restart, timeout with a surviving child |
| `laniakea`, RabbitMQ mode | deliveries not yet acknowledged | process, ack or nack | redelivery, no retry after an error |
| `ton618` cron scheduler, RabbitMQ dispatcher, `dysonsphere` mq | queue of due jobs, round-robin index | tick, run, publish | behind features that are off by default |
| `canopus submit` | branch, its own `tasks.json`, run record | arguments, backend selection, prepare, stages of helpers, agents and checks, Project sync, exit | survives its worker; two attempts of one task; a state directory that nobody clears; agents without a sandbox |
| `canopus work-intake`, Project sync | GitHub Issue, Project item | open; plan, validate, sync | fails after the Issue was opened; plan, validation and execution are three pieces of code |
| run names and state directories | none | derived by Europa, Laniakea, submit and finalize, each for itself | four programs have to agree |
| `canopus finalize`, `finalize-approved`, `watch` | sidecar file per task, commit, branch, pull request | dry run, local commit, push, PR; post-approval | two finalizers at once; a crash between commit and sidecar; the mode changes between runs |
| `europa` task commands | commands in flight (coroutines) | `!run`, `!approve`, `!reject`, `!propose-approve`, `!propose-reject`, `!cancel` | a row is read, an intake awaited, then the row is written |
| `europa` project registry | `projects.json` | `!new-project`, `!register`, `!worktree` | read, await, write back, without a lock |
| agent runtimes, helpers | none of their own | start an agent in a sandbox, or without | which may write where, and which ends |
| formatting, routing, conversations | none of their own | I/O | - |

What makes each part correct:

- **Table.** A status changes only along the life of a task; a process that acts
  on what it read earlier cannot undo what happened since. The two languages
  that write the file agree on what is approved although one drops the other's
  columns.
- **Kepler.** A finding waits for a human. It is never lost: whatever the ledger
  knows, the table has; and a lost ledger comes back.
- **TON618, Laniakea.** A queued task is resolved in the end. It is not executed
  without bound, an orphan does not change work under review, and a late answer
  does not overrule a verdict.
- **Europa.** Work starts after its Issue exists; two commands that interleave
  at an await do not promote, reject and cancel the same task.
- **Canopus finalize.** Only approved work is committed, on the branch of its task,
  and all of it once a record says so; approved work is committed in the end.
- **Canopus submit.** Each stage is worked on once, whatever is submitted again;
  a run that completes was checked after its last writer; whatever ends a run, its
  record has kept up with its work; a read-only run leaves nothing behind.
- **Orders.** What a user asked for arrives whole at canopus; the run has one name
  for everybody and its results are found where they were put.
- **Project registry.** Paths and directories fit, and a registration is not lost to
  a concurrent command (two commands cannot promise that).
- **GitHub.** A live sync does what its plan says and no more; what an intake prints
  is what it did.
- **Queue mode.** A task that reached a queue is kept until it was handled, and
  every job of the scheduler runs again and again.

## 2. Modules

| Module | What it models | Source |
| --- | --- | --- |
| `TaskStatus` | the statuses and `can_transition_to` | `dysonsphere/src/status.rs`, `message.rs` |
| `TaskTable` | `tasks.json` and the operations of both its writers | `dysonsphere/src/db`, `apps/europa/tasks_store.py` |
| `Ton618` | the dispatch loop | `ton618/src/main.rs` |
| `CanopusAgent` | a `canopus submit` process as its worker sees it | `apps/canopus/src/cli`, `.../tool_gateway` |
| `Laniakea` | the workers in file mode with their children (extends `CanopusAgent`) | `laniakea/src` |
| `Kepler` | a registration pass over ledger and table | `kepler/src`, `dysonsphere/src/discovery` |
| `Europa` | the task commands as coroutines | `apps/europa/europa.py`, `tasks_store.py` |
| `Pipeline` | all of these composed, with fairness and properties | |
| `TaskLife` | abstract: the life of a task, which `Pipeline` implements | |
| `TableLoss` | `Pipeline` with the step of a bot that cannot read the table | `tasks_store.py` |
| `PipelineInv` | the inductive invariants | |
| `Repository` | the git repository of a project: HEAD, worktree, index, commits | `.../tool_gateway/local.rs` |
| `Finalize` | finalizer processes, call by call, and the record of a task (extends `Repository`) | `apps/canopus/src/cli/finalize.rs` |
| `Delivery` | runs, verdicts and finalizations in one repository, with its invariant (extends `Finalize`) | `submit.rs`, `custom.rs`, `europa.py` |
| `DeliveryLife` | abstract: one commit for each approved task, which `Delivery` implements | |
| `RunIdentity` | the name of a run, in the four places that compute it | `core/run_identity.rs`, `europa/payloads.py`, `finalize.rs` |
| `SubmitArgs` | an order on its way: payload, metadata, command line, parsed arguments, agenda (extends `RunIdentity`) | `handlers/custom.rs`, `cli/args.rs` |
| `Projects` | the registry, worktrees and `!run` as coroutines, and what becomes of the tasks they write (extends `SubmitArgs`) | `europa.py`, `projects_store.py`, `worktree.rs` |
| `Backends` | what a run decides before it works: capability, backend, pipeline, sandbox, helpers, workflow states | `core/runtime_registry.rs`, `pipeline.rs`, `workflow.rs`, `agent_runtime/` |
| `CanopusSubmit` | `canopus submit` stage by stage, several attempts at once (extends `Backends`, implements `CanopusAgent`) | `cli/submit.rs` |
| `ProjectSync` | Project sync, `work-intake` and `project-register`, call by call | `github/client.rs`, `work_intake.rs` |
| `Scheduler` | the job queue and its runner | `ton618/src/scheduler` |
| `Broker` | dispatcher, queues, deliveries and workers of the RabbitMQ mode | `dispatcher.rs`, `rabbit_mq.rs`, `worker.rs` |
| `MCPipeline`, `MCDelivery`, `MCProjects`, `MCSubmit`, `MCGithub`, `MCQueue`, `MC*.cfg` | instances for TLC | |
| `PipelineProofs`, `LifeProofs`, `DeliveryProofs`, `ProjectsProofs`, `SubmitProofs`, `CompletionProofs`, `BrokerProofs`, `SyncProofs` | proofs | |

`Pipeline` and `Delivery` are two compositions. `Pipeline` has everything that
meets in `tasks.json` and knows of git only which branches are taken. `Delivery`
keeps of a task only what comes after its dispatch, for one repository, and adds
what its processes do there. Neither reads a variable of the other.

`CanopusSubmit` opens the box that `CanopusAgent` is to `Pipeline`, and the run
`submit` checks that it implements it. `Projects` follows a task from the
command that writes it through the four programs that read it. `ProjectSync` is
what `Pipeline` knows as the outcome of an intake. `Broker` and `Scheduler` stand
for themselves: they are behind features that are off, and nothing joins them.

### State and code

- `tasks[t]` is a row: `status` is `meta.status`; `approval` is
  `payload.approval_state`, and `metaApproval` the copy of it in `meta` that
  Europa writes and a Rust rewrite drops (`Rewritten`); `intake` and `issue` are
  what work-intake left in the payload. `Absent` stands for a row that is not
  there. Wording, timestamps and the order of rows are left out.
- Both writers hold the same exclusive lock from their read to their rename, so
  each operation is one atomic change of `tasks`; readers take no lock, and the
  rename shows them one published version.
- `dispatchBatch` and `worker[w].batch` are the snapshots. The code walks a
  snapshot in file order; the model takes any order, since rows are unordered.
- `worker[w].phase` is the place of a worker in its loop: `idle` between tasks,
  `waiting` in `run_canopus`, `ok`/`err` between the handler and its report.
- `agents` are the child processes that live, `preparing` until `create_branch`
  (or the copy of the repository) and `working` afterwards, whether or not a
  worker still waits. An exit is `ok` only from `working`.
- `branches` are the branches taken by `git checkout -b`. Nothing in the code
  deletes one, and one task has one branch.
- `command[s]` is a coroutine that waits in `intake_github_work`, or has its
  answer and goes on. A coroutine runs alone up to its next await, but its last
  step takes the lock again, so "answer" and "go on" are two steps.
- `seen` is the ledger file; `scan` the pass with its copy of the ledger.
- `launches`, `worked`, `promoted`, `approved` are history: no guard reads them,
  except that `launches` numbers the processes.

- In `Delivery`, `changes` and `index` hold whose work is uncommitted, `head` which
  task's branch (or `Main`) is checked out. A commit keeps the task it was made
  for, the branch it landed on, and whose work is in it.
- `finalizer[f]` is a `finalize-approved` or `watch` process with the call it makes
  next; each call of git is a step. The check of `.canopus/` in `.gitignore` is
  one of the reasons for `FinalizeStops`. A dry run only looks, and then writes.
- `record[t]` is `<run_id>-finalize.txt`, told apart as `should_skip_existing_finalize_record`
  does: none, a dry run, a commit, or no changes.
- `run[t]` is the canopus process of `t`, which survives its worker's timeout and
  a `!cancel`; `status[t]` is `open` until the task is under review or failed.
- `OperatorDiscards` and `OperatorUnstages` are what a human has to do when
  canopus refuses a dirty worktree or a dirty index; no code does it.

- In `RunIdentity` and `SubmitArgs` a text is a sequence of characters in which a
  run of letters and digits counts as one: what the code tells apart are
  separators, blanks, dashes and case, so that is kept. `Characters` is what there is;
  a key of a record stands for the flag and the JSON key of that name. `_sanitize_run_identity`
  is the Python mirror of `sanitize_run_identity`, with the flag it carries.
- In `Projects`, `projects` is `projects.json` as `normalize_project_worktrees`
  hands it out. `commands[s]` is a coroutine between two awaits, with the
  registry it read (`seen`) and the record it will write. `dirs` and `branches` are
  what git has. `promised` and `overlapped` are history: what each command told its user,
  applied one by one without a file in between, and the categories whose record was
  written while a command waited that will write back the registry it has read.
- In `CanopusSubmit`, `run[a]` is an attempt: `pc` is its place in `run_submit`, `idx`
  the role of the pipeline, `wf` the workflow state, `records` the stages it has
  recorded, which it writes over `file[t]` (`runs/<id>.json`) each time. `created`
  are the rows of the state directory's own `tasks.json`. `dirty` tells whose
  changes are uncommitted, `diff` what the check kept. `prepare` is the preparation up to
  the branch, `persist_upstream_provenance` the writes and the copy that follow. Stages are numbered from 1
  where the code counts from 0. `works`, `alone` and `wrote` are history.
- In `ProjectSync`, `setup` is what the commands find (configuration, gates, GitHub),
  `cmd.todo` the calls still to be made and `cmd.done` those that succeeded.
- In `Scheduler` times are ticks from now; the heap is the function from queued jobs
  to the time of their next run. In `Broker`, `queues` are the declared queues,
  `unacked` what the broker keeps for a consumer, `inbox` the channel between the
  client's task and `run_rabbit_loop`, `working` the message it handles.

Faults are actions of their own, each of which uses up one of `MaxFaults`:
a process stops and restarts (`SchedulerRestart`, `WorkerRestart`,
`KeplerRestart`, `EuropaRestart`), an access to a file fails
(`DispatchTaskFails`, `WorkerCannotReport`, `KeplerCannotRegister`,
`KeplerCannotWriteSeen`, an unreadable ledger in `KeplerScans`), a command ends
with an exception (`CommandAborts`), a `git add` fails (`CannotAdd`), a finalization is
killed or cannot make a call (`FinalizeStops`), an attempt of submit is killed
(`Dies`) or a call of it fails, which the code records as a failed stage where it is wrapped
in `try_stage!` (`CallFails`) and does not record where it leaves with `?`: the copy, the
snapshots, the writes of records (`EndsUnrecorded`, `Saves`); a call to GitHub fails before or after it took effect or is refused
(`CallFails`, `Refused` of `ProjectSync`), a consumer dies, loses its connection, or the broker
restarts (`WorkerDies`, `ConnectionLost`, `BrokerRestarts`). The bot may stop at any
time (`BotStops`). A failing intake, a canopus that fails,
hangs or cannot be launched, and a timeout are not faults: they may happen at
any time and any number of times.

## 3. Runs

Five runs use `MCPipeline`, three `MCDelivery`, and four have a module of their own.
Symmetry is used for the command slots of `projects`, which checks invariants only;
most other runs check liveness.

| Run | Instance | Shows |
| --- | --- | --- |
| `workers` | two workers, one finding that canopus implements, 2 faults, one command | bounded re-execution, final verdicts, refinement of `TaskLife`, both inductive invariants; `SafetyInv` implies the gate and the quiet of reviewed work |
| `commands` | a requested and a discovered task, GitHub, two commands at once, 1 fault | the approval is shared; no work without its Issue; `SafetyInv`, which implies that the approval is earned |
| `progress` | a development task and a `NewsA` task, the waiver of failed intakes, 1 fault | `QueuedIsResolved`, `SeenIsRegistered`, `LedgerRecovers`; the fault may be an unreadable ledger, which a scan without findings then empties on disk |
| `loss` | `TableLoss` with a requested and a discovered task, 2 faults | what survives a table that was lost |
| `intake` | one finding, GitHub, no fault | violated: see section 6 |
| `delivery` | three tasks, one of which changes nothing, two finalizers in both modes, 1 fault, no overlap | what is committed, when and how completely; refinement of `DeliveryLife`, which says on which branch and how often; `ApprovedIsDelivered`; the inductive invariant |
| `overlap` | two tasks, two finalizers, no fault, with overlap | violated: see section 6 |
| `add_fails` | two tasks, one finalizer, 1 fault | violated: see section 6 |
| `projects` | two repositories, one named like a worktree of the other; a category and one that can be made; two commands at once, four in all; two requests, one of which begins with dashes; either answer of the probe of a state directory | `RegistryInv`, `RegistryKeepsPromises`; what becomes of every task: `OrderArrivesWhole`, `RunNamesAgree`, `RunsAreDistinct`, `ResultsAreFound` |
| `submit` | two attempts over six orders (three pipelines of implementing runs, planner, reviewer, an order whose selection conflicts) and mock, codex, legacy and command backends; helpers in `repo-explore`, fail-fast; one failed call or death | the safety properties of a run, the two inductive invariants, `RecordKeepsUp`, `AttemptEnds`, refinement of `CanopusAgent` |
| `queue` | a job every tick and one every third, executions of up to two ticks; or three messages, one of which is no task, two workers, 2 faults | `JobsKeepRunning`, `DeliveredOrKept` and its inductive form `BrokerInv` |
| `github` | all 1944 configurations, each text absent, blank or given, against a GitHub that has everything, or lacks the Project, the issue or the option; and each gate closed, without a token and with mocks; three commands, 2 faults | `SyncFollowsPlan`, `ValidationPredicts`, `IntakeSaysWhatItDid`, and `SyncInv`, from which they follow |

Bounds, and why they are enough to be of interest:

- *Tasks.* Rows are independent of each other except for `Rewritten`, which
  drops columns of every row; two rows show that, and the proofs hold for any
  number.
- *Workers.* Two are needed for a task that is taken twice; a third adds only
  another launch, and `ReexecutionBound` is proved for any number.
- *Faults.* Two allow a lost report followed by a restart, and a crash between
  the two files of Kepler followed by an unreadable ledger.
- *Slots.* Two commands waiting at once is what `!propose-approve` needs to be
  overtaken by itself; `!cancel`, `!approve` and the rejections need no slot, and
  interleave with it in every run.
- *Finalizers.* Two are the process of `!approve` or `!finalize` and that of
  `watch`; the proofs hold for any number. One fault is a crash between any two
  calls; with two faults `delivery` holds as well (it takes twice as long).
- *Tasks of a repository.* Three: one that left its changes behind, the one that
  comes next, and one without changes.
- *Attempts.* Two are a task that is submitted again, or the next task beside one
  that outlived its worker. Two pipelines are left out: `SecurityAudit` goes
  through the same workflow states as `DevMode`, `UXImprovement` through those of
  `TestWriter` and then of `ReviewerOnly`. The theorems hold for any number of
  attempts and for all orders, and so for these two as well.
- *Commands of the registry.* A lost update needs two that overlap; four let a
  worktree be created, switched to, and a task be written for it while the
  registry is overwritten.
- *Commands of `github`.* Validation, then a live sync, then an intake. Two faults let
  an update be refused after an answer was lost.
- *Scheduler.* The slow executions are longer than the short interval, so that the
  frequent job is always overdue. Lateness beyond `MaxLate` is not told apart.
- *Deadlock* is checked in every run of `MCPipeline` and in `queue`: polling loops
  never stop. In `Delivery` every task may have its verdict and its record, and
  nothing is left to do; in `projects`, `submit` and `github` the bound on
  commands and attempts ends every behaviour. There it is not.
- *Overlap.* With `Overlapping` false, a run is prepared only while no other
  canopus process works on the repository, and no finalization begins between
  its check of the worktree and its branch. **The code does not see to it**: this is
  a discipline of the operator, and the safety properties of `Delivery` are
  claimed under it only (`ReportsSurviveOverlap` says what is left without it). It excludes, too, a canopus process that outlives its
  worker's timeout while the next run is prepared. Finalizations overlap with
  each other, with the work of a run, and with human verdicts in every run.

Which hazards of the code each property is meant for is listed in `PROJECT.json`.
Some notes on properties that are less obvious than they look:

- `ReviewedWorkIsQuiet`. A task may be launched again after a lost report, a
  restart, or by the second worker, while the first child still works. What
  keeps a task under review quiet is not the compare-and-set but the branch:
  a second run that implements fails at `git checkout -b`, and success is
  reported only after the child that has the branch exited. It does not hold of
  read-only runs, which take no branch.
- `ReexecutionIsBounded`. At most one launch for each worker and each fault: a
  worker that is done with a task reports before it reads the table again, and
  only a fault can make that report void.
- `ImplementsTaskLife` and `VerdictIsFinal`. Europa sets statuses without the
  transition matrix that the Rust side enforces. The lists of source statuses in
  its commands imply the matrix.
- `CommitsAreApproved`. `git add -A` takes whatever lies in the worktree, so what
  keeps a rejected task's changes out of the next commit is the check before
  the run of the next task, long before: it leaves the one task that has the
  branch as the only one with changes.
- `ImplementsDeliveryLife`. Nothing makes check, commit and record of a finalization
  one step, and two of them may be between any two calls. That a task is committed
  once, by itself and on its branch, rests on the whole chain: runs that start from
  a clean worktree, the branch that is looked at, an index that must be empty.
  A report may still come late: `no_changes` may replace `commit`, which
  `DeliveryLife` allows.
- `CommitIsComplete` and `NoChangesIsTrue`. Both kinds of record end finalization of
  a task for good. The first is always right, even after a crash between commit
  and record and with two finalizers. The second is not (section 6).
- `ApprovedIsDelivered` is asked only of behaviours without faults; a fault between
  `git add` and `git commit` leaves a dirty index, which the pre-flight refuses
  until the operator resets it.
- `LedgerRecovers`. A scan that finds nothing is registered like any other, and a ledger
  that cannot be read counts as empty: so the two together replace the ledger by an
  empty one. What is asked is that a finding comes back that Kepler goes on reporting.
- `RegistryKeepsPromises`. `projects.json` has no lock. `!register` with GitHub flags
  and `!worktree create` write back what they read before their await, and so undo what
  was written meanwhile: this **does happen**. `promised` is computed from what the
  commands say, not from the file, and the property compares the two category by
  category; it leaves out only a record written while one of these two commands
  waited (`overlapped`), until a later registration of that category. It covers the
  commands that wait and read again (`!new-project`, whose await is the longest), those
  that do not wait, roll-backs and failures. `RegistryInv` says that what is written
  stays coherent even where something is lost.
- `ResultsAreFound`. Laniakea for submit, and finalize for itself, each try the
  repository's `.canopus` and fall back to another directory if it cannot be written.
  With the same answer of the probe: if it succeeds, both use the repository; if it
  fails, submit uses the worker's state directory (`custom.rs:248`) and
  `finalize-approved` that of its own environment or arguments (`args.rs:62`). The
  property says that results are found exactly if the probe succeeded or the two
  directories are the same. `CANOPUS_STATE_PATH` comes first for Europa and last for
  Laniakea and finalize; what is said of `!show` is claimed where it is unset for the
  bot and the probe succeeded. `!show` looks under the project as it is now, hence
  the condition that it is still on that worktree.
- `OrderArrivesWhole`. The request is the last argument, without a `--` before it: a
  request that begins with two dashes is refused, and the property says that it is
  never obeyed as an option.
- `WorkedOnce`. A second attempt is stopped by the branch, if the run implements,
  and by the rows of the first, which stay in the state directory: a stage that
  failed can never be worked on again under its task id.
- `CompleteMeansChecked`. The check comes right after the coder; that nothing is
  changed later rests on the sandboxes of the later roles. It is claimed for
  backends with a sandbox and runs that no other overlapped.
- `ReadOnlyLeavesNoTrace`. The runtime of a read-only run may write into the
  repository instead of the copy. Two snapshots of the paths with changes are
  compared, and what was changed before the first may hide a write: the changes
  of another run, or of a helper that failed and was let through. So the property is
  claimed of a run that had the repository to itself from its launch if none of its
  helpers failed; and of a run beside others if its agent
  was started in a clean repository. In all other cases the code does not notice.
- `RecordKeepsUp`. A run may end between any two calls, and several of its calls fail
  with `?`, which leaves no failed record: that a run that failed has said so is **not**
  true of the code, nor claimed. What is claimed is that the record is neither
  ahead of the work nor behind by more than the stage at hand, whatever ends
  the run.
- `ValidationPredicts`. What validation does not look at is listed in
  `NotLookedAt`: whether the issue exists; a Project that is named by an id, unless it
  asks for the fields; ids that are blank, which it takes for given and the live sync
  for absent; an option without id and name. Everything else that a live sync needs it
  has looked at, as long as GitHub answers. Ids of items, fields and options that are
  given are taken to exist: nothing reads the answer to the update that uses them.
- `DeliveredOrKept` speaks of tasks that reached a queue. A task for a worker that
  has not subscribed yet is dropped by the broker in silence, and a broker restart
  loses all: neither queues nor messages are durable.
- `WorkHasItsIssue` is stated without the waiver
  `EUROPA_INTAKE_FAILURE_LOCAL_ONLY`, with which it is meant to fail.

### Fairness

`FairSpec` assumes that the processes run: TON618 and the workers poll and
finish their snapshots (weak fairness of their steps: each is a loop without an
exit, with a sleep), a wait for canopus ends at the latest by
`CANOPUS_TIMEOUT_SECS` (a `tokio::time::timeout`), and Kepler finishes a pass.
That Kepler keeps reporting a finding that stays in the code is strong fairness
of the scans that contain it, since a scan is enabled only between passes.
Nothing is assumed of humans, of canopus, of GitHub, or of faults, which
`MaxFaults` ends: the liveness properties say what happens when faults stop.

`FairSpec` of `Delivery` assumes that a finalization that has begun goes on (weak
fairness), and that one that commits is begun again and again for each approved
task without a last word (strong fairness, since it may be busy with others):
that is the loop of `canopus watch`, every 10 seconds over all approved tasks,
with `CANOPUS_ALLOW_LOCAL_COMMIT`. Without `watch` the code promises only what
`!approve` and the retries of `!finalize` do. Nothing is assumed of runs or humans.

`FairSpec` of `CanopusSubmit` assumes that canopus takes its own steps (weak fairness
of `Proceeds`), and that an agent returns that ends by itself (the mock) or is
killed after its configured timeout (`AgentEnds`). Codex and commands without a
timeout may run for ever, and `AttemptEnds` says nothing of runs that use them. Weak
fairness of `Proceeds` is an assumption, not a consequence of the code, in two places:
the calls to GitHub have no read timeout (`client.rs:147-149`), and a helper that was
killed is waited for (`repo_explore.rs:163-164`).

`queue` assumes that the runner's loop goes on and that time passes, both with weak
fairness. It assumes nothing of those who enqueue jobs, of the broker or its workers.

## 4. Proofs

TLAPS proves, for any sets of tasks and slots, any finite set of workers, any
assignment of handlers, any set of finalizers, any orders and registry of backends,
any number of attempts, any finite set of messages, any setups of a GitHub Project,
any texts of requests, repositories, registrations and the environment, and any bound
on the faults:

| Theorem | Statement |
| --- | --- |
| `PipelineProofs!TypeCorrect` | `Spec => []TypeOK` |
| `PipelineProofs!Safety` | `Spec => []SafetyInv` |
| `GateIsKept`, `ApprovalAgreement`, `FinalizedIsApprovedWork`, `ReviewIsUndisturbed`, `IssueBeforeWork`, `LedgerIsSound` | the safety properties of the runs, from `SafetyInv` |
| `LifeProofs!Refinement` | `Spec => ImplementsTaskLife` |
| `LifeProofs!VerdictsAreFinal` | `Spec => VerdictIsFinal` |
| `LifeProofs!LaunchesAreCounted`, `ReexecutionBound` | `Spec => []ReexecutionInv`, `[]ReexecutionIsBounded` |
| `LifeProofs!SafetyWithLoss` | `LossySpec => []LossInv` |
| `GateSurvivesLoss`, `ApprovalSurvivesLoss`, `ReviewSurvivesLoss` | three of the safety properties, under `LossySpec` |
| `DeliveryProofs!DeliveryIsSafe` | `~Overlapping` implies `Spec => []DeliveryInv` |
| `OnlyApprovedIsCommitted`, `CommittedOnExpectedBranch`, `RecordedCommitIsComplete` | on approval, branch and record, from `DeliveryInv` |
| `DeliveryProofs!DeliveryRefinement` | `~Overlapping` implies `Spec => ImplementsDeliveryLife` |
| `DeliveryProofs!ReportsSurviveOverlap` | `Spec => []ReportsAreTrue`, with any overlap |
| `ProjectsProofs!RegistryFits`, `PromisesKept` | `Spec => []RegistryInv`, `Spec => []RegistryKeepsPromises` |
| `ProjectsProofs!OrdersArrive`, `NamesAgree`, `RunsDiffer`, `ResultsFound` | `Spec => []OrderArrivesWhole`, `[]RunNamesAgree`, `[]RunsAreDistinct`, `[]ResultsAreFound` |
| `SubmitProofs!RowsHaveOneCreator`, `NoStageTwice` | `Spec => []SubmitInv`, `[]WorkedOnce` |
| `CompletionProofs!AttemptsFit`, `CompletionIsEarned` | `Spec => []AttemptInv`, `[]CompleteMeansChecked` |
| `CompletionProofs!RecordsKeepUp`, `ReadOnlyIsHarmless` | `Spec => []RecordKeepsUp`, `[]ReadOnlyLeavesNoTrace` |
| `CompletionProofs!AttemptsAreAgents` | `Spec => ImplementsAgent` |
| `BrokerProofs!QueuesHoldTogether`, `RoutedIsKept` | `BrokerSpec => []BrokerInv`, `[]DeliveredOrKept` |
| `SyncProofs!CommandsFollowTheirPlan`, `MutationsArePlanned`, `ValidationIsRight` | `Spec => []SyncInv`, `[]SyncFollowsPlan`, `[]ValidationPredicts` |
| `SyncProofs!IntakesAreHonest` | `Spec => IntakeSaysWhatItDid` |

Few of the properties are inductive. `SafetyInv` adds what those of the pipeline
rest on:

- `SnapshotInv`: a task in a snapshot, in hand, or ever launched was dispatched,
  and no status after `Dispatched` leads back before it. So a stale snapshot of
  Dispatched tasks never holds a proposal. `GateInv` then carries "was promoted"
  from the row to every snapshot made of it.
- `RowInv` relates the columns: `metaApproval` may be missing but never says
  `approved` where the payload does not, and the payload says it exactly in
  `Processed`. That is why dropping the copy is harmless.
- `ResultInv` and `BranchInv`: who reports success holds finished work; the
  branch of finished work is taken, and at most one process works on a branch,
  none after the work is finished.
- `CommandInv`: a `!run` in flight owns an id that no row has; an intake that
  returned an Issue opened it.
- `LedgerInv`: the ledger, on disk and in memory, knows only rows.

Re-execution needs a count instead: `CountInv` says that the launches of a task
plus the workers that may still launch it without a fault (`MayLaunch`) never
exceed workers plus faults. A launch takes its worker out of `MayLaunch`; a
worker comes back only by a fault, because after a report without one the task
is `PendingReview` or `Failed` or beyond. The proof goes through each action
with one lemma on the cardinalities of the two sets.

`LossInv` is what `SafetyInv` keeps when the bot may publish a table it could not
read: `RowInv`, `GateInv`, `ResultInv` and `BranchInv`, which speak of rows that
exist, of what a human released, and of branches. `SnapshotInv`, `LedgerInv` and
the Issue of each row are gone with the rows; that an id is fresh when `!run`
appends under it needs no row either. The steps are those of `Safety` gone over with
less to rest on, so that the lemmas on rows are shared.

The refinement reads the life of a task off its status. Each step of `Pipeline`
is a step of `TaskLife` or a stutter, from `SafetyInv`; the proofs have one lemma
per component.

`DeliveryInv` says what the properties of `Delivery` rest on: uncommitted changes
are those of the task whose branch is checked out (`WorktreeInv`), one run is
under way at a time and none of a task that was judged (`RunInv`), and a
finalization past its check of the branch is still on that branch, with an
approved task (`Secured`). A commit then holds the work of its own task and no
other, on its branch, and nothing of that task is left or will be written
(`CommitInv`): so no second commit of it is ever possible, which is what
`DeliveryLife` says. A process that is about to record a commit has made one, or
another has before it. The proof has a lemma for each kind of step: of runs, of
finalizers (for the one that moves, case by case, and the others by
`SecuredKept`), of the operator; the refinement goes over the same steps again.

Without the discipline of the operator, `CommitsOnTheirBranch` is false (section 6) and
`DeliveryInv` with it. `ReportInv` is what remains: a finalization works for an approved
task, a commit is never empty, and a record of a commit is of a task that has one,
though it may hold the work of another.

`RegistryInv` is inductive: besides the records in the file it constrains those that
commands carry across their awaits (`WellFormedCommand`), since they will be
written. Directories are never removed, so a record that fitted when it was read
fits when it is written (`RecordStays`, `CommandStays`). Its part `IsOrder` says what
the four properties of texts need: a task is `build_task_payload` of a request and of
a project that was well-formed when `!run` read it.

Those four are about functions of texts of any length, which the model writes as
recursive functions (`Pushed`, `Mirrored`, `PushedArgs`, `Reading`), one value per
character or argument. The library's induction theorems take an operator and cannot be
used; `SetInduction` states induction for the set of the numbers that have the
property, `UpTo` for an initial segment, and `RecursionExists` gives each function
its equation. On these rest:

- the sanitizers: at each character Europa's flag says whether the name ends with a
  dash (`MirrorAgrees`), so the two programs name every text alike
  (`SanitizersAgree`); a text that ends with a word has a name that ends with its
  lower case (`SanitizedLast`), and task ids end with a word of lower case, so that
  runs of different tasks differ;
- the command line: what is read after a prefix of the arguments does not depend on
  the rest (`PrefixAgrees`); a flag followed by a value that fits sets its option
  and no other (`ReadPair`); so whatever optional settings follow, the options the
  worker always gives keep their values (`RequiredRead`, `OptionalRead`), and the
  request after them is kept or refused as a whole (`ReadRequest`);
- the payload: no key that Laniakea or finalize tries as a substitute shadows one of
  the order's own (`PayloadIs`, `MetadataIs`), and all that is handed on fits the
  type of its option (`SettingsFit`), unless the environment does not (`Configured`).

`SubmitInv` says that an attempt at a stage has created the stage's row
(`HasRow`), that a row has one creator (`OneCreator`), and that an attempt past its
start has a backend and a role (`Selected`). `WorkedOnce` follows from it: who works
has the row, and a second creator is refused. With it goes `NoTrace`, what a read-only attempt has changed since a clean
snapshot; that no pipeline of a read-only run has more than one role or a coder follows
from the tables of the source (the lemmas on `Backends`).

`AttemptInv` says of each attempt what its place in `run_submit` implies, and is
needed because each of the two properties is about the end of a run and each step
adds to it: the records tell of exactly the first `StagesDone` stages of the
pipeline, each once, in order and well (`RecordsFit`, with `TellsOf`); the check is
behind the attempt exactly past `CheckPlace` (`PlaceFits`); the workflow is in a
state from which the next transition is allowed, in every pipeline
(`WorkflowFits`), so that none is ever refused; an attempt that no other
overlapped is the only one that lives, and the record on disk is its own
(`AloneFits`); what it changed is in its diff once it was checked, and in the
worktree until then (`DiffFits`), which holds because the roles after the check
have no sandbox to write in; and attempts are numbered in order (`NumberFits`).
`CompleteMeansChecked` is what this says of an attempt that succeeded. `RecordKeepsUp`
and the rest of `ReadOnlyLeavesNoTrace` are carried by a second invariant on top of it,
`Kept`: the records only grow, by a success of a role only when its agent returns
(`KeptUp`); and a read-only run that is alone, none of whose helpers failed, finds no
change up to its agent's start, so that any change is its own (`Untouched`). The refinement of `CanopusAgent` maps the attempts of a task to the
processes of its worker by their numbers: a launch is an attempt leaving
`unused`, the branch is taken in `prepare`, an exit is `ok`, `err` or `dead`,
and every other step is a stutter; `NumberFits` is what makes the processes of
one task distinct and `AttemptInv` what makes success an exit from `working`.

`BrokerInv` adds to `DeliveredOrKept` that every consumer has its queue: a lost
consumer's deliveries go back to the queue of its name, and if the queue were not
declared they would be gone. Only consumers hold deliveries, which is why a worker
that drains its channel after it was cut off can acknowledge nothing away.
`BrokerSpec` is the broker's part of the run `queue`. The lemmas say what
`SetToSeq`, `Append`, `Tail` and `\o` do to the set of the elements of a queue.

`SyncInv` says where a command is in its plan: done and todo together are the calls
that `CallsOf` computes, the gates held when it began, and each answer it went on
from was read (`CommandFits`); an item is put on the board after its Issue exists
and gets its status after it is on the board (`BoardFits`), because what is left
to do comes later in the order of the calls; and a validation that succeeded had
every answer it asked for (`ValidationFits`). `SyncFollowsPlan` and
`ValidationPredicts` then compare pure functions of the configuration: the plan,
the calls and the reads. `IntakeSaysWhatItDid` goes over the ways an intake ends.

Assumptions: the named `ASSUME`s of the modules (`TableAssumption`: requested
and discovered ids are disjoint; `HandlerAssumption`, `WorkerAssumption`,
`EuropaAssumption`, `RepositoryAssumption`, `FinalizeAssumption`,
`DeliveryAssumption`, `LowercaseAssumption`: a word is one character and its lower
case a word; `ModeAssumption`, `WordsAssumption`: the programs' own words are
characters; `ProjectsAssumption`: ids end with a word in lower case, paths and requests
are not blank, registered numbers are numbers; `OrderAssumption`,
`SchedulerAssumption`, `BrokerAssumption`: finitely many messages; `SyncAssumption`:
the types of the setups), `~Overlapping` in the theorems that state it, and what
section 2 says of the environment: the lock and the rename work as documented,
branches are not deleted by hand, Europa can read the table (`SafetyWithLoss` and
what follows from it do without), and the wait of Laniakea ends only by an exit or
the timeout.

Only model-checked: the liveness properties (`QueuedIsResolved`, `LedgerRecovers`,
`ApprovedIsDelivered`, `AttemptEnds`, `JobsKeepRunning`; liveness is out of the
prover's reach here) and the violations. Payloads in lines, which Europa never
writes, are in the model and in no theorem.

## 5. What the loss of the table does

`tasks_store` returns an empty list when it cannot read or parse the file, where
the Rust processes return an error and change nothing. A `!run` at that moment
publishes a table of its row alone. `TableLoss` adds that step. The gate, the
meaning of an approval and the quiet of reviewed work hold all the same, in the run
`loss` and for all constants (`SafetyWithLoss`): they rest on snapshots, branches
and history, not on the lost rows. `SeenIsRegistered`
does not: findings the ledger knows are gone and will not be registered again.
`VerdictIsFinal` cannot be asked of a row that is gone.

## 6. Findings

**A partial intake is dropped** (`intake`). `docs/v1-operator-runbook.md:224` says that when Project sync fails after the
Issue was created, Europa preserves the object that names the Issue "so operators
can see the Issue that already exists". Europa calls `work-intake` with
best-effort Project sync; when the sync fails, canopus prints the object with
`ok` false and exits nonzero, `run_canopus_json` returns both, and
`!propose-approve` keeps the error and drops the object. The run `intake` shows
a proposal without a record of the Issue that exists for it; the retry opens
another. The same happens in `!run`, which leaves no task at all.

**A commit may land on the branch of another task** (`overlap`).
`docs/solutions/logic-errors/approval-finalize-without-watch-daemon-2026-05-10.md:91`
says that finalization "commits only on the existing expected task branch". The
branch is looked at some calls of git before `git add -A` and `git commit`. Two
finalizations of one task pass their checks together; the first commits and
leaves the worktree clean, Laniakea starts the next task, which takes its own
branch and begins to write, and the second finalization commits that unfinished
work there, for the first task.

**A failed `git add` is recorded as "no changes"** (`add_fails`). Line 106 of the same
document says of `no_changes` that the "approved task had nothing new to commit".
`post_approval` ignores the exit status of `git add -A`. When it fails, `git commit`
reports "no changes added to commit", which counts as an idempotent no-op; the
record says so, and since that is a last word neither `watch` nor `!finalize`
commits the approved changes afterwards.

## 7. Plan

Done: the pipeline; the delivery of approved work by local commits; the inside of
`canopus submit`; the way of an order and the registry; Project sync and intake; the
queue mode. In the order in which they matter:

1. `Delivery` without the discipline of the operator beyond `ReportsAreTrue`: what a
   process that outlives its timeout alone can spoil; `canopus finalize` by hand, which pushes and writes
   its record without a check; the fallback to records of an older release.
2. Several repositories and tasks of one state directory in `CanopusSubmit`, and its
   composition with `Finalize` in place of the runs of `Delivery`.
3. `mark_processed` of the file data source, which rewrites the file under a lock
   of its own process only, once something calls it.

## 8. Not modelled

The scan of Kepler and the classification of requests by Europa are inputs. Prompts,
token usage, the files of the artifact store, the wording of comments, commits and
pull requests, conversations and routing are text that no other part decides on.
`status`, `artifacts`, `worktree list`, `!projects` and `!show` print what they find;
of them, only where `!show` looks is modelled. `mark_processed`, `get_task`,
`check_task_status` and the trait's `update_status` and `delete` have no caller. The
argument parsers of `watch` and `finalize` follow that of `submit` and are left out, as
are payloads in lines where Europa writes JSON only (the reader of them is modelled,
no run writes one). In `Delivery`, runs on a read-only copy (they take no branch),
second runs of a task, push and pull request, and the delivery-gate report are
left out. In
`CanopusSubmit` a file that could not be written is as it was: half-written files are not
modelled.
