------------------------------ MODULE Projects ------------------------------
(***************************************************************************)
(* Europa's project registry (projects.json), its worktrees, and the tasks *)
(* `!run` writes for a project.  The bot is one thread: a command runs     *)
(* from one await to the next without interruption, and other commands run *)
(* while it waits for Discord or for a canopus process.  The file has no   *)
(* lock: a command that reads it, waits and writes it back writes what it  *)
(* read.                                                                   *)
(*                                                                         *)
(* A record is kept as normalize_project_worktrees would hand it out.      *)
(* Directories are children of one parent and are named by a text.         *)
(***************************************************************************)
EXTENDS SubmitArgs

CONSTANTS
  Categories,   \* ids of Discord categories
  OldCategories,\* those that exist from the start
  Slots,        \* room for commands under way at one time
  Repos,        \* git repositories that exist
  NewRepos,     \* paths !new-project may be given
  Names,        \* worktree names
  Registrations,\* GitHub registrations, as project-register completes them
  TaskTexts,    \* task ids !run may draw
  Requests,     \* request texts
  Channel,      \* label and role mode of the channel !run is used in
  Env,          \* environment variables that hold texts
  LocalOnly,    \* EUROPA_INTAKE_FAILURE_LOCAL_ONLY=1
  MaxCommands,  \* bound on the commands given
  WorkerEnv     \* the worker's own repository and state: [repo, state]

\* Ids are drawn from lower-case hexadecimal digits, paths are absolute, and a
\* request and a registered number are not empty.
ASSUME ProjectsAssumption ==
  /\ OldCategories \subseteq Categories /\ MaxCommands \in Nat
  /\ \A t \in TaskTexts : \E w \in DOMAIN Lowercase :
       Lowercase[w] = w /\ t = <<"discord", "-", w>>
  /\ \A text \in Repos \cup NewRepos \cup Requests : text \in Text /\ ~IsBlank(text)
  /\ Names \subseteq Text /\ Numbers \subseteq Text
  /\ Channel \in [label : Text, role_mode : Text] /\ WorkerEnv \in [repo : Text, state : Text]
  /\ \A v \in DOMAIN Env : Env[v] \in Text
  /\ \A g \in Registrations :
       /\ \A key \in DOMAIN g : g[key] \in Text
       /\ "github_project_number" \in DOMAIN g => g["github_project_number"] \in Numbers

VARIABLES
  projects,     \* projects.json: category -> record
  categories,   \* Discord categories
  dirs,         \* git worktrees on disk: path -> the repository it belongs to
  branches,     \* <<repository, branch>> that git has
  commands,     \* the command in each slot
  tasks,        \* the tasks written: id -> [payload, category, seen]
  given,        \* number of commands given, at most MaxCommands
  promised,     \* what each command told its user, applied one by one (history)
  overlapped    \* categories written while another command was to write back
                \* a registry it had read before (history)

vars == <<projects, categories, dirs, branches, commands, tasks, given, promised, overlapped>>

Idle == [kind |-> "idle"]

\* f with the value v for x.
Put(f, x, v) == [y \in DOMAIN f \cup {x} |-> IF y = x THEN v ELSE f[y]]

-----------------------------------------------------------------------------
(* Records. *)

\* A fresh registration: one worktree, the repository itself.
NewRecord(path, registration) ==
  [repo_path |-> path, base |-> path, active |-> <<"default">>,
   worktrees |-> [name \in {<<"default">>} |-> path], github |-> registration]

\* merge_project_registration also takes repo_path, which is the same path.
merge_project_registration(path, registration) == NewRecord(path, registration)

record_project_worktree(project, name, path) ==
  [project EXCEPT !.worktrees = Put(@, name, path)]

\* Mutant: the payload path stays where it was.
SwitchNameOnly(project, name) == [project EXCEPT !.active = name]

switch_project_worktree(project, name) ==
  [project EXCEPT !.active = name, !.repo_path = project.worktrees[name]]

\* canopus worktree: next to the repository, named after both.
target_path(base, name) == base \o <<"-">> \o name

validate_worktree_name(name) ==
  /\ name # <<>> /\ name[1] \in DOMAIN Lowercase
  /\ \A i \in DOMAIN name : name[i] \in DOMAIN Lowercase \cup {".", "_", "-"}
  /\ \A i \in DOMAIN name : ~(i > 1 /\ name[i] = "." /\ name[i - 1] = ".")

\* A parsed flag group is all or nothing; project-register may add to it.
parse_github_registration_flags(registration) ==
  registration # <<>> =>
    {"github_owner", "github_repo", "github_project_owner_kind", "github_project_owner"}
      \subseteq DOMAIN registration

-----------------------------------------------------------------------------
(* The task !run writes. *)

\* CANOPUS_STATE_PATH comes before the project's own directory.
canopus_state_root_for_project(project) ==
  IF Field(Env, "CANOPUS_STATE_PATH") # <<>>
  THEN Env["CANOPUS_STATE_PATH"] ELSE project.repo_path \o <<"/", ".canopus">>

artifact_paths(root, run) == [root |-> root, run |-> run]

build_v1_job_metadata(run, project) ==
  [canopus_run_id |-> run,
   planned_branch |-> <<"canopus", "/">> \o run,
   worktree_repo_path |-> project.worktrees[project.active],
   artifact_paths |-> artifact_paths(canopus_state_root_for_project(project), run)]

\* Only the modes that change nothing are handed on.
canopus_github_project_mode_metadata ==
  LET mode == Setting(Env, "CANOPUS_GITHUB_PROJECT_MODE")
  IN IF mode \in NonMutatingModes THEN [github_project_mode |-> mode] ELSE <<>>

\* A project's own settings come before the environment's; those of the status
\* field are the environment's alone.
ProjectKeys ==
  {"github_owner", "github_repo", "github_project_id", "github_project_url",
   "github_project_owner_kind", "github_project_owner", "github_project_number"}

FieldKeys ==
  {"github_project_status_field_id", "github_project_status_field_name",
   "github_project_status_option_id", "github_project_status_option_name"}

ProjectSettings(project) ==
  LET own == [key \in ProjectKeys |-> Or(Field(project.github, key), Setting(Env, VariableOf[key]))]
      field == [key \in FieldKeys |-> Setting(Env, VariableOf[key])]
  IN Over(own, field)

\* The texts of build_task_payload; intake is <<>> or the Issue of the work.
\* A setting without a value is written as "", which every reader takes for none.
build_task_payload(task, request, project, intake) ==
  LET agenda == resolve_agenda_id(Env, task, <<intake, project.github>>)
      run == canopus_run_id_for_task(agenda, task)
      order == [request |-> request, repo_path |-> project.repo_path, task_id |-> task,
                agenda_id |-> agenda, canopus_agenda_id |-> agenda, canopus_run_id |-> run,
                role_mode |-> Channel.role_mode, github_project_status |-> <<"Pending">>]
      mode == canopus_github_project_mode_metadata
  IN [form |-> "json", text |-> <<"{", "payload", "}">>,
      fields |-> Over(order, Over(intake, Over(mode, ProjectSettings(project)))),
      job |-> build_v1_job_metadata(run, project)]

-----------------------------------------------------------------------------

Init ==
  /\ projects = <<>> /\ promised = <<>>
  /\ categories = OldCategories
  /\ dirs = [r \in Repos |-> r]
  /\ branches = {}
  /\ commands = [s \in Slots |-> Idle]
  /\ tasks = <<>>
  /\ given = 0
  /\ overlapped = {}

TypeOK ==
  /\ DOMAIN projects \subseteq Categories /\ DOMAIN promised \subseteq Categories
  /\ categories \subseteq Categories
  /\ DOMAIN tasks \subseteq TaskTexts
  /\ commands = [s \in Slots |-> commands[s]]
  /\ \A s \in Slots : commands[s].kind \in {"idle", "register", "new", "create", "run"}
  /\ given \in 0 .. MaxCommands /\ overlapped \subseteq Categories

\* The path tasks are written for is that of the active worktree, and git has
\* the worktrees, in directories that are among paths.
WellFormed(project, paths) ==
  /\ DOMAIN project = {"repo_path", "base", "active", "worktrees", "github"}
  /\ project.base \in paths
  /\ project.active \in DOMAIN project.worktrees
  /\ project.repo_path = project.worktrees[project.active]
  /\ \A name \in DOMAIN project.worktrees : project.worktrees[name] \in paths
  /\ project.github \in Registrations \cup {<<>>}

\* What a command under way has read, and will write.
WellFormedCommand(k, paths) ==
  /\ k.kind \in {"register", "new", "create"} =>
       /\ k.category \in Categories /\ WellFormed(k.record, paths)
       /\ DOMAIN k.seen \subseteq Categories
       /\ \A c \in DOMAIN k.seen : WellFormed(k.seen[c], paths)
  /\ k.kind = "create" =>
       /\ {"kind", "category", "seen", "name", "record", "path"} \subseteq DOMAIN k
       /\ k.name \in Names \ DOMAIN k.record.worktrees
       /\ k.path = <<>> \/ k.path \in paths
  /\ k.kind = "run" =>
       k.task \in TaskTexts /\ k.request \in Requests /\ WellFormed(k.project, paths)

\* A project on GitHub gets an Issue, or the failure of the intake is accepted.
Intakes(project) ==
  IF <<>> \in {Field(project.github, "github_owner"), Field(project.github, "github_repo")}
  THEN {<<>>}
  ELSE {[github_issue_number |-> n] : n \in Numbers} \cup (IF LocalOnly THEN {<<>>} ELSE {})

\* A task is the order a user gave for a project as it was.
IsOrder(t, task, paths) ==
  /\ task.request \in Requests /\ WellFormed(task.project, paths)
  /\ \E intake \in Intakes(task.project) :
       task.payload = build_task_payload(t, task.request, task.project, intake)

(* The registry's paths and git's directories fit, however the commands that
   wait interleave: !run never writes a task for another path than that of the
   active worktree, or for one that does not exist (projects_store.py 35-84,
   europa.py 545-606). *)
RegistryInv ==
  /\ TypeOK
  /\ \A c \in DOMAIN projects : WellFormed(projects[c], DOMAIN dirs)
  /\ \A s \in Slots : WellFormedCommand(commands[s], DOMAIN dirs)
  /\ \A path \in DOMAIN dirs : path \in Text /\ ~IsBlank(path)
  /\ \A t \in DOMAIN tasks : IsOrder(t, tasks[t], DOMAIN dirs)

\* write_projects, with the registry `seen` and the record of category c.
Writes(seen, c, record) == projects' = Put(seen, c, record)

\* A command in one of the slots will write back the registry it has read.
Waits(slots) == \E x \in slots : commands[x].kind \in {"register", "create"}

\* History: the user is told that c was registered anew, while the commands in
\* the other slots wait.
TellsRecord(c, record, others) ==
  /\ promised' = Put(promised, c, record)
  /\ overlapped' = IF Waits(others) THEN overlapped \cup {c} ELSE overlapped \ {c}

\* History: the user is told of a change of what was promised of c.
TellsChange(c, record, others) ==
  /\ promised' = Put(promised, c, record)
  /\ overlapped' = IF Waits(others) THEN overlapped \cup {c} ELSE overlapped

GiveCommand ==
  /\ given < MaxCommands
  /\ given' = given + 1

Begins(s, command) ==
  /\ GiveCommand
  /\ commands[s] = Idle
  /\ commands' = [commands EXCEPT ![s] = command]

Ends(s) == commands' = [commands EXCEPT ![s] = Idle]

\* !register without GitHub flags awaits nothing before it writes.
Register(c, path) ==
  /\ c \in categories /\ path \in DOMAIN dirs
  /\ GiveCommand
  /\ Writes(projects, c, NewRecord(path, <<>>))
  /\ TellsRecord(c, NewRecord(path, <<>>), Slots)
  /\ UNCHANGED <<categories, dirs, branches, commands, tasks>>

RegisterBegins(s, c, path, registration) ==
  /\ c \in categories /\ path \in DOMAIN dirs
  /\ registration # <<>> /\ parse_github_registration_flags(registration)
  /\ Begins(s, [kind |-> "register", category |-> c, seen |-> projects,
                record |-> merge_project_registration(path, registration)])
  /\ UNCHANGED <<projects, categories, dirs, branches, tasks, promised, overlapped>>

\* project-register has answered: the registry read before is written back.
RegisterEnds(s) ==
  /\ commands[s].kind = "register"
  /\ Writes(commands[s].seen, commands[s].category, commands[s].record)
  /\ TellsRecord(commands[s].category, commands[s].record, Slots \ {s})
  /\ Ends(s)
  /\ UNCHANGED <<categories, dirs, branches, tasks, given>>

\* The directory is made and initialised before the first await; a path or a
\* category that is already known is refused.
NewProjectBegins(s, c, path, registration) ==
  /\ c \notin categories /\ \A d \in DOMAIN projects : projects[d].repo_path # path
  /\ \A x \in Slots : commands[x].kind = "new" => commands[x].category # c
  /\ parse_github_registration_flags(registration)
  /\ Begins(s, [kind |-> "new", category |-> c, seen |-> projects,
                record |-> merge_project_registration(path, registration)])
  /\ dirs' = IF path \in DOMAIN dirs THEN dirs ELSE Put(dirs, path, path)
  /\ UNCHANGED <<projects, categories, branches, tasks, promised, overlapped>>

\* create_category and the channels.
CategoryCreated(s) ==
  /\ commands[s].kind = "new" /\ commands[s].category \notin categories
  /\ categories' = categories \cup {commands[s].category}
  /\ UNCHANGED <<projects, dirs, branches, commands, tasks, promised, overlapped, given>>

\* Mutant: the registry read at the start is written back.
NewProjectWritesWhatItRead(s) ==
  /\ commands[s].kind = "new" /\ commands[s].category \in categories
  /\ Writes(commands[s].seen, commands[s].category, commands[s].record)
  /\ TellsRecord(commands[s].category, commands[s].record, Slots \ {s})
  /\ Ends(s)
  /\ UNCHANGED <<categories, dirs, branches, tasks, given>>

\* The registry is read again after the last await.
NewProjectEnds(s) ==
  /\ commands[s].kind = "new" /\ commands[s].category \in categories
  /\ Writes(projects, commands[s].category, commands[s].record)
  /\ TellsRecord(commands[s].category, commands[s].record, Slots \ {s})
  /\ Ends(s)
  /\ UNCHANGED <<categories, dirs, branches, tasks, given>>

\* Registration failed: the category is deleted.
NewProjectRollsBack(s) ==
  /\ commands[s].kind = "new" /\ commands[s].category \in categories
  /\ commands[s].record.github # <<>>
  /\ categories' = categories \ {commands[s].category}
  /\ Ends(s)
  /\ UNCHANGED <<projects, dirs, branches, tasks, promised, overlapped, given>>

CreateBegins(s, c, name) ==
  /\ c \in DOMAIN projects /\ validate_worktree_name(name)
  /\ name \notin DOMAIN projects[c].worktrees
  /\ Begins(s, [kind |-> "create", category |-> c, seen |-> projects, name |-> name,
                record |-> projects[c], path |-> <<>>])
  /\ UNCHANGED <<projects, categories, dirs, branches, tasks, promised, overlapped>>

\* canopus worktree create: git adds a worktree on a new branch of that name.
create_worktree(s) ==
  LET k == commands[s]
      target == target_path(k.record.base, k.name)
      repository == dirs[k.record.base]
  IN /\ k.kind = "create" /\ k.path = <<>>
     /\ target \notin DOMAIN dirs /\ <<repository, k.name>> \notin branches
     /\ dirs' = Put(dirs, target, repository)
     /\ branches' = branches \cup {<<repository, k.name>>}
     /\ commands' = [commands EXCEPT ![s].path = target]
     /\ UNCHANGED <<projects, categories, tasks, promised, overlapped, given>>

\* Canopus has answered: registry and record are those read before.
CreateEnds(s) ==
  LET k == commands[s]
  IN /\ k.kind = "create" /\ k.path # <<>>
     /\ Writes(k.seen, k.category, record_project_worktree(k.record, k.name, k.path))
     /\ TellsChange(k.category, record_project_worktree(promised[k.category], k.name, k.path),
                    Slots \ {s})
     /\ Ends(s)
     /\ UNCHANGED <<categories, dirs, branches, tasks, given>>

\* Any other command that awaits may fail and change nothing more; !new-project
\* may leave its category behind.
CommandFails(s) ==
  /\ \/ commands[s].kind \in {"register", "run"}
     \/ commands[s].kind = "new"
     \/ commands[s].kind = "create" /\ commands[s].path = <<>>
  /\ Ends(s)
  /\ UNCHANGED <<projects, categories, dirs, branches, tasks, promised, overlapped, given>>

\* !worktree switch awaits nothing.
Switch(c, name) ==
  /\ c \in DOMAIN projects
  /\ name \in DOMAIN projects[c].worktrees \ {projects[c].active}
  /\ projects[c].worktrees[name] \in DOMAIN dirs
  /\ GiveCommand
  /\ Writes(projects, c, switch_project_worktree(projects[c], name))
  /\ TellsChange(c, [promised[c] EXCEPT !.active = name,
                                        !.repo_path = projects[c].worktrees[name]], Slots)
  /\ UNCHANGED <<categories, dirs, branches, commands, tasks>>

\* Ids are drawn at random; which one comes first does not matter.
FreshTasks ==
  {t \in TaskTexts \ DOMAIN tasks :
     \A x \in Slots : commands[x].kind = "run" => commands[x].task # t}

\* !run reads the project, then awaits the intake and the thread.
RunBegins(s, c, request) ==
  /\ c \in DOMAIN projects
  /\ FreshTasks # {}
  /\ Begins(s, [kind |-> "run", category |-> c, project |-> projects[c],
                task |-> CHOOSE t \in FreshTasks : TRUE, request |-> request])
  /\ UNCHANGED <<projects, categories, dirs, branches, tasks, promised, overlapped>>

RunAppends(s, intake) ==
  LET k == commands[s]
  IN /\ k.kind = "run" /\ intake \in Intakes(k.project)
     /\ tasks' = Put(tasks, k.task,
                    [payload |-> build_task_payload(k.task, k.request, k.project, intake),
                     category |-> k.category, request |-> k.request, project |-> k.project])
     /\ Ends(s)
     /\ UNCHANGED <<projects, categories, dirs, branches, promised, overlapped, given>>

\* The bot's process ends; what canopus does for it meanwhile it has done.
BotStops ==
  /\ \E s \in Slots : commands[s] # Idle
  /\ commands' = [s \in Slots |-> Idle]
  /\ UNCHANGED <<projects, categories, dirs, branches, tasks, promised, overlapped, given>>

Next ==
  \/ \E c \in Categories, path \in DOMAIN dirs : Register(c, path)
  \/ \E c \in Categories, name \in Names \cup {<<"default">>} : Switch(c, name)
  \/ BotStops
  \/ \E s \in Slots :
       \/ \E c \in Categories :
            \/ \E path \in DOMAIN dirs, g \in Registrations : RegisterBegins(s, c, path, g)
            \/ \E path \in NewRepos, g \in Registrations \cup {<<>>} :
                 NewProjectBegins(s, c, path, g)
            \/ \E name \in Names : CreateBegins(s, c, name)
            \/ \E request \in Requests : RunBegins(s, c, request)
       \/ RegisterEnds(s)
       \/ CategoryCreated(s) \/ NewProjectEnds(s) \/ NewProjectRollsBack(s)
       \/ create_worktree(s) \/ CreateEnds(s)
       \/ CommandFails(s)
       \/ \E intake \in {<<>>} \cup {[github_issue_number |-> n] : n \in Numbers} :
            RunAppends(s, intake)

Spec == Init /\ [][Next]_vars
-----------------------------------------------------------------------------
(* What a task's payload makes of Laniakea, canopus and finalize. *)

\* The command line of the run of task t, as canopus reads it, where GitHub may
\* be changed by whoever asks for it.
Submitted(t, writable) ==
  ParsedArgs(canopus_submit_args([id |-> t, type |-> Channel.label, status |-> <<"Dispatched">>,
                                  payload |-> tasks[t].payload],
                                 WorkerEnv.repo, WorkerEnv.state, Channel.role_mode, writable),
             Env, {"CANOPUS_ENABLE_GITHUB"})

\* finalize-approved, which Europa starts without --state: its own directory is
\* that of the environment, or in the repository of the task.
FinalizeState(repo) ==
  Or(Or(Setting(Env, "CANOPUS_STATE"), Setting(Env, "CANOPUS_STATE_PATH")),
     repo \o <<"/", ".canopus">>)

\* finalize-approved and watch: the payload's repository, probed again.
derive_state_with_source(payload_repo, parsed_state, writable) ==
  IF payload_repo # <<>> /\ writable THEN payload_repo \o <<"/", ".canopus">> ELSE parsed_state

\* _artifact_paths: what !show finds of task t for the project it reads.
ShowFinds(t, project) ==
  LET recorded == tasks[t].payload.job.artifact_paths
  IN {p \in {recorded} : p.root = canopus_state_root_for_project(project)}

(* Every task's order arrives whole at canopus, or not at all: a request that
   begins with two dashes is refused as an unknown argument, never obeyed, and
   so is every order where a variable that should be a number or a mode is not.
   Otherwise request, repository and task are those the user gave
   (custom.rs 86-209, args.rs 409-640). *)
OrderArrivesWhole ==
  \A t \in DOMAIN tasks, writable \in BOOLEAN :
    LET order == Submitted(t, writable)
    IN /\ order.ok <=> ~LooksLikeOption(tasks[t].request) /\ Configured(Env)
       /\ order.ok => /\ order.request = tasks[t].request
                      /\ order.opts["repo"] = Trim(tasks[t].project.repo_path)
                      /\ order.opts["task_id"] = t
                      /\ ~order.allow_github_mutation

(* The run canopus submits, the run Europa announced in the payload with its
   branch, and the run finalize looks for have one name (run_identity.rs,
   payloads.py 254, finalize.rs 205). *)
RunNamesAgree ==
  \A t \in DOMAIN tasks :
    LET fields == tasks[t].payload.fields
        order == Submitted(t, TRUE)
    IN /\ derive_approved_run_id(fields, t) = fields["canopus_run_id"]
       /\ order.ok => derive_agenda(order.opts) = fields["canopus_run_id"]

(* Two tasks never share a run, and so never a branch or a run file, also
   when their Issue is the same. *)
RunsAreDistinct ==
  \A t, u \in DOMAIN tasks :
    t # u => derive_approved_run_id(tasks[t].payload.fields, t)
               # derive_approved_run_id(tasks[u].payload.fields, u)

(* The results of a run are found where submit puts them.  By finalize-approved
   when its probe of the repository's .canopus has the worker's answer: always
   when both succeed, and when both fail as far as it and the worker were given
   one state directory; where they were not, each uses its own, and the results
   are not found.  And by !show when the probe has succeeded, while the project
   is on the worktree the task was written for, its path has no space at an end
   and CANOPUS_STATE_PATH does not send it elsewhere (custom.rs 228-257, args.rs
   40-75, 804-816, finalize.rs 300-321, payloads.py 244-251, 357-410). *)
ResultsAreFound ==
  \A t \in DOMAIN tasks, writable \in BOOLEAN :
    LET order == Submitted(t, writable)
        repo == Trim(tasks[t].payload.fields["repo_path"])
        c == tasks[t].category
    IN order.ok =>
         /\ order.opts["state"] = derive_state_with_source(repo, FinalizeState(repo), writable)
              <=> writable \/ FinalizeState(repo) = WorkerEnv.state
         /\ /\ writable
            /\ "CANOPUS_STATE_PATH" \notin DOMAIN Env /\ c \in DOMAIN projects
            /\ projects[c].repo_path = tasks[t].project.repo_path /\ projects[c].repo_path = repo
            => ShowFinds(t, projects[c])
                 = {[root |-> order.opts["state"], run |-> derive_agenda(order.opts)]}

\* Two registries say the same of category c.
SameRecord(f, g, c) ==
  /\ c \in DOMAIN f <=> c \in DOMAIN g
  /\ c \in DOMAIN f => f[c] = g[c]

(* No registration and no worktree is lost, undone or made up: what the registry
   says of a category is what its users were told, command by command.  Only a
   record that was written while another !register or !worktree create waited,
   which writes back what it has read, may be lost to that command (europa.py
   553-569, 744-758); no !new-project, switch or !run that waits meanwhile ever
   undoes one (europa.py 694). *)
RegistryKeepsPromises ==
  \A c \in Categories \ overlapped : SameRecord(promised, projects, c)

=============================================================================
