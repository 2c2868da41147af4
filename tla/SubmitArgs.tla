----------------------------- MODULE SubmitArgs -----------------------------
(***************************************************************************)
(* How an order reaches `canopus submit`: Laniakea reads the payload of a  *)
(* task (parse_canopus_metadata), writes a command line                    *)
(* (canopus_submit_args), and canopus reads it back (SubmitArgs::parse)    *)
(* and derives the agenda, whose id names the run.                         *)
(*                                                                         *)
(* A payload is [form, text, fields]: its raw text and what it parses to,  *)
(* a function from keys for a JSON object (values other than strings and   *)
(* numbers left out), a sequence of <<key, value>> for key=value lines.    *)
(***************************************************************************)
EXTENDS RunIdentity

CONSTANTS
  Numbers,          \* the texts that parse as a u64
  ProjectModes,     \* the texts GitHubProjectMode::parse accepts
  NamedTaskTypes    \* the task types other than Custom

\* The modes of a Project sync that change nothing on GitHub.
NonMutatingModes == {<<"dry-run-offline">>, <<"validate-read-only">>}

ASSUME ModeAssumption == NonMutatingModes \subseteq ProjectModes

-----------------------------------------------------------------------------
(* Laniakea: the payload. *)

IssueNumberKeys == <<"github_issue_number", "github_issue", "issue_number">>

\* Lines: the last line of a key wins, and the aliases share one slot.
MetadataOfLines(payload) ==
  LET Slot(key) == CASE key = "prompt" -> "request"
                     [] key \in {"github_issue", "issue_number"} -> "github_issue_number"
                     [] OTHER -> key
  IN FoldLeft(LAMBDA meta, line : Over(Only(Slot(line[1]), Trim(line[2])), meta),
              [request |-> payload.text], payload.fields)

\* JSON: request, else prompt, else title, else the whole payload.
MetadataOfObject(payload) ==
  LET asked == FirstKey(payload.fields, <<"request", "prompt", "title">>)
      found == [request |-> IF asked = NoKey THEN payload.text ELSE payload.fields[asked],
                github_issue_number |->
                  Field(payload.fields, FirstKey(payload.fields, IssueNumberKeys))]
  IN Over(found, payload.fields)

parse_canopus_metadata(payload) ==
  IF payload.form = "json" THEN MetadataOfObject(payload) ELSE MetadataOfLines(payload)

\* Mutant: the worker's own state directory is used for every repository.
StateOfTheWorker(repo, env_state, writable) == env_state

\* The repository's own .canopus when a probe file can be written there.
derive_submit_state(repo, env_state, writable) ==
  IF repo # <<>> /\ writable THEN repo \o <<"/", ".canopus">> ELSE env_state

-----------------------------------------------------------------------------
(* Laniakea: the command line. *)

\* An option is named by the key of its value: --github-project-id by
\* "github_project_id".
Flag(name) == <<"-", "-", name>>

\* Metadata passed on when it is not blank.
OptionalArgs == <<
  "github_issue_url", "github_issue_number", "github_project_id", "github_project_url",
  "github_project_item_id", "github_project_status", "github_project_owner_kind",
  "github_project_owner", "github_project_number", "github_project_status_field_id",
  "github_project_status_field_name", "github_project_status_option_id",
  "github_project_status_option_name", "github_project_mode" >>

push_optional_arg(metadata, key) ==
  LET value == Field(metadata, key)
  IN IF IsBlank(value) THEN <<>> ELSE <<Flag(key), value>>

\* The line, and after it the metadata that is there.
PushedArgs(line, metadata) ==
  LET args[i \in 0 .. Len(OptionalArgs)] ==
        IF i = 0 THEN line
        ELSE args[i - 1] \o push_optional_arg(metadata, OptionalArgs[i])
  IN args

\* TaskType as an argument; a Custom label follows its prefix.
task_type_arg(type) ==
  IF type \in NamedTaskTypes THEN type ELSE <<"custom", ":">> \o type

\* What is always given; repo and state are the worker's own.
RequiredArgs(task, repo, state, role_mode, writable) ==
  LET metadata == parse_canopus_metadata(task.payload)
      payload_repo == Trim(Field(metadata, "repo_path"))
      agenda == Field(metadata, "agenda_id")
  IN << Flag("repo"), IF payload_repo # <<>> THEN payload_repo ELSE repo,
        Flag("state"), derive_submit_state(payload_repo, state, writable),
        Flag("agenda_id"), IF IsBlank(agenda) THEN task.id ELSE agenda,
        Flag("task_id"), task.id,
        Flag("task_type"), task_type_arg(task.type),
        Flag("role_mode"), role_mode,
        Flag("task_status"), task.status,
        Flag("task_created_at"), <<"then">>, Flag("task_updated_at"), <<"now">> >>

\* task is [id, type, status, payload].
canopus_submit_args(task, repo, state, role_mode, writable) ==
  LET metadata == parse_canopus_metadata(task.payload)
      required == RequiredArgs(task, repo, state, role_mode, writable)
  IN PushedArgs(required, metadata)[Len(OptionalArgs)]
       \o << IF IsBlank(metadata["request"]) THEN task.payload.text ELSE metadata["request"] >>

-----------------------------------------------------------------------------
(* canopus: the command line read back. *)

\* Options SubmitArgs::parse takes a value for.
ValuedOptions ==
  {"repo", "state", "task_type", "agenda_id", "task_id", "task_status", "task_created_at",
   "task_updated_at", "role_mode", "github_owner", "github_repo"}
    \cup {OptionalArgs[i] : i \in DOMAIN OptionalArgs}

\* The words the programs put in a command line.
ASSUME WordsAssumption ==
  ValuedOptions \cup {"custom", ".canopus", "then", "now", "Dispatched", "{", "payload", "}",
                      "discord", "Pending", "dry-run-offline", "validate-read-only",
                      "standard", "allow_github_mutation"} \subseteq Characters

\* Options a variable of the environment may set.
VariableOf ==
  [github_owner                      |-> "GITHUB_OWNER",
   github_repo                       |-> "GITHUB_REPO",
   github_project_url                |-> "GITHUB_PROJECT_URL",
   github_project_item_id            |-> "GITHUB_PROJECT_ITEM_ID",
   github_project_number             |-> "GITHUB_PROJECT_NUMBER",
   github_project_id                 |-> "GITHUB_PROJECT_ID",
   github_project_status             |-> "GITHUB_PROJECT_STATUS",
   github_project_owner_kind         |-> "GITHUB_PROJECT_OWNER_KIND",
   github_project_owner              |-> "GITHUB_PROJECT_OWNER",
   github_project_status_field_id    |-> "GITHUB_PROJECT_STATUS_FIELD_ID",
   github_project_status_field_name  |-> "GITHUB_PROJECT_STATUS_FIELD_NAME",
   github_project_status_option_id   |-> "GITHUB_PROJECT_STATUS_OPTION_ID",
   github_project_status_option_name |-> "GITHUB_PROJECT_STATUS_OPTION_NAME",
   github_project_mode               |-> "CANOPUS_GITHUB_PROJECT_MODE"]

\* What the options are when no flag sets them; blank variables count as unset.
EnvOptions(env) ==
  LET set == [option \in {o \in DOMAIN VariableOf : Setting(env, VariableOf[o]) # <<>>} |->
                Setting(env, VariableOf[option])]
      defaults == [repo |-> <<".">>, state |-> <<".canopus">>, role_mode |-> <<"standard">>,
                   github_project_mode |-> <<"dry-run-offline">>]
  IN Over(set, defaults)

\* parse_task_type: a known name, or a label behind custom:
IsTaskTypeArg(text) ==
  \/ text \in NamedTaskTypes
  \/ Len(text) >= 2 /\ text[1] = "custom" /\ text[2] = ":"

ValueFits(option, value) ==
  /\ option \in {"github_issue_number", "github_project_number"} => value \in Numbers
  /\ option = "github_project_mode" => value \in ProjectModes
  /\ option = "task_type" => IsTaskTypeArg(value)

Refused == [ok |-> FALSE]

\* Mutant: words that look like options are taken for words of the request.
NothingIsAnOption(text) == FALSE

LooksLikeOption(text) == Len(text) >= 2 /\ text[1] = "-" /\ text[2] = "-"

\* One argument: the value of the flag before it, a flag, or a part of the
\* request.  A later flag wins.
ReadArg(s, arg) ==
  CASE ~s.ok -> s
    [] s.ok /\ s.flag # NoKey ->
         [s EXCEPT !.flag = NoKey, !.opts = Over(Only(s.flag, arg), @), !.ok = ValueFits(s.flag, arg)]
    [] s.ok /\ s.flag = NoKey /\ LooksLikeOption(arg) ->
         CASE \E f \in ValuedOptions : arg = Flag(f) -> [s EXCEPT !.flag = arg[3]]
           [] arg = Flag("allow_github_mutation")    -> [s EXCEPT !.mutate = TRUE]
           [] OTHER                                  -> [s EXCEPT !.ok = FALSE]
    [] OTHER -> [s EXCEPT !.request = IF @ = <<>> THEN arg ELSE @ \o <<Space>> \o arg]

NothingRead == [ok |-> TRUE, flag |-> NoKey, opts |-> <<>>, request |-> <<>>, mutate |-> FALSE]

\* What is known after each argument.
Reading(args) ==
  LET s[i \in 0 .. Len(args)] == IF i = 0 THEN NothingRead ELSE ReadArg(s[i - 1], args[i])
  IN s

\* The variables that are numbers or modes hold such; else nothing is parsed.
Configured(env) ==
  \A o \in {"github_project_mode", "github_project_number"} \cap DOMAIN EnvOptions(env) :
    ValueFits(o, EnvOptions(env)[o])

\* GitHub may be changed only where the environment enables it.
MayMutate(flags, asked) ==
  /\ "CANOPUS_ENABLE_GITHUB" \in flags
  /\ asked \/ "CANOPUS_ALLOW_GITHUB_MUTATION" \in flags

\* env: the variables that hold texts; flags: the boolean ones that are on.
ParsedArgs(args, env, flags) ==
  LET read == Reading(args)[Len(args)]
  IN IF Configured(env) /\ read.ok /\ read.flag = NoKey /\ ~IsBlank(read.request)
     THEN [ok |-> TRUE, opts |-> Over(read.opts, EnvOptions(env)), request |-> read.request,
           allow_github_mutation |-> MayMutate(flags, read.mutate)]
     ELSE Refused

-----------------------------------------------------------------------------
(* canopus: the agenda of the run. *)

IssueOfArgs(opts) ==
  [owner |-> Field(opts, "github_owner"), repo |-> Field(opts, "github_repo"),
   number |-> Field(opts, "github_issue_number")]

ProjectItemOfArgs(opts) ==
  [url |-> Field(opts, "github_project_url"), item |-> Field(opts, "github_project_item_id")]

Complete(record) == \A k \in DOMAIN record : record[k] # <<>>

\* Where an agenda whose id was given is said to come from.
inferred_source(opts) ==
  CASE Complete(IssueOfArgs(opts))       -> IssueOfArgs(opts)
    [] ~Complete(IssueOfArgs(opts)) /\ Complete(ProjectItemOfArgs(opts)) -> ProjectItemOfArgs(opts)
    [] OTHER                             -> "Cli"

\* Mutant: the task id is left out of the name when an agenda is given.
AgendaWithoutTask(opts) ==
  derive_run_identity(Field(opts, "agenda_id"), <<>>)

derive_agenda(opts) ==
  LET issue == IssueOfArgs(opts)
      item == ProjectItemOfArgs(opts)
      task == Field(opts, "task_id")
  IN CASE ~IsBlank(Field(opts, "agenda_id")) -> derive_run_identity(opts["agenda_id"], task)
       [] IsBlank(Field(opts, "agenda_id")) /\ Complete(issue) ->
            deterministic_agenda_id_for_github_issue(issue.owner, issue.repo, issue.number)
       [] IsBlank(Field(opts, "agenda_id")) /\ ~Complete(issue) /\ Complete(item) ->
            deterministic_agenda_id_for_github_project(item.url, item.item)
       [] OTHER -> derive_run_identity(<<>>, task)

=============================================================================
