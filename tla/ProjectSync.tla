---------------------------- MODULE ProjectSync ----------------------------
(***************************************************************************)
(* Canopus and a GitHub Project: the last stage of `canopus submit`, which *)
(* plans, validates or makes the Project's item, `canopus work-intake`,    *)
(* which creates an Issue and puts it on the board, and `canopus           *)
(* project-register`.  One command runs after the other.                   *)
(*                                                                         *)
(* Calls to GitHub are external.  A call may fail before or after it took  *)
(* effect, and GitHub may refuse a mutation: the answer is then a success  *)
(* whose data is null.                                                     *)
(***************************************************************************)
EXTENDS Integers

CONSTANTS
  Setups,       \* [config, env, github]: what the commands find
  MaxCommands,  \* bound on the commands
  MaxFaults     \* bound on the calls that fail and the mutations refused

VARIABLES
  setup,        \* the member of Setups of this behaviour
  commands,     \* how many commands were given
  cmd,          \* the command that runs
  output,       \* what the last one printed
  issues,       \* the work issues that exist: numbers of their commands
  board,        \* items of the Project; 0 is the item of the configured issue
  status,       \* the items whose status was set
  validated,    \* a validate-read-only run has succeeded (history)
  faults

vars == <<setup, commands, cmd, output, issues, board, status, validated, faults>>

config == setup.config
env == setup.env

(* A config says how the Project is named, which item or issue is meant, and
   what the status is: the ids of its field and option, and the option's name,
   which the plain status may stand in for.  An argument may be blank.     *)
Identities == {"id", "url", "parts", "unreadable", "incomplete", "absent"}
Texts == {"none", "blank", "given"}
Configs ==
  [identity : Identities, content : {"none", "number", "repo", "issue"},
   item : Texts, field : Texts, option : Texts, name : Texts]

Modes == {"dry-run-offline", "validate-read-only", "mutate-live"}
Policies == {"off", "best-effort", "required"}

\* The gates of a Project mutation, in canopus and in its client.
ProjectGates == {"github", "live", "project"}

\* What there is to find on GitHub: the Project, the issue, the status option.
GitHub == [project : BOOLEAN, content : BOOLEAN, option : BOOLEAN]

Environments ==
  [gates : SUBSET {"github", "live", "project", "issue", "registration"},
   token : BOOLEAN, mock : BOOLEAN, mockFail : BOOLEAN]

ASSUME SyncAssumption ==
  /\ Setups \subseteq [config : Configs, env : Environments, github : GitHub]
  /\ MaxCommands \in Nat /\ MaxFaults \in Nat

project_identity(c) == c.identity \in {"id", "url", "parts"}

-----------------------------------------------------------------------------
(* The plan, and the calls that are made. *)

\* Mutant: a mutation has only to be enabled in general.
gates_without_project(mode, gates) ==
  CASE mode = "mutate-live"        -> {"github", "live"} \subseteq gates
    [] mode = "validate-read-only" -> "github" \in gates
    [] OTHER                       -> TRUE

enforce_project_gates(mode, gates) ==
  CASE mode = "mutate-live"        -> ProjectGates \subseteq gates
    [] mode = "validate-read-only" -> "github" \in gates
    [] OTHER                       -> TRUE

\* build_project_sync_plan: may there be a plan, and its operations.
CanPlan(c, mode, gates) ==
  /\ enforce_project_gates(mode, gates)
  /\ project_identity(c)
  /\ c.item = "none" => c.content = "issue"

Mutations == {"add", "update"}

Planned(c, mode) ==
  {op \in {"lookup", "content", "fields", "add", "update"} :
     /\ op = "lookup" => c.identity # "id"
     /\ op \in {"content", "add"} => c.item = "none"
     /\ op = "fields" => c.field = "none"
     /\ op \in Mutations => mode # "validate-read-only"}

Lookup(c) == IF c.identity = "id" THEN {} ELSE {"lookup"}

\* The calls of sync_project_v2 in mutate-live; a blank id is as good as none here.
sync_project_v2(c) ==
  Lookup(c) \cup {"update"}
    \cup (IF c.item = "given" THEN {} ELSE {"content", "add"})
    \cup (IF c.field = "given" /\ c.option = "given" THEN {} ELSE {"fields"})

\* Mutant: read-only validation does not look at field and option.
validate_lookups_only(c) ==
  Lookup(c) \cup (IF c.item = "none" THEN {"content"} ELSE {})

validate_project_v2_read_only(c) ==
  Lookup(c) \cup (IF c.item = "none" THEN {"content"} ELSE {})
    \cup (IF c.field = "none" \/ (c.option = "none" /\ c.name # "none") THEN {"fields"} ELSE {})

CallsOf(c, mode) ==
  IF mode = "mutate-live" THEN sync_project_v2(c) ELSE validate_project_v2_read_only(c)

\* Mutant: the status is set before the item is on the board.
update_before_add(op) ==
  CASE op = "issue"  -> 0 [] op = "lookup" -> 1 [] op = "content" -> 2
    [] op = "update" -> 3 [] op = "fields" -> 4 [] op = "add"     -> 5

\* The order in which they are made, by either of the two and by an intake.
Place(op) ==
  CASE op = "issue"  -> 0 [] op = "lookup" -> 1 [] op = "content" -> 2
    [] op = "add"    -> 3 [] op = "fields" -> 4 [] op = "update"  -> 5

\* Does the answer to op have what is read from it?  Every call for the Project
\* needs it to exist, also one that is named by id.  Validation does not read the
\* content; an update's answer is never read.
Reads(op, mode, c) ==
  CASE op \in {"lookup", "add"} -> setup.github.project
    [] op = "content" -> mode = "mutate-live" => setup.github.content
    [] op = "fields"  -> setup.github.project /\ setup.github.option /\ c.name = "given"
    [] OTHER          -> TRUE

-----------------------------------------------------------------------------

Idle == [kind |-> "none"]
NoOutput == [ok |-> TRUE, issue |-> 0, sync |-> "none"]

Init ==
  /\ setup \in Setups
  /\ commands = 0 /\ cmd = Idle /\ output = NoOutput
  /\ issues = {} /\ board = {} /\ status = {} /\ validated = FALSE /\ faults = 0

\* A new command, with its number as that of the issue it may create.
Begins(c) ==
  /\ cmd = Idle /\ commands < MaxCommands /\ commands' = commands + 1
  /\ cmd' = c
  /\ output' = NoOutput
  /\ UNCHANGED <<setup, issues, board, status, validated, faults>>

Ends(result) ==
  /\ cmd' = Idle /\ output' = result
  /\ validated' = (validated \/ (cmd.mode = "validate-read-only" /\ result.ok))

\* A command that ended before it did anything.
EndsAtOnce(result) ==
  /\ cmd = Idle /\ commands < MaxCommands /\ commands' = commands + 1
  /\ output' = result
  /\ UNCHANGED <<setup, cmd, issues, board, status, validated, faults>>

Error == [NoOutput EXCEPT !.ok = FALSE]

Fault == faults < MaxFaults /\ faults' = faults + 1

-----------------------------------------------------------------------------
(* canopus submit. *)

github_project_sync_requested == config.identity # "absent" \/ config.item # "none"

NothingToAdd == config.item = "none" /\ config.content \in {"none", "repo"}

\* github_project_sync_artifact.
Sync(mode) ==
  LET start == [kind |-> "sync", mode |-> mode, config |-> config, item |-> 0, done |-> {},
                todo |-> CallsOf(config, mode)]
  IN /\ github_project_sync_requested
     /\ CASE mode = "dry-run-offline" ->
               EndsAtOnce(IF NothingToAdd \/ CanPlan(config, mode, env.gates)
                          THEN NoOutput ELSE Error)
          [] mode # "dry-run-offline"
               /\ (NothingToAdd \/ ~CanPlan(config, mode, env.gates) \/ ~env.token) ->
               EndsAtOnce(Error)
          [] OTHER -> Begins(start)

-----------------------------------------------------------------------------
(* canopus work-intake. *)

\* The config of an intake, from the registration: what is blank there is absent,
\* and the issue is the one it creates.
Registered(c) ==
  LET text(t) == IF t = "given" THEN t ELSE "none"
  IN [c EXCEPT !.item = "none", !.content = "issue", !.field = text(@), !.option = text(@),
               !.name = text(@)]

\* project_identity_present and status_target_present; a URL is not read.
missing_project_sync_requirements ==
  \/ ~(project_identity(config) \/ config.identity = "unreadable")
  \/ "given" \notin {config.name, config.option}
  \/ ~(ProjectGates \subseteq env.gates)

preflight_fails(policy) == policy = "required" /\ missing_project_sync_requirements

\* What is checked before the Issue is created, and the Issue.
work_intake(policy) ==
  LET refused == \/ ~({"github", "live", "issue"} \subseteq env.gates)
                 \/ config.content \in {"none", "number"}
                 \/ preflight_fails(policy)
                 \/ ~(env.mock \/ env.token)
      intake == [kind |-> "intake", mode |-> "mutate-live", policy |-> policy, done |-> {},
                 config |-> Registered(config), item |-> commands + 1, todo |-> {"issue"}]
  IN IF refused THEN EndsAtOnce(Error) ELSE Begins(intake)

Reports(ok, sync) == [ok |-> ok, issue |-> cmd.item, sync |-> sync]

\* Mutant: a failed sync is an error like any other.
partial_as_error == Error

\* An error of the sync leaves an intake whose Issue exists with partial output.
Failed ==
  IF cmd.kind = "intake" /\ "issue" \in cmd.done THEN Reports(FALSE, "failed") ELSE Error

Succeeded ==
  IF cmd.kind = "intake" THEN Reports(TRUE, "succeeded") ELSE [NoOutput EXCEPT !.sync = "succeeded"]

\* project_sync_status: what is left to do once the Issue has its number.
AfterIssue ==
  LET skipped == \/ cmd.policy = "off"
                 \/ cmd.policy = "best-effort" /\ missing_project_sync_requirements
      fails == env.mockFail \/ (~env.mock /\ ~CanPlan(cmd.config, "mutate-live", env.gates))
  IN \/ skipped /\ Ends(Reports(TRUE, "skipped"))
     \/ ~skipped /\ fails /\ Ends(Reports(FALSE, "failed"))
     \/ ~skipped /\ ~fails /\ env.mock /\ Ends(Succeeded)
     \/ /\ ~skipped /\ ~fails /\ ~env.mock
        /\ cmd' = [cmd EXCEPT !.todo = sync_project_v2(cmd.config), !.done = {"issue"}]
        /\ UNCHANGED <<output, validated>>

-----------------------------------------------------------------------------
(* The calls, of either command. *)

Calling == cmd # Idle /\ cmd.todo # {}
Op == CHOOSE op \in cmd.todo : \A other \in cmd.todo : Place(op) <= Place(other)

\* Validation of ids only calls nobody.
NothingToCall ==
  /\ cmd # Idle /\ cmd.todo = {}
  /\ Ends(Succeeded)
  /\ UNCHANGED <<setup, commands, issues, board, status, faults>>

\* What a call does to GitHub: nothing to a Project that does not exist.
Effect ==
  /\ issues' = IF Op = "issue" /\ ~env.mock THEN issues \cup {cmd.item} ELSE issues
  /\ board' = IF Op = "add" /\ setup.github.project THEN board \cup {cmd.item} ELSE board
  /\ status' = IF Op = "update" /\ setup.github.project THEN status \cup {cmd.item} ELSE status

NoEffect == UNCHANGED <<issues, board, status>>

\* The next call, or the end.
Continues ==
  \/ Op = "issue" /\ AfterIssue
  \/ Op # "issue" /\ cmd.todo = {Op} /\ Ends(Succeeded)
  \/ /\ Op # "issue" /\ cmd.todo # {Op}
     /\ cmd' = [cmd EXCEPT !.todo = @ \ {Op}, !.done = @ \cup {Op}]
     /\ UNCHANGED <<output, validated>>

\* project_content_lookup_inputs, for a blank item.
Prepared == Op = "content" => cmd.config.content = "issue"

Unprepared ==
  /\ Calling /\ ~Prepared
  /\ Ends(Failed) /\ NoEffect
  /\ UNCHANGED <<setup, commands, faults>>

Answered ==
  /\ Calling /\ Prepared
  /\ IF Reads(Op, cmd.mode, cmd.config)
     THEN Effect /\ Continues ELSE NoEffect /\ Ends(Failed)
  /\ UNCHANGED <<setup, commands, faults>>

\* Refused: the data is null.
Refused ==
  /\ Calling /\ Prepared /\ Op \in Mutations /\ Fault
  /\ NoEffect
  /\ IF Op = "update" THEN Continues ELSE Ends(Failed)
  /\ UNCHANGED <<setup, commands>>

\* The call fails, or its answer is lost; a mocked Issue needs no call.
CallFails(takesEffect) ==
  /\ Calling /\ Prepared /\ ~(Op = "issue" /\ env.mock) /\ Fault
  /\ IF takesEffect THEN Effect ELSE NoEffect
  /\ Ends(Failed)
  /\ UNCHANGED <<setup, commands>>

\* project-register: only its mock exists.
project_register ==
  EndsAtOnce(IF {"github", "live", "registration", "project"} \subseteq env.gates /\ env.mock
             THEN NoOutput ELSE Error)

Next ==
  \/ \E mode \in Modes : Sync(mode)
  \/ \E policy \in Policies : work_intake(policy)
  \/ project_register
  \/ NothingToCall \/ Unprepared \/ Answered \/ Refused
  \/ \E takesEffect \in BOOLEAN : CallFails(takesEffect)

Spec == Init /\ [][Next]_vars

-----------------------------------------------------------------------------

(* What a sync changes on GitHub was in its plan, behind the gates the plan is
   behind, unless the item's id is blank, and a sync that succeeds has carried
   out its plan: the plan that is shown to the user and the calls are two
   pieces of code (client.rs 168-275, 529-641). *)
SyncFollowsPlan ==
  Calling /\ Op # "issue" =>
    LET planned == Planned(cmd.config, cmd.mode)
        calls == cmd.done \cup cmd.todo
    IN /\ calls \cap Mutations # {} => ProjectGates \subseteq env.gates
       /\ cmd.config.item # "blank" =>
            /\ calls \cap Mutations \subseteq planned
            /\ planned \subseteq calls

\* validate-read-only leaves the Project's fields alone.
FieldsUnseen(c) == c.field # "none" /\ (c.option # "none" \/ c.name = "none")

\* What validate-read-only does not look at: whether the issue exists, and an item
\* id that is blank; a Project named by id, and field and option that are blank or
\* absent, unless it asks for the fields.
NotLookedAt(c) ==
  \/ c.item = "none" /\ ~setup.github.content
  \/ c.item = "blank" /\ ~(c.content = "issue" /\ setup.github.content)
  \/ /\ FieldsUnseen(c)
     /\ \/ c.identity = "id" /\ ~setup.github.project
        \/ /\ ~(c.field = "given" /\ c.option = "given")
           /\ ~(c.name = "given" /\ setup.github.option)

(* A live sync does not fail on a configuration that validation has accepted,
   but for the few things validation does not look at, as long as GitHub
   answers (client.rs 168-319, 679-813). *)
ValidationPredicts ==
  Calling /\ cmd.kind = "sync" /\ cmd.mode = "mutate-live" /\ validated =>
    \/ NotLookedAt(config)
    \/ Prepared /\ Reads(Op, cmd.mode, config)

Calls == {"issue", "lookup", "content", "add", "fields", "update"}

Commands ==
  [kind : {"sync"}, mode : {"validate-read-only", "mutate-live"}, config : Configs,
   item : {0}, done : SUBSET Calls, todo : SUBSET Calls]
    \cup [kind : {"intake"}, mode : {"mutate-live"}, policy : Policies, config : Configs,
          item : 1 .. MaxCommands, done : SUBSET Calls, todo : SUBSET Calls]

SyncTypeOK ==
  /\ setup \in Setups /\ commands \in 0 .. MaxCommands
  /\ cmd = Idle \/ cmd \in Commands
  /\ issues \subseteq 1 .. MaxCommands
  /\ board \subseteq 0 .. MaxCommands /\ status \subseteq 0 .. MaxCommands
  /\ validated \in BOOLEAN /\ faults \in 0 .. MaxFaults

\* A command, and how far it is.  An intake first makes its Issue; the calls for
\* the Project are the plan's, behind its gates, and the answers were read.
CommandFits ==
  cmd # Idle =>
    /\ cmd.kind = "sync" => cmd.config = config /\ "issue" \notin cmd.done \cup cmd.todo
    /\ cmd.kind = "intake" =>
         /\ cmd.config = Registered(config)
         /\ cmd.todo # {} /\ ("issue" \in cmd.done <=> "issue" \notin cmd.todo)
         /\ "issue" \in cmd.done => cmd.item \in issues
    /\ IF "issue" \in cmd.todo THEN cmd.todo = {"issue"} /\ cmd.done = {}
       ELSE /\ CanPlan(cmd.config, cmd.mode, env.gates)
            /\ (cmd.done \ {"issue"}) \cup cmd.todo = CallsOf(cmd.config, cmd.mode)
            /\ cmd.done \cap cmd.todo = {}
            /\ \A op \in cmd.done : Reads(op, cmd.mode, cmd.config)

\* The Project has the items it was told of.
BoardFits ==
  /\ cmd # Idle /\ cmd.kind = "intake" =>
       /\ "add" \in cmd.done => cmd.item \in board
       /\ "update" \in cmd.done => cmd.item \in status \/ faults > 0
  /\ board \ {0} \subseteq issues /\ status \ {0} \subseteq board

\* A validation that succeeded had a plan and read every answer it asked for.
ValidationFits ==
  validated =>
    /\ CanPlan(config, "validate-read-only", env.gates)
    /\ \A op \in validate_project_v2_read_only(config) :
         Reads(op, "validate-read-only", config)

(* A command's calls are those of its plan, behind the plan's gates; only Issues
   that exist are on the board, and only what is on the board has its status set,
   but for the configured item; and a validation that succeeded read all it asked
   for (client.rs 168-319, work_intake.rs 26-55, 273-378). *)
SyncInv == SyncTypeOK /\ CommandFits /\ BoardFits /\ ValidationFits

(* An Issue that an intake created is named in what it prints, be it success or
   partial failure, unless the answer with its number was lost; what says that
   the Issue is on the board is right, and under `required` nothing else is a
   success (work_intake.rs 10-60, 180-192, 273-378). *)
IntakeSaysWhatItDid ==
  [][cmd # Idle /\ cmd' = Idle /\ cmd.kind = "intake" =>
       /\ cmd.item \in issues' =>
            output'.issue = cmd.item \/ (Op = "issue" /\ faults' > faults)
       /\ output'.sync = "succeeded" /\ ~env.mock =>
            cmd.item \in board' /\ (cmd.item \in status' \/ faults' > 0)
       /\ output'.ok /\ cmd.policy = "required" => output'.sync = "succeeded"]_vars
=============================================================================
