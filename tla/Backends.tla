------------------------------ MODULE Backends ------------------------------
(***************************************************************************)
(* What `canopus submit` decides before it works: the capability of a run, *)
(* the backend that gets it, the pipeline of roles, the helpers before a   *)
(* role, and the workflow states a run goes through.                       *)
(*                                                                         *)
(* An order is [role_mode, type, request, ...]; its request is a sequence  *)
(* of lines [fence, names]: does the line open or close a code block, and  *)
(* the backends its backend= words name.                                   *)
(***************************************************************************)
EXTENDS SequencesExt

CONSTANTS
  Registry,     \* [backends, defaults, overrides]; see Valid
  LegacyRuntime,\* CANOPUS_AGENT_RUNTIME: mock, codex, command, or something else
  HelperConfig  \* [mode, policy]: the pre-run helper variables

Capabilities == {"plan", "implement", "review"}

NoName == "none"

\* legacy_defaults: one backend, for everything.
legacy_defaults ==
  [backends  |-> [n \in {"legacy"} |-> [kind |-> "legacy", argv |-> FALSE, timeout |-> FALSE]],
   defaults  |-> [c \in Capabilities |-> "legacy"],
   overrides |-> [c \in Capabilities |-> {"legacy"}]]

\* validate: a command backend has a command, and every name that is
\* referred to is registered.
validate(registry) ==
  /\ DOMAIN registry.backends # {}
  /\ \A n \in DOMAIN registry.backends :
       registry.backends[n].kind = "command" => registry.backends[n].argv
  /\ \A c \in Capabilities :
       registry.overrides[c] \cup ({registry.defaults[c]} \ {NoName})
         \subseteq DOMAIN registry.backends

-----------------------------------------------------------------------------
(* Capability and backend. *)

from_role_mode(mode) ==
  CASE mode \in {"planner", "plan"}                                  -> "plan"
    [] mode \in {"agent", "full", "implement", "implementation", "standard"} -> "implement"
    [] mode \in {"reviewer", "review"}                               -> "review"
    [] OTHER                                                         -> NoName

from_task_type(type) ==
  CASE type = "custom:canopus.planner"  -> "plan"
    [] type = "custom:canopus.reviewer" -> "review"
    [] type \in {"custom:canopus.agent", "bug", "security", "test-coverage",
                 "ux-improvement"}      -> "implement"
    [] OTHER                            -> NoName

\* NoName: the two conflict.
resolve_capability(mode, type) ==
  LET asked == {from_role_mode(mode), from_task_type(type)} \ {NoName}
  IN CASE asked = {}                 -> "implement"
       [] \E c \in asked : asked = {c} -> CHOOSE c \in asked : TRUE
       [] OTHER                      -> NoName

requires_branch(capability) == capability = "implement"

\* The backend= tokens outside code blocks.
Directives(request) ==
  LET Fences(i) == {j \in 1 .. i - 1 : request[j].fence}
      Outside(i) == ~request[i].fence /\ Cardinality(Fences(i)) % 2 = 0
  IN FlattenSeq([i \in DOMAIN request |-> IF Outside(i) THEN request[i].names ELSE <<>>])

\* At most one directive, and a name that can be a name ("" stands for the others).
parse_backend_directive(request) ==
  LET Asked(names) == [ok |-> Len(names) <= 1 /\ "" \notin {names[i] : i \in DOMAIN names},
                       name |-> IF names = <<>> THEN NoName ELSE Head(names)]
  IN Asked(Directives(request))

ensure_override_allowed(capability, name) == name \in Registry.overrides[capability]

default_backend(capability) == Registry.defaults[capability]

\* describe_attempt: what the record of a failed selection says was asked.
describe_attempt(order) ==
  LET directive == parse_backend_directive(order.request)
  IN [capability |-> resolve_capability(order.role_mode, order.type),
      requested  |-> IF directive.ok THEN directive.name ELSE NoName]

NoSelection == [ok |-> FALSE]

BackendSelection(capability, name) ==
  IF name \notin DOMAIN Registry.backends THEN NoSelection
  ELSE [ok |-> TRUE, capability |-> capability, backend |-> name,
        kind |-> Registry.backends[name].kind, timeout |-> Registry.backends[name].timeout,
        preparation |-> IF requires_branch(capability) THEN "branch" ELSE "readonly"]

\* The backend that is asked for, where it may be, or the default one.
SelectBackend(capability, directive) ==
  CASE capability = NoName \/ ~directive.ok -> NoSelection
    [] capability # NoName /\ directive.ok /\ directive.name = NoName ->
         BackendSelection(capability, default_backend(capability))
    [] OTHER -> IF ensure_override_allowed(capability, directive.name)
                THEN BackendSelection(capability, directive.name) ELSE NoSelection

resolve(order) ==
  SelectBackend(resolve_capability(order.role_mode, order.type),
                parse_backend_directive(order.request))

-----------------------------------------------------------------------------
(* Runtimes. *)

\* The legacy backend is whatever CANOPUS_AGENT_RUNTIME names; NoName: none.
selected_runtime == IF LegacyRuntime \in {"mock", "codex", "command"} THEN LegacyRuntime ELSE NoName

selected_runtime_for_backend(selection) ==
  CASE selection.kind = "legacy"  -> selected_runtime
    [] selection.kind = "command" -> "plugin"
    [] OTHER                      -> selection.kind

\* Mutant: a tester may write, after the check.
sandbox_for_testers(role) ==
  IF role \in {"coder", "test_writer", "tester"} THEN "workspace-write" ELSE "read-only"

\* Codex gets a sandbox that lets it write, or one that does not.
sandbox_for_role(role) ==
  IF role \in {"coder", "test_writer"} THEN "workspace-write" ELSE "read-only"

\* Where an agent may write: nowhere, its working directory, or anywhere.
Reach(runtime, role) ==
  CASE runtime = "mock"  -> IF role = "coder" THEN "directory" ELSE "nowhere"
    [] runtime = "codex" -> IF sandbox_for_role(role) = "workspace-write"
                            THEN "directory" ELSE "nowhere"
    [] OTHER             -> "anywhere"

\* Only a plugin with a timeout is stopped by canopus; a mock agent ends by itself.
AgentEnds(runtime, selection) ==
  \/ runtime = "mock"
  \/ runtime = "plugin" /\ selection.timeout

\* The artifact an agent's answer is kept as.
artifact_kind_for_role(runtime, role) ==
  CASE runtime \in {"mock", "codex"} /\ role = "planner"  -> "plan"
    [] runtime \in {"mock", "codex"} /\ role = "reviewer" -> "review"
    [] OTHER                                              -> "log"

-----------------------------------------------------------------------------
(* Pipelines, helpers, workflow. *)

agent_roles(pipeline) ==
  CASE pipeline = "PlannerOnly"   -> <<"planner">>
    [] pipeline = "ReviewerOnly"  -> <<"reviewer">>
    [] pipeline = "DevMode"       -> <<"analyst", "planner", "coder", "reviewer">>
    [] pipeline = "BugFix"        -> <<"analyzer", "coder", "tester">>
    [] pipeline = "SecurityAudit" -> <<"security_auditor", "coder", "reviewer">>
    [] pipeline = "TestWriter"    -> <<"analyzer", "test_writer">>
    [] pipeline = "UXImprovement" -> <<"researcher", "planner", "reviewer">>

PipelineOfType(type) ==
  CASE type = "bug"            -> "BugFix"
    [] type = "security"       -> "SecurityAudit"
    [] type = "test-coverage"  -> "TestWriter"
    [] type = "ux-improvement" -> "UXImprovement"
    [] OTHER                   -> "DevMode"

pipeline_for_selection(selection, type) ==
  CASE selection.capability = "plan"      -> "PlannerOnly"
    [] selection.capability = "review"    -> "ReviewerOnly"
    [] selection.capability = "implement" -> PipelineOfType(type)

\* "off" (also "", 0, false, no), "repo-explore" or "mock"; advisory or fail-fast.
HelperConfigReads ==
  /\ HelperConfig.mode \in {"off", "repo-explore", "mock"}
  /\ HelperConfig.policy \in {"advisory", "fail-fast"}

eligible_role(role) == role \in {"planner", "coder", "reviewer"}

select_pre_run_helpers(role) == HelperConfig.mode # "off" /\ eligible_role(role)

\* transition_to; a move to Failed is never made.
transition_to(from, to) ==
  <<from, to>> \in {<<"Created", "Planned">>, <<"Planned", "Executing">>,
                    <<"Executing", "Checking">>, <<"Checking", "Reviewed">>,
                    <<"Reviewed", "Completed">>}

=============================================================================
