----------------------------- MODULE MCSubmit -----------------------------
(***************************************************************************)
(* Two attempts, on tasks that go through every pipeline but SecurityAudit,*)
(* which ends as DevMode does, and UXImprovement, which has no coder       *)
(* either, as TestWriter, and every kind of backend, and one whose         *)
(* selection fails.                                                        *)
(***************************************************************************)
EXTENDS CanopusSubmit, TLC

CONSTANTS dev, bug, tests, plan, review, torn, main

MCTasks == {dev, bug, tests, plan, review, torn}

Backend(kind, timeout) == [kind |-> kind, argv |-> kind = "command", timeout |-> timeout]

MCRegistry ==
  [backends  |-> ("mock" :> Backend("mock", FALSE)) @@ ("codex" :> Backend("codex", FALSE))
                  @@ ("legacy" :> Backend("legacy", FALSE)) @@ ("cmd" :> Backend("command", TRUE)),
   defaults  |-> [c \in Capabilities |-> IF c = "review" THEN "codex" ELSE "mock"],
   overrides |-> ("plan" :> {"cmd"}) @@ ("implement" :> {"legacy", "codex"}) @@ ("review" :> {})]

Words(names) == [fence |-> FALSE, names |-> names]
Fence == [fence |-> TRUE, names |-> <<>>]

Asked(mode, type, request) ==
  [role_mode |-> mode, type |-> type, request |-> request, upstream |-> FALSE,
   project |-> FALSE, mutate |-> FALSE]

MCOrder ==
  (dev    :> [Asked("full", "custom:canopus.agent", <<Words(<<>>)>>)
                EXCEPT !.mutate = TRUE]) @@
  (bug    :> Asked("agent", "bug", <<Words(<<"codex">>)>>)) @@
  (tests  :> [Asked("standard", "test-coverage", <<Words(<<"legacy">>)>>)
                EXCEPT !.project = TRUE, !.upstream = TRUE]) @@
  (plan   :> Asked("plan", "custom:canopus.planner", <<Words(<<"cmd">>), Fence, Words(<<"codex">>), Fence>>)) @@
  (review :> Asked("review", "custom:canopus.reviewer", <<>>)) @@
  (torn   :> Asked("review", "bug", <<>>))

MCHelperConfig == [mode |-> "repo-explore", policy |-> "fail-fast"]
=============================================================================
