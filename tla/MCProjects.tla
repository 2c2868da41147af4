----------------------------- MODULE MCProjects -----------------------------
(***************************************************************************)
(* Projects on a small instance: two repositories, one of which has the    *)
(* name a worktree of the other would get, and one category more than      *)
(* there are at the start.                                                 *)
(***************************************************************************)
EXTENDS Projects

CONSTANTS c1, c2, s1, s2

MCLowercase == [w \in {"a", "b", "n", "agenda", "gh", "discord", "t1", "t2", "acme",
                       "demo", "7", "org", "default"} |-> w] @@ ("A" :> "a") @@ ("Demo" :> "demo")

MCCharacters == STRING
MCClock == <<"canopus", "-", "now">>
MCNumbers == {<<"7">>}
MCModes == {<<"dry-run-offline">>, <<"validate-read-only">>, <<"mutate-live">>}
MCTypes == {<<"news-a">>, <<"bug">>}

MCRepos == {<<"a">>, <<"a", "-", "b">>}
MCNewRepos == {<<"n">>}
MCNames == {<<"b">>, <<"n">>}
MCRegistrations == 
  {[github_owner |-> <<"acme">>, github_repo |-> <<"Demo", ".", "A">>,
    github_project_owner_kind |-> <<"org">>, github_project_owner |-> <<"acme">>,
    github_project_number |-> <<"7">>]}
MCTaskTexts == {<<"discord", "-", "t1">>, <<"discord", "-", "t2">>}
MCRequests == {<<"a", " ", "b">>, <<"-", "-", "allow_github_mutation">>}
MCChannel == [label |-> <<"canopus.agent">>, role_mode |-> <<"full">>]
MCEnv == ("GITHUB_OWNER" :> <<"acme">>) @@ ("CANOPUS_GITHUB_PROJECT_MODE" :> <<"dry-run-offline">>)
           @@ ("CANOPUS_STATE" :> <<"env", "/", ".canopus">>)
MCWorkerEnv == [repo |-> <<".">>, state |-> <<"env", "/", ".canopus">>]

SlotSymmetry == Permutations({s1, s2})
=============================================================================
