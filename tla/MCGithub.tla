----------------------------- MODULE MCGithub -----------------------------
(***************************************************************************)
(* Every configuration with all gates open, and some configurations with   *)
(* each gate closed, without a token, and with the mocks.                  *)
(***************************************************************************)
EXTENDS ProjectSync

Gates == ProjectGates \cup {"issue", "registration"}

Env(gates, token, mock, mockFail) ==
  [gates |-> gates, token |-> token, mock |-> mock, mockFail |-> mockFail]

Found == [project |-> TRUE, content |-> TRUE, option |-> TRUE]

GitHubs ==
  {Found, [Found EXCEPT !.project = FALSE], [Found EXCEPT !.content = FALSE],
   [Found EXCEPT !.option = FALSE]}

Live == Env(Gates, TRUE, FALSE, FALSE)

Envs ==
  {Env(Gates \ {g}, TRUE, FALSE, FALSE) : g \in Gates}
    \cup {Env(Gates, token, mock, mockFail) : token, mock, mockFail \in BOOLEAN}

Plain ==
  {c \in Configs : c.identity \in {"url", "unreadable"} /\ c.item # "blank"
                    /\ c.content = "issue" /\ c.field = "none" /\ c.option = "none"}

MCSetups ==
  [config : Configs, env : {Live}, github : GitHubs]
    \cup [config : Plain, env : Envs, github : {Found}]
=============================================================================
