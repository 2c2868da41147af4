----------------------------- MODULE MCPipeline -----------------------------
(***************************************************************************)
(* Values for model checking Pipeline.  The runs share the module; each    *)
(* cfg chooses which tasks, workers and slots there are and what the tasks *)
(* ask for.                                                                *)
(***************************************************************************)
EXTENDS TableLoss, TLC

CONSTANTS r1, d1, w1, w2, s1, s2

\* A finding of Kepler, to be fixed by canopus.
HandlerFix == d1 :> "implement"

\* A !run on the planning channel beside a finding.
HandlerPlanAndFix == r1 :> "readonly" @@ d1 :> "implement"

\* A !run on the development channel beside a finding of Hubble's kind.
HandlerDevelopAndNews == r1 :> "implement" @@ d1 :> "news"

=============================================================================
