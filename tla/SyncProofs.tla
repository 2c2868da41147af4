---------------------------- MODULE SyncProofs ----------------------------
(***************************************************************************)
(* Proofs about the GitHub Project: that a live sync does what its plan    *)
(* says, behind the plan's gates, that read-only validation predicts it,   *)
(* and that an intake says what it did, for any setups, commands, failed   *)
(* calls and refused mutations.                                            *)
(*                                                                         *)
(* A command is between two calls: done and todo together are the calls of *)
(* its plan, the gates were open when it began, and each answer it went on *)
(* from was read.  What is still to come is later in the order of the      *)
(* calls than what was done, so that an item is on the board before its    *)
(* status is set.                                                          *)
(***************************************************************************)
EXTENDS ProjectSync, TLAPS

-----------------------------------------------------------------------------
(* What is read from the constants. *)

LEMMA SetupFits ==
  ASSUME setup \in Setups
  PROVE  /\ config \in Configs /\ env \in Environments /\ setup.github \in GitHub
         /\ config.item \in {"none", "blank", "given"}
         /\ config.content \in {"none", "number", "repo", "issue"}
         /\ config.identity \in Identities
         /\ config.field \in Texts /\ config.option \in Texts /\ config.name \in Texts
BY SyncAssumption DEF config, env, Configs, Texts

\* The config of an intake has the Project, and no item.
LEMMA RegisteredFits ==
  ASSUME NEW c \in Configs
  PROVE  Registered(c) \in Configs /\ Registered(c).item = "none"
<1> DEFINE text(t) == IF t = "given" THEN t ELSE "none"
<1>1. \A t : text(t) \in Texts
  BY DEF Texts
<1> HIDE DEF text
<1>2. Registered(c) = [c EXCEPT !.item = "none", !.content = "issue", !.field = text(c.field),
                                !.option = text(c.option), !.name = text(c.name)]
  BY DEF Registered, text, Configs
<1> QED BY <1>1, <1>2 DEF Configs, Texts

\* A command has only calls that there are.
LEMMA CallsAreCalls ==
  ASSUME NEW c, NEW mode PROVE CallsOf(c, mode) \subseteq Calls \ {"issue"}
BY DEF CallsOf, sync_project_v2, validate_project_v2_read_only, Lookup, Calls

\* The next call is one of those to be made, and the first in order.
LEMMA OpIsFirst ==
  ASSUME cmd.todo \subseteq Calls, cmd.todo # {}
  PROVE  Op \in cmd.todo /\ \A other \in cmd.todo : Place(Op) <= Place(other)
<1>1. \E op \in cmd.todo : \A other \in cmd.todo : Place(op) <= Place(other)
  <2>1. /\ Place("issue") = 0 /\ Place("lookup") = 1 /\ Place("content") = 2
        /\ Place("add") = 3 /\ Place("fields") = 4 /\ Place("update") = 5
    BY DEF Place
  <2>2. CASE "issue" \in cmd.todo
    BY <2>1, <2>2 DEF Calls
  <2>3. CASE "issue" \notin cmd.todo /\ "lookup" \in cmd.todo
    BY <2>1, <2>3 DEF Calls
  <2>4. CASE cmd.todo \cap {"issue", "lookup"} = {} /\ "content" \in cmd.todo
    BY <2>1, <2>4 DEF Calls
  <2>5. CASE cmd.todo \cap {"issue", "lookup", "content"} = {} /\ "add" \in cmd.todo
    BY <2>1, <2>5 DEF Calls
  <2>6. CASE cmd.todo \cap {"issue", "lookup", "content", "add"} = {} /\ "fields" \in cmd.todo
    BY <2>1, <2>6 DEF Calls
  <2>7. CASE cmd.todo = {"update"}
    BY <2>1, <2>7
  <2> QED BY <2>2, <2>3, <2>4, <2>5, <2>6, <2>7 DEF Calls
<1> QED BY <1>1, Zenon DEF Op

\* A running command has these fields.
LEMMA RunningFits ==
  ASSUME SyncTypeOK, cmd # Idle
  PROVE  /\ cmd \in Commands /\ cmd.kind \in {"sync", "intake"}
         /\ cmd.mode \in {"validate-read-only", "mutate-live"} /\ cmd.config \in Configs
         /\ cmd.done \subseteq Calls /\ cmd.todo \subseteq Calls
         /\ cmd.item \in 0 .. MaxCommands
         /\ cmd.kind = "sync" => cmd.item = 0
         /\ cmd.kind = "intake" =>
              /\ cmd.mode = "mutate-live" /\ cmd.policy \in Policies
              /\ cmd.item \in 1 .. MaxCommands
BY SyncAssumption DEF SyncTypeOK, Commands

\* The next call of a command is the first of those that are left.
LEMMA TodoFits ==
  ASSUME SyncTypeOK, Calling
  PROVE  Op \in cmd.todo /\ \A other \in cmd.todo : Place(Op) <= Place(other)
BY RunningFits, OpIsFirst DEF Calling

\* The status of an item is set after it is on the board.
LEMMA AddBeforeUpdate ==
  ASSUME SyncTypeOK, Calling, Op = "update" PROVE "add" \notin cmd.todo
<1>1. "add" \in cmd.todo => Place("update") <= Place("add")
  BY TodoFits
<1> QED BY <1>1 DEF Place

-----------------------------------------------------------------------------
(* The steps, each on its own. *)

LEMMA SyncStarts ==
  ASSUME Init PROVE SyncInv
<1>1. SyncTypeOK
  <2>1. 0 \in 0 .. MaxCommands /\ 0 \in 0 .. MaxFaults
    BY SyncAssumption
  <2> QED BY <2>1 DEF Init, SyncTypeOK
<1>2. CommandFits
  BY DEF Init, CommandFits
<1>3. BoardFits
  BY DEF Init, BoardFits
<1>4. ValidationFits
  BY DEF Init, ValidationFits
<1> QED BY <1>1, <1>2, <1>3, <1>4 DEF SyncInv

\* What a command says of itself does not depend on what is counted or printed.
LEMMA NothingKeeps ==
  ASSUME SyncInv, UNCHANGED <<setup, cmd, issues, board, status, validated, faults>>,
         commands' \in 0 .. MaxCommands
  PROVE  SyncInv'
<1> USE DEF SyncInv
<1>1. config' = config /\ env' = env
  BY DEF config, env
<1>2. SyncTypeOK'
  BY DEF SyncTypeOK
<1>3. CommandFits'
  BY <1>1 DEF CommandFits, CanPlan, CallsOf, Reads
<1>4. BoardFits'
  BY DEF BoardFits
<1>5. ValidationFits'
  BY <1>1 DEF ValidationFits, CanPlan, Reads
<1> QED BY <1>2, <1>3, <1>4, <1>5

LEMMA EndsAtOnceKeeps ==
  ASSUME SyncInv, NEW result, EndsAtOnce(result) PROVE SyncInv'
<1>1. commands' \in 0 .. MaxCommands
  BY SyncAssumption DEF SyncInv, SyncTypeOK, EndsAtOnce
<1> QED BY <1>1, NothingKeeps DEF EndsAtOnce

LEMMA BeginsKeeps ==
  ASSUME SyncInv, NEW c \in Commands, Begins(c),
         c.done = {}, c.kind = "intake" => c.todo = {"issue"},
         c.kind = "sync" =>
           /\ c.config = config /\ c.todo = CallsOf(c.config, c.mode)
           /\ CanPlan(config, c.mode, env.gates),
         c.kind = "intake" => c.config = Registered(config)
  PROVE  SyncInv'
<1> USE DEF SyncInv
<1>1. config' = config /\ env' = env /\ cmd' = c /\ setup' = setup
  BY DEF config, env, Begins
<1>2. UNCHANGED <<issues, board, status, validated, faults>> /\ commands' \in 0 .. MaxCommands
  BY SyncAssumption DEF SyncTypeOK, Begins
<1>3. SyncTypeOK'
  BY <1>1, <1>2 DEF SyncTypeOK
<1>4. c.kind \in {"sync", "intake"}
  BY DEF Commands
<1>5. CommandFits'
  <2>1. CASE c.kind = "sync"
    <3>1. "issue" \notin c.todo
      BY <2>1, CallsAreCalls
    <3> QED BY <1>1, <2>1, <3>1 DEF CommandFits, CanPlan
  <2>2. CASE c.kind = "intake"
    BY <1>1, <2>2 DEF CommandFits
  <2> QED BY <1>4, <2>1, <2>2
<1>6. BoardFits'
  BY <1>1, <1>2 DEF BoardFits
<1>7. ValidationFits'
  BY <1>1, <1>2 DEF ValidationFits, CanPlan, Reads
<1> QED BY <1>3, <1>5, <1>6, <1>7

LEMMA SyncKeeps ==
  ASSUME SyncInv, NEW mode \in Modes, Sync(mode) PROVE SyncInv'
<1> DEFINE start == [kind |-> "sync", mode |-> mode, config |-> config, item |-> 0,
                     done |-> {}, todo |-> CallsOf(config, mode)]
<1>1. CASE \E result : EndsAtOnce(result)
  BY <1>1, EndsAtOnceKeeps
<1>2. CASE Begins(start) /\ mode # "dry-run-offline" /\ CanPlan(config, mode, env.gates)
  <2>1. config \in Configs
    BY SetupFits DEF SyncInv, SyncTypeOK
  <2>2. CallsOf(config, mode) \subseteq Calls
    BY CallsAreCalls
  <2>3. start \in Commands
    BY <1>2, <2>1, <2>2 DEF Commands, Modes
  <2> QED BY <1>2, <2>3, BeginsKeeps
<1>3. \/ \E result : EndsAtOnce(result)
      \/ Begins(start) /\ mode # "dry-run-offline" /\ CanPlan(config, mode, env.gates)
  <2>1. CASE mode = "dry-run-offline"
    BY <2>1 DEF Sync
  <2>2. CASE mode # "dry-run-offline"
                /\ (NothingToAdd \/ ~CanPlan(config, mode, env.gates) \/ ~env.token)
    BY <2>2 DEF Sync
  <2>3. CASE mode # "dry-run-offline"
                /\ ~(NothingToAdd \/ ~CanPlan(config, mode, env.gates) \/ ~env.token)
    BY <2>3 DEF Sync
  <2> QED BY <2>1, <2>2, <2>3
<1> QED BY <1>1, <1>2, <1>3

LEMMA IntakeKeeps ==
  ASSUME SyncInv, NEW policy \in Policies, work_intake(policy) PROVE SyncInv'
<1> DEFINE intake == [kind |-> "intake", mode |-> "mutate-live", policy |-> policy, done |-> {},
                      config |-> Registered(config), item |-> commands + 1,
                      todo |-> {"issue"}]
<1>1. CASE EndsAtOnce(Error)
  BY <1>1, EndsAtOnceKeeps
<1>2. CASE Begins(intake)
  <2>1. Registered(config) \in Configs
    BY SetupFits, RegisteredFits DEF SyncInv, SyncTypeOK
  <2>2. commands + 1 \in 1 .. MaxCommands
    BY <1>2, SyncAssumption DEF SyncInv, SyncTypeOK, Begins
  <2>3. intake \in Commands
    BY <2>1, <2>2 DEF Commands, Calls
  <2> QED BY <1>2, <2>3, BeginsKeeps
<1> QED BY <1>1, <1>2 DEF work_intake

\* A command that ends, whatever it prints: GitHub is as it says, and a
\* validation that counts has read what it asked for.
LEMMA EndKeeps ==
  ASSUME SyncInv, NEW result, cmd # Idle, Ends(result), UNCHANGED <<setup, commands>>,
         faults' \in 0 .. MaxFaults,
         issues' \subseteq 1 .. MaxCommands, board' \subseteq 0 .. MaxCommands,
         status' \subseteq 0 .. MaxCommands, result.ok \in BOOLEAN,
         board' \ {0} \subseteq issues', status' \ {0} \subseteq board',
         cmd.mode = "validate-read-only" /\ result.ok =>
           /\ CanPlan(config, "validate-read-only", env.gates)
           /\ \A op \in validate_project_v2_read_only(config) :
                Reads(op, "validate-read-only", config)
  PROVE  SyncInv'
<1> USE DEF SyncInv
<1>1. config' = config /\ env' = env
  BY DEF config, env
<1>2. cmd' = Idle /\ validated' = (validated \/ (cmd.mode = "validate-read-only" /\ result.ok))
  BY DEF Ends
<1>3. SyncTypeOK'
  BY <1>2 DEF SyncTypeOK
<1>4. CommandFits'
  BY <1>2 DEF CommandFits
<1>5. BoardFits'
  BY <1>2 DEF BoardFits
<1>6. ValidationFits'
  BY <1>1, <1>2 DEF ValidationFits, CanPlan, Reads
<1> QED BY <1>3, <1>4, <1>5, <1>6

\* A failed command is not a success.
LEMMA FailedIsNotOk == Failed.ok = FALSE /\ Failed.ok \in BOOLEAN
BY DEF Failed, Reports, Error, NoOutput

\* When an intake sets the status, its item is on the board of a Project that exists.
LEMMA IntakeHasProject ==
  ASSUME SyncInv, Calling, cmd.kind = "intake", Op \in Mutations,
         Reads(Op, cmd.mode, cmd.config)
  PROVE  /\ setup.github.project
         /\ Op = "update" => "add" \in cmd.done /\ cmd.item \in board
<1>1. SyncTypeOK /\ CommandFits /\ BoardFits /\ cmd # Idle /\ Op \in cmd.todo
  BY TodoFits DEF SyncInv, Calling
<1>2. CASE Op = "add"
  BY <1>2 DEF Reads
<1>3. CASE Op = "update"
  <2>1. "issue" \notin cmd.todo
    BY <1>1, <1>3 DEF CommandFits
  <2>2. cmd.mode = "mutate-live" /\ cmd.config.item = "none"
    BY <1>1, RunningFits, RegisteredFits, SetupFits DEF CommandFits, SyncTypeOK
  <2>3. "add" \in CallsOf(cmd.config, cmd.mode)
    BY <2>2 DEF CallsOf, sync_project_v2
  <2>4. "add" \in cmd.done
    BY <1>1, <1>3, <2>1, <2>3, AddBeforeUpdate DEF CommandFits
  <2>5. Reads("add", cmd.mode, cmd.config) /\ cmd.item \in board
    BY <1>1, <2>1, <2>4 DEF CommandFits, BoardFits
  <2> QED BY <1>3, <2>4, <2>5 DEF Reads
<1> QED BY <1>2, <1>3 DEF Mutations

\* What a call does to GitHub keeps the board one of Issues, and the statuses
\* those of items on the board.
LEMMA EffectFits ==
  ASSUME SyncInv, Calling, Effect \/ NoEffect
  PROVE  /\ issues' \subseteq 1 .. MaxCommands /\ issues \subseteq issues'
         /\ board' \subseteq 0 .. MaxCommands /\ board \subseteq board'
         /\ status' \subseteq 0 .. MaxCommands /\ status \subseteq status'
         /\ board' \ {0} \subseteq issues' /\ status' \ {0} \subseteq board'
<1>1. SyncTypeOK /\ CommandFits /\ BoardFits
  BY DEF SyncInv
<1>2. cmd # Idle /\ Op \in cmd.todo /\ cmd.item \in 0 .. MaxCommands
  BY <1>1, RunningFits, TodoFits DEF Calling
<1>3. CASE NoEffect
  BY <1>1, <1>3 DEF NoEffect, SyncTypeOK, BoardFits
<1>4. CASE Effect /\ Op = "issue"
  <2>1. cmd.kind = "intake"
    BY <1>1, <1>2, <1>4, RunningFits DEF CommandFits
  <2>2. cmd.item \in 1 .. MaxCommands
    BY <1>1, <1>2, <2>1, RunningFits
  <2> QED BY <1>1, <1>4, <2>2 DEF Effect, SyncTypeOK, BoardFits
<1>5. ASSUME cmd.item # 0, Op # "issue" PROVE cmd.kind = "intake" /\ "issue" \in cmd.done
  <2>1. cmd.kind = "intake"
    BY <1>1, <1>2, <1>5, RunningFits
  <2>2. "issue" \notin cmd.todo
    BY <1>1, <1>2, <1>5 DEF CommandFits
  <2> QED BY <1>1, <1>2, <2>1, <2>2 DEF CommandFits
<1>6. CASE Effect /\ Op = "add"
  <2>1. cmd.item # 0 => cmd.item \in issues
    BY <1>1, <1>2, <1>5, <1>6 DEF CommandFits
  <2> QED BY <1>1, <1>2, <1>6, <2>1 DEF Effect, SyncTypeOK, BoardFits
<1>7. CASE Effect /\ Op = "update"
  <2>1. ASSUME cmd.item # 0 PROVE cmd.item \in board
    <3>1. cmd.kind = "intake"
      BY <1>5, <1>7, <2>1
    <3>2. Reads(Op, cmd.mode, cmd.config)
      BY <1>7 DEF Reads
    <3> QED BY <1>7, <3>1, <3>2, IntakeHasProject DEF Mutations
  <2> QED BY <1>1, <1>2, <1>7, <2>1 DEF Effect, SyncTypeOK, BoardFits
<1>8. CASE Effect /\ Op \notin {"issue", "add", "update"}
  BY <1>1, <1>8 DEF Effect, SyncTypeOK, BoardFits
<1> QED BY <1>3, <1>4, <1>6, <1>7, <1>8

LEMMA FailKeeps ==
  ASSUME SyncInv, Calling, Effect \/ NoEffect, Ends(Failed), UNCHANGED <<setup, commands>>,
         faults' \in 0 .. MaxFaults
  PROVE  SyncInv'
BY EffectFits, FailedIsNotOk, EndKeeps DEF Calling

\* A validation that has every answer has read what it asked for.
LEMMA AllRead ==
  ASSUME SyncInv, cmd # Idle, cmd.mode = "validate-read-only", "issue" \notin cmd.todo,
         \A op \in cmd.todo : Reads(op, cmd.mode, cmd.config)
  PROVE  /\ CanPlan(config, "validate-read-only", env.gates)
         /\ \A op \in validate_project_v2_read_only(config) :
              Reads(op, "validate-read-only", config)
<1>1. SyncTypeOK /\ CommandFits
  BY DEF SyncInv
<1>2. cmd.kind = "sync" /\ cmd.config = config
  BY <1>1, RunningFits DEF CommandFits
<1>3. /\ CanPlan(config, "validate-read-only", env.gates)
      /\ (cmd.done \ {"issue"}) \cup cmd.todo = CallsOf(config, "validate-read-only")
      /\ \A op \in cmd.done \cup cmd.todo : Reads(op, "validate-read-only", config)
  BY <1>1, <1>2 DEF CommandFits
<1>4. CallsOf(config, "validate-read-only") = validate_project_v2_read_only(config)
  BY DEF CallsOf
<1> QED BY <1>3, <1>4

\* A command that made its last call.
LEMMA SucceedKeeps ==
  ASSUME SyncInv, cmd # Idle, "issue" \notin cmd.todo,
         \A op \in cmd.todo : Reads(op, cmd.mode, cmd.config),
         \/ Calling /\ (Effect \/ NoEffect)
         \/ NoEffect,
         Ends(Succeeded), UNCHANGED <<setup, commands>>, faults' \in 0 .. MaxFaults
  PROVE  SyncInv'
<1>1. Succeeded.ok \in BOOLEAN
  BY DEF Succeeded, Reports, NoOutput
<1>2. /\ issues' \subseteq 1 .. MaxCommands /\ board' \subseteq 0 .. MaxCommands
      /\ status' \subseteq 0 .. MaxCommands
      /\ board' \ {0} \subseteq issues' /\ status' \ {0} \subseteq board'
  <2>1. CASE Calling /\ (Effect \/ NoEffect)
    BY <2>1, EffectFits
  <2>2. CASE NoEffect
    BY <2>2 DEF NoEffect, SyncInv, SyncTypeOK, BoardFits
  <2> QED BY <2>1, <2>2
<1>3. cmd.mode = "validate-read-only" =>
        /\ CanPlan(config, "validate-read-only", env.gates)
        /\ \A op \in validate_project_v2_read_only(config) :
             Reads(op, "validate-read-only", config)
  BY AllRead
<1> QED BY <1>1, <1>2, <1>3, EndKeeps

\* The next call of the plan: what was done grows by one call, what is left
\* shrinks by it, and the Project has what the call was about.
LEMMA NextCallKeeps ==
  ASSUME SyncInv, Calling, Op # "issue", Reads(Op, cmd.mode, cmd.config),
         \/ Effect /\ faults' = faults
         \/ NoEffect /\ Op = "update" /\ faults' = faults + 1,
         cmd' = [cmd EXCEPT !.todo = @ \ {Op}, !.done = @ \cup {Op}], cmd.todo # {Op},
         UNCHANGED <<setup, commands, validated>>, faults' \in 0 .. MaxFaults
  PROVE  SyncInv'
<1>1. SyncTypeOK /\ CommandFits /\ BoardFits /\ ValidationFits
  BY DEF SyncInv
<1>2. cmd # Idle /\ Op \in cmd.todo /\ "issue" \notin cmd.todo
  BY <1>1, TodoFits DEF Calling, CommandFits
<1>3. /\ cmd \in Commands /\ cmd.kind \in {"sync", "intake"}
      /\ cmd.done \subseteq Calls /\ cmd.todo \subseteq Calls
  BY <1>1, <1>2, RunningFits
<1> DEFINE op == Op
<1> HIDE DEF op
<1>4. cmd' = [cmd EXCEPT !.todo = @ \ {op}, !.done = @ \cup {op}]
  BY DEF op
<1>5. op \in cmd.todo /\ op # "issue" /\ cmd.todo # {op} /\ Reads(op, cmd.mode, cmd.config)
  BY <1>2 DEF op
<1>6. /\ cmd'.todo = cmd.todo \ {op} /\ cmd'.done = cmd.done \cup {op}
      /\ cmd'.kind = cmd.kind /\ cmd'.mode = cmd.mode /\ cmd'.config = cmd.config
      /\ cmd'.item = cmd.item
      /\ cmd' \in Commands
  <2> DEFINE todo == cmd.todo \ {op}
  <2> DEFINE done == cmd.done \cup {op}
  <2>1. todo \subseteq Calls /\ done \subseteq Calls /\ cmd' = [cmd EXCEPT !.todo = todo, !.done = done]
    BY <1>3, <1>4, <1>5 DEF Commands
  <2> HIDE DEF todo, done
  <2>2. /\ cmd'.todo = todo /\ cmd'.done = done
        /\ cmd'.kind = cmd.kind /\ cmd'.mode = cmd.mode /\ cmd'.config = cmd.config
        /\ cmd'.item = cmd.item
        /\ cmd' \in Commands
    BY <1>3, <2>1 DEF Commands
  <2> QED BY <2>2 DEF todo, done
<1>7. config' = config /\ env' = env /\ setup' = setup
  BY DEF config, env
<1>8. /\ issues' \subseteq 1 .. MaxCommands /\ issues \subseteq issues'
      /\ board' \subseteq 0 .. MaxCommands /\ board \subseteq board'
      /\ status' \subseteq 0 .. MaxCommands /\ status \subseteq status'
      /\ board' \ {0} \subseteq issues' /\ status' \ {0} \subseteq board'
  BY EffectFits
<1>9. SyncTypeOK'
  BY <1>1, <1>6, <1>8 DEF SyncTypeOK
<1>10. CommandFits'
  <2>1. CASE cmd.kind = "sync"
    <3>1. cmd'.config = config' /\ "issue" \notin cmd'.done \cup cmd'.todo
      BY <1>1, <1>2, <1>5, <1>6, <1>7, <2>1 DEF CommandFits
    <3>2. /\ CanPlan(cmd'.config, cmd'.mode, env'.gates)
          /\ (cmd'.done \ {"issue"}) \cup cmd'.todo = CallsOf(cmd'.config, cmd'.mode)
          /\ cmd'.done \cap cmd'.todo = {}
      BY <1>1, <1>2, <1>5, <1>6, <1>7 DEF CommandFits
    <3>3. (\A o \in cmd.done : Reads(o, cmd.mode, cmd.config))'
      BY <1>1, <1>2, <1>5, <1>6, <1>7 DEF CommandFits, Reads
    <3> QED BY <1>6, <2>1, <3>1, <3>2, <3>3 DEF CommandFits, CanPlan, CallsOf
  <2>2. CASE cmd.kind = "intake"
    <3>1. /\ cmd'.config = Registered(config')
          /\ cmd'.todo # {} /\ "issue" \in cmd'.done /\ "issue" \notin cmd'.todo
          /\ cmd'.item \in issues'
      BY <1>1, <1>2, <1>5, <1>6, <1>7, <1>8, <2>2 DEF CommandFits
    <3>2. /\ CanPlan(cmd'.config, cmd'.mode, env'.gates)
          /\ (cmd'.done \ {"issue"}) \cup cmd'.todo = CallsOf(cmd'.config, cmd'.mode)
          /\ cmd'.done \cap cmd'.todo = {}
      BY <1>1, <1>2, <1>5, <1>6, <1>7 DEF CommandFits
    <3>3. (\A o \in cmd.done : Reads(o, cmd.mode, cmd.config))'
      BY <1>1, <1>2, <1>5, <1>6, <1>7 DEF CommandFits, Reads
    <3> QED BY <1>6, <2>2, <3>1, <3>2, <3>3 DEF CommandFits, CanPlan, CallsOf
  <2> QED BY <1>3, <2>1, <2>2
<1>11. BoardFits'
  <2>1. ASSUME cmd.kind = "intake", "add" \in cmd'.done PROVE cmd.item \in board'
    <3>1. CASE op # "add"
      BY <1>1, <1>2, <1>6, <1>8, <2>1, <3>1 DEF BoardFits
    <3>2. CASE op = "add"
      <4>1. setup.github.project
        BY <2>1, <3>2, IntakeHasProject DEF op, Mutations
      <4> QED BY <3>2, <4>1 DEF Effect, op
    <3> QED BY <3>1, <3>2
  <2>2. ASSUME cmd.kind = "intake", "update" \in cmd'.done
        PROVE  cmd.item \in status' \/ faults' > 0
    <3>1. faults \in Nat /\ (faults' = faults \/ faults' \in Nat)
      BY <1>1, SyncAssumption DEF SyncTypeOK
    <3>2. CASE op # "update" /\ cmd.item \in status
      BY <1>8, <3>2
    <3>3. CASE op = "update" /\ Effect
      <4>1. setup.github.project
        BY <2>2, <3>3, IntakeHasProject DEF op, Mutations
      <4> QED BY <3>3, <4>1 DEF Effect, op
    <3>4. CASE op = "update" /\ faults' = faults + 1
      BY <3>1, <3>4
    <3>5. CASE op # "update" /\ faults > 0 /\ faults' = faults
      BY <3>1, <3>5
    <3>6. op # "update" => (cmd.item \in status \/ faults > 0) /\ faults' = faults
      BY <1>1, <1>2, <1>6, <2>2 DEF BoardFits, op
    <3>7. op = "update" => Effect \/ faults' = faults + 1
      BY DEF op
    <3> QED BY <3>2, <3>3, <3>4, <3>5, <3>6, <3>7
  <2> QED BY <1>6, <1>8, <2>1, <2>2 DEF BoardFits
<1>12. ValidationFits'
  BY <1>1, <1>7 DEF ValidationFits, CanPlan, Reads
<1> QED BY <1>9, <1>10, <1>11, <1>12 DEF SyncInv

\* The Issue has its number: the command ends, or goes on with the calls of its
\* plan, behind the plan's gates.
LEMMA IssueKeeps ==
  ASSUME SyncInv, Calling, Op = "issue", Effect, AfterIssue,
         UNCHANGED <<setup, commands, faults>>
  PROVE  SyncInv'
<1>1. SyncTypeOK /\ CommandFits /\ BoardFits /\ ValidationFits
  BY DEF SyncInv
<1>2. cmd # Idle /\ "issue" \in cmd.todo
  BY <1>1, TodoFits DEF Calling
<1>3. cmd.kind = "intake" /\ cmd.mode = "mutate-live" /\ cmd \in Commands
  BY <1>1, <1>2, RunningFits DEF CommandFits
<1>4. /\ issues' \subseteq 1 .. MaxCommands /\ issues \subseteq issues'
      /\ board' \subseteq 0 .. MaxCommands /\ board \subseteq board'
      /\ status' \subseteq 0 .. MaxCommands /\ status \subseteq status'
      /\ board' \ {0} \subseteq issues' /\ status' \ {0} \subseteq board'
  BY EffectFits
<1>5. faults' \in 0 .. MaxFaults
  BY <1>1 DEF SyncTypeOK
<1> DEFINE next == [cmd EXCEPT !.todo = sync_project_v2(cmd.config), !.done = {"issue"}]
<1>6. ASSUME NEW result, result.ok \in BOOLEAN, Ends(result) PROVE SyncInv'
  BY <1>2, <1>3, <1>4, <1>5, <1>6, EndKeeps
<1>7. CASE /\ ~env.mock /\ cmd' = next /\ UNCHANGED <<output, validated>>
           /\ CanPlan(cmd.config, "mutate-live", env.gates)
  <2>1. sync_project_v2(cmd.config) \subseteq Calls \ {"issue"}
        /\ "update" \in sync_project_v2(cmd.config)
    BY DEF sync_project_v2, Lookup, Calls
  <2> DEFINE calls == sync_project_v2(cmd.config)
  <2> HIDE DEF calls
  <2>2. cmd' = [cmd EXCEPT !.todo = calls, !.done = {"issue"}]
    BY <1>7 DEF calls
  <2>3. calls \subseteq Calls \ {"issue"} /\ "update" \in calls /\ {"issue"} \subseteq Calls
    BY <2>1 DEF calls, Calls
  <2>4. /\ cmd'.todo = calls /\ cmd'.done = {"issue"} /\ cmd'.kind = cmd.kind
        /\ cmd'.mode = cmd.mode /\ cmd'.config = cmd.config /\ cmd'.item = cmd.item
        /\ cmd' \in Commands
    BY <1>3, <2>2, <2>3 DEF Commands
  <2>5. config' = config /\ env' = env /\ setup' = setup
    BY DEF config, env
  <2>6. cmd.item \in issues'
    BY <1>7 DEF Effect
  <2>7. SyncTypeOK'
    BY <1>1, <1>4, <1>5, <1>7, <2>4 DEF SyncTypeOK
  <2>8. CommandFits'
    <3>1. cmd'.config = Registered(config')
      BY <1>1, <1>2, <1>3, <2>4, <2>5 DEF CommandFits
    <3>2. /\ CanPlan(cmd'.config, cmd'.mode, env'.gates)
          /\ (cmd'.done \ {"issue"}) \cup cmd'.todo = CallsOf(cmd'.config, cmd'.mode)
          /\ cmd'.done \cap cmd'.todo = {}
      BY <1>3, <1>7, <2>3, <2>4, <2>5 DEF CallsOf, calls
    <3>3. (\A o \in cmd.done : Reads(o, cmd.mode, cmd.config))'
      BY <2>4 DEF Reads
    <3> QED BY <1>3, <2>3, <2>4, <2>6, <3>1, <3>2, <3>3 DEF CommandFits, CanPlan, CallsOf
  <2>9. BoardFits'
    BY <1>4, <2>4 DEF BoardFits
  <2>10. ValidationFits'
    BY <1>1, <1>7, <2>5 DEF ValidationFits, CanPlan, Reads
  <2> QED BY <2>7, <2>8, <2>9, <2>10 DEF SyncInv
<1>8. \/ \E sync \in {"skipped", "failed"}, ok \in BOOLEAN : Ends(Reports(ok, sync))
      \/ Ends(Succeeded)
      \/ /\ ~env.mock /\ cmd' = next /\ UNCHANGED <<output, validated>>
         /\ CanPlan(cmd.config, "mutate-live", env.gates)
  BY DEF AfterIssue
<1>9. Succeeded.ok \in BOOLEAN
  BY DEF Reports, Succeeded, NoOutput
<1>10. ASSUME NEW sync \in {"skipped", "failed"}, NEW ok \in BOOLEAN, Ends(Reports(ok, sync))
       PROVE  SyncInv'
  <2> DEFINE result == Reports(ok, sync)
  <2>1. result.ok \in BOOLEAN
    BY DEF Reports
  <2> HIDE DEF result
  <2>2. Ends(result)
    BY <1>10 DEF result
  <2> QED BY <1>6, <2>1, <2>2
<1>11. CASE Ends(Succeeded)
  BY <1>6, <1>9, <1>11
<1> QED BY <1>7, <1>8, <1>10, <1>11

\* What Continues does after a call that was answered or refused.
LEMMA ContinuesKeeps ==
  ASSUME SyncInv, Calling, Continues, Reads(Op, cmd.mode, cmd.config),
         \/ Effect /\ faults' = faults
         \/ NoEffect /\ Op = "update" /\ Fault,
         UNCHANGED <<setup, commands>>
  PROVE  SyncInv'
<1>1. SyncTypeOK /\ CommandFits
  BY DEF SyncInv
<1>2. cmd # Idle /\ Op \in cmd.todo /\ cmd \in Commands
  BY <1>1, TodoFits, RunningFits DEF Calling
<1>3. faults' \in 0 .. MaxFaults
  BY <1>1, SyncAssumption DEF SyncTypeOK, Fault
<1>4. CASE Op = "issue"
  <2>1. AfterIssue /\ Effect /\ faults' = faults
    BY <1>4 DEF Continues
  <2> QED BY <1>4, <2>1, IssueKeeps
<1>5. CASE Op # "issue"
  <2>1. "issue" \notin cmd.todo
    BY <1>1, <1>2, <1>5 DEF CommandFits
  <2>2. CASE cmd.todo = {Op}
    <3>1. Ends(Succeeded)
      BY <1>5, <2>2 DEF Continues
    <3> QED BY <1>2, <1>3, <2>1, <2>2, <3>1, SucceedKeeps
  <2>3. CASE cmd.todo # {Op}
    <3>1. /\ cmd' = [cmd EXCEPT !.todo = @ \ {Op}, !.done = @ \cup {Op}]
          /\ UNCHANGED <<output, validated>>
      BY <1>5, <2>3 DEF Continues
    <3> QED BY <1>3, <1>5, <2>3, <3>1, NextCallKeeps DEF Fault
  <2> QED BY <2>2, <2>3
<1> QED BY <1>4, <1>5

LEMMA NothingToCallKeeps ==
  ASSUME SyncInv, NothingToCall PROVE SyncInv'
<1>1. faults' \in 0 .. MaxFaults
  BY DEF SyncInv, SyncTypeOK, NothingToCall
<1>2. cmd # Idle /\ cmd.todo = {} /\ NoEffect /\ Ends(Succeeded)
  BY DEF NothingToCall, NoEffect
<1> QED BY <1>1, <1>2, SucceedKeeps DEF NothingToCall

LEMMA CallKeeps ==
  ASSUME SyncInv, \/ Unprepared \/ Answered \/ Refused
                  \/ \E takesEffect \in BOOLEAN : CallFails(takesEffect)
  PROVE  SyncInv'
<1>1. faults \in 0 .. MaxFaults /\ (faults < MaxFaults => faults + 1 \in 0 .. MaxFaults)
  BY SyncAssumption DEF SyncInv, SyncTypeOK
<1>2. CASE Unprepared
  BY <1>1, <1>2, FailKeeps DEF Unprepared
<1>3. CASE Answered
  <2>1. CASE Reads(Op, cmd.mode, cmd.config)
    BY <1>3, <2>1, ContinuesKeeps DEF Answered
  <2>2. CASE ~Reads(Op, cmd.mode, cmd.config)
    BY <1>1, <1>3, <2>2, FailKeeps DEF Answered
  <2> QED BY <2>1, <2>2
<1>4. CASE Refused
  <2>1. CASE Op = "update"
    <3>1. Reads(Op, cmd.mode, cmd.config)
      BY <2>1 DEF Reads
    <3> QED BY <1>4, <2>1, <3>1, ContinuesKeeps DEF Refused
  <2>2. CASE Op # "update"
    BY <1>1, <1>4, <2>2, FailKeeps DEF Refused, Fault
  <2> QED BY <2>1, <2>2
<1>5. ASSUME NEW takesEffect \in BOOLEAN, CallFails(takesEffect) PROVE SyncInv'
  BY <1>1, <1>5, FailKeeps DEF CallFails, Fault
<1> QED BY <1>2, <1>3, <1>4, <1>5

LEMMA SyncStepKeeps ==
  ASSUME SyncInv, [Next]_vars PROVE SyncInv'
<1>1. CASE UNCHANGED vars
  BY <1>1, NothingKeeps DEF vars, SyncInv, SyncTypeOK
<1>2. CASE Next
  BY <1>2, SyncKeeps, IntakeKeeps, EndsAtOnceKeeps, NothingToCallKeeps, CallKeeps
     DEF Next, project_register
<1> QED BY <1>1, <1>2

-----------------------------------------------------------------------------
(* What the invariant says. *)

\* The calls of a sync are those of the plan, and mutations are behind its gates.
LEMMA CallsFollowPlan ==
  ASSUME SyncInv PROVE SyncFollowsPlan
<1> DEFINE c == cmd.config
<1> DEFINE planned == Planned(c, cmd.mode)
<1> DEFINE calls == cmd.done \cup cmd.todo
<1> SUFFICES ASSUME Calling, Op # "issue"
             PROVE  /\ calls \cap Mutations # {} => ProjectGates \subseteq env.gates
                    /\ c.item # "blank" =>
                         calls \cap Mutations \subseteq planned /\ planned \subseteq calls
  BY DEF SyncFollowsPlan
<1>1. SyncTypeOK /\ CommandFits
  BY DEF SyncInv
<1>2. cmd # Idle /\ Op \in cmd.todo /\ "issue" \notin cmd.todo
  BY <1>1, TodoFits DEF Calling, CommandFits
<1>3. cmd.mode \in {"validate-read-only", "mutate-live"} /\ c \in Configs
  BY <1>1, <1>2, RunningFits
<1>4. /\ CanPlan(c, cmd.mode, env.gates)
      /\ (cmd.done \ {"issue"}) \cup cmd.todo = CallsOf(c, cmd.mode)
  BY <1>1, <1>2 DEF CommandFits
<1> HIDE DEF c
<1>5. calls \cap Mutations = CallsOf(c, cmd.mode) \cap Mutations
      /\ CallsOf(c, cmd.mode) \subseteq calls
  BY <1>4 DEF Mutations
<1>6. c.item \in {"none", "blank", "given"} /\ c.field \in Texts
  BY <1>3 DEF Configs, Texts
<1>7. CASE cmd.mode = "validate-read-only"
  <2>1. CallsOf(c, cmd.mode) = validate_project_v2_read_only(c)
    BY <1>7 DEF CallsOf
  <2>2. CallsOf(c, cmd.mode) \cap Mutations = {}
    BY <2>1 DEF validate_project_v2_read_only, Lookup, Mutations
  <2>3. planned \subseteq CallsOf(c, cmd.mode)
    BY <1>6, <1>7, <2>1 DEF Planned, validate_project_v2_read_only, Lookup, Mutations
  <2> QED BY <1>5, <2>2, <2>3
<1>8. CASE cmd.mode = "mutate-live"
  <2>1. CallsOf(c, cmd.mode) = sync_project_v2(c)
    BY <1>8 DEF CallsOf
  <2>2. ProjectGates \subseteq env.gates
    BY <1>4, <1>8 DEF CanPlan, enforce_project_gates
  <2>3. c.item # "blank" => planned \subseteq CallsOf(c, cmd.mode)
    BY <1>6, <1>8, <2>1 DEF Planned, sync_project_v2, Lookup, Mutations
  <2>4. c.item # "blank" => CallsOf(c, cmd.mode) \cap Mutations \subseteq planned
    BY <1>6, <1>8, <2>1 DEF Planned, sync_project_v2, Lookup, Mutations
  <2> QED BY <1>5, <2>2, <2>3, <2>4
<1> QED BY <1>3, <1>7, <1>8

\* What validation read, a live sync can read.
LEMMA ValidatedIsRead ==
  ASSUME SyncInv PROVE ValidationPredicts
<1> SUFFICES ASSUME Calling, cmd.kind = "sync", cmd.mode = "mutate-live", validated,
                    ~NotLookedAt(config)
             PROVE  Prepared /\ Reads(Op, cmd.mode, config)
  BY DEF ValidationPredicts
<1>1. SyncTypeOK /\ CommandFits /\ ValidationFits
  BY DEF SyncInv
<1>2. cmd # Idle /\ Op \in cmd.todo /\ cmd.config = config /\ Op # "issue"
  BY <1>1, TodoFits DEF Calling, CommandFits
<1>3. Op \in sync_project_v2(config)
  BY <1>1, <1>2 DEF CommandFits, CallsOf
<1>4. /\ config.item \in {"none", "blank", "given"} /\ config.identity \in Identities
      /\ config.field \in Texts /\ config.option \in Texts /\ config.name \in Texts
  BY <1>1, SetupFits DEF SyncTypeOK
<1>5. /\ config.item = "none" => config.content = "issue"
      /\ \A op \in validate_project_v2_read_only(config) :
           Reads(op, "validate-read-only", config)
  BY <1>1 DEF ValidationFits, CanPlan
<1>6. CASE Op = "lookup"
  <2>1. "lookup" \in validate_project_v2_read_only(config)
    BY <1>3, <1>6 DEF sync_project_v2, validate_project_v2_read_only, Lookup
  <2> QED BY <1>5, <1>6, <2>1 DEF Prepared, Reads
<1>7. CASE Op = "content"
  <2>1. config.item # "given"
    BY <1>3, <1>7 DEF sync_project_v2, Lookup
  <2>2. config.content = "issue" /\ setup.github.content
    BY <1>4, <1>5, <2>1 DEF NotLookedAt
  <2> QED BY <1>2, <1>7, <2>2 DEF Prepared, Reads
<1>8. ~FieldsUnseen(config) =>
        setup.github.project /\ setup.github.option /\ config.name = "given"
  <2>1. ~FieldsUnseen(config) => "fields" \in validate_project_v2_read_only(config)
    BY <1>4 DEF FieldsUnseen, validate_project_v2_read_only
  <2> QED BY <1>5, <2>1 DEF Reads
<1>9. setup.github.project
  <2>1. CASE config.identity # "id"
    <3>1. "lookup" \in validate_project_v2_read_only(config)
      BY <2>1 DEF validate_project_v2_read_only, Lookup
    <3> QED BY <1>5, <3>1 DEF Reads
  <2>2. CASE config.identity = "id"
    BY <1>8, <2>2 DEF NotLookedAt
  <2> QED BY <2>1, <2>2
<1>10. CASE Op = "fields"
  <2>1. ~(config.field = "given" /\ config.option = "given")
    BY <1>3, <1>10 DEF sync_project_v2, Lookup
  <2>2. setup.github.option /\ config.name = "given"
    BY <1>8, <2>1 DEF NotLookedAt
  <2> QED BY <1>2, <1>9, <1>10, <2>2 DEF Prepared, Reads
<1>11. CASE Op \in {"add", "update"}
  BY <1>9, <1>11 DEF Prepared, Reads
<1>12. Op \in Calls \ {"issue"}
  BY <1>1, <1>2, RunningFits
<1> QED BY <1>6, <1>7, <1>10, <1>11, <1>12 DEF Calls

\* What IntakeSaysWhatItDid says of a step that ends an intake.
SaysWhatItDid ==
  cmd # Idle /\ cmd' = Idle /\ cmd.kind = "intake" =>
    /\ cmd.item \in issues' =>
         output'.issue = cmd.item \/ (Op = "issue" /\ faults' > faults)
    /\ output'.sync = "succeeded" /\ ~env.mock =>
         cmd.item \in board' /\ (cmd.item \in status' \/ faults' > 0)
    /\ output'.ok /\ cmd.policy = "required" => output'.sync = "succeeded"

\* A failed intake has its Issue's number, once the Issue was made.
LEMMA FailedSays ==
  ASSUME SyncInv, Calling, Ends(Failed),
         Op = "issue" => faults' = faults + 1
  PROVE  SaysWhatItDid
<1> SUFFICES ASSUME cmd # Idle, cmd.kind = "intake" PROVE SaysWhatItDid
  BY DEF SaysWhatItDid
<1>1. SyncTypeOK /\ CommandFits
  BY DEF SyncInv
<1>2. Op \in cmd.todo /\ faults \in Nat
  BY <1>1, TodoFits, SyncAssumption DEF SyncTypeOK
<1>3. output' = Failed
  BY DEF Ends
<1>4. Failed.ok = FALSE /\ Failed.sync # "succeeded"
  BY DEF Failed, Reports, Error, NoOutput
<1>5. CASE Op = "issue"
  BY <1>2, <1>3, <1>4, <1>5 DEF SaysWhatItDid
<1>6. CASE Op # "issue"
  <2>1. "issue" \in cmd.done
    BY <1>1, <1>2, <1>6 DEF CommandFits
  <2>2. Failed.issue = cmd.item
    BY <2>1 DEF Failed, Reports
  <2> QED BY <1>3, <1>4, <2>2 DEF SaysWhatItDid
<1> QED BY <1>5, <1>6

\* An intake that made its last call did all of them.
LEMMA LastCallSays ==
  ASSUME SyncInv, Calling, Op # "issue", cmd.todo = {Op}, Ends(Succeeded),
         Reads(Op, cmd.mode, cmd.config),
         \/ Effect /\ faults' = faults
         \/ NoEffect /\ Op = "update" /\ faults' = faults + 1
  PROVE  SaysWhatItDid
<1> SUFFICES ASSUME cmd # Idle, cmd.kind = "intake" PROVE SaysWhatItDid
  BY DEF SaysWhatItDid
<1>1. SyncTypeOK /\ CommandFits /\ BoardFits
  BY DEF SyncInv
<1>2. faults \in Nat /\ faults + 1 > 0
  BY <1>1, SyncAssumption DEF SyncTypeOK
<1>3. output' = [ok |-> TRUE, issue |-> cmd.item, sync |-> "succeeded"]
  BY DEF Ends, Succeeded, Reports
<1>4. /\ cmd.config = Registered(config)
      /\ cmd.mode = "mutate-live" /\ config \in Configs
  BY <1>1, RunningFits, SetupFits DEF CommandFits, SyncTypeOK
<1>5. cmd.config.item = "none"
  BY <1>4, RegisteredFits
<1>6. {"add", "update"} \subseteq cmd.done \cup {Op}
  <2>1. (cmd.done \ {"issue"}) \cup {Op} = sync_project_v2(cmd.config)
    BY <1>1, <1>4 DEF CommandFits, CallsOf
  <2>2. {"add", "update"} \subseteq sync_project_v2(cmd.config)
    BY <1>5 DEF sync_project_v2
  <2> QED BY <2>1, <2>2
<1>7. board \subseteq board' /\ status \subseteq status'
  BY EffectFits
<1>8. cmd.item \in board'
  <2>1. CASE "add" \in cmd.done
    BY <1>1, <1>7, <2>1 DEF BoardFits
  <2>2. CASE Op = "add"
    <3>1. setup.github.project
      BY <2>2, IntakeHasProject DEF Mutations
    <3> QED BY <2>2, <3>1 DEF Effect
  <2> QED BY <1>6, <2>1, <2>2
<1>9. cmd.item \in status' \/ faults' > 0
  <2>1. CASE "update" \in cmd.done
    <3>1. cmd.item \in status \/ faults > 0
      BY <1>1, <2>1 DEF BoardFits
    <3> QED BY <1>2, <1>7, <3>1
  <2>2. CASE Op = "update"
    <3>1. setup.github.project
      BY <2>2, IntakeHasProject DEF Mutations
    <3> QED BY <1>2, <2>2, <3>1 DEF Effect
  <2> QED BY <1>6, <2>1, <2>2
<1> QED BY <1>3, <1>8, <1>9 DEF SaysWhatItDid

\* An intake that ends with its Issue prints what became of it.
LEMMA IssueSays ==
  ASSUME SyncInv, Calling, Op = "issue", AfterIssue PROVE SaysWhatItDid
<1> SUFFICES ASSUME cmd # Idle, cmd' = Idle, cmd.kind = "intake" PROVE SaysWhatItDid
  BY DEF SaysWhatItDid
<1>1. cmd \in Commands /\ cmd.policy \in Policies
  BY RunningFits DEF SyncInv
<1> DEFINE skipped == \/ cmd.policy = "off"
                      \/ cmd.policy = "best-effort" /\ missing_project_sync_requirements
<1>2. CASE skipped /\ Ends(Reports(TRUE, "skipped"))
  BY <1>2 DEF Ends, Reports, SaysWhatItDid
<1>3. CASE Ends(Reports(FALSE, "failed"))
  BY <1>3 DEF Ends, Reports, SaysWhatItDid
<1>4. CASE env.mock /\ Ends(Succeeded)
  BY <1>4 DEF Ends, Succeeded, Reports, SaysWhatItDid
<1>5. CASE cmd' = [cmd EXCEPT !.todo = sync_project_v2(cmd.config), !.done = {"issue"}]
  <2>1. cmd'.kind = "intake"
    BY <1>1, <1>5 DEF Commands
  <2> QED BY <2>1 DEF Idle
<1> QED BY <1>2, <1>3, <1>4, <1>5 DEF AfterIssue

LEMMA StepSays ==
  ASSUME SyncInv, [Next]_vars PROVE SaysWhatItDid
<1> SUFFICES ASSUME cmd # Idle, cmd' = Idle, cmd.kind = "intake" PROVE SaysWhatItDid
  BY DEF SaysWhatItDid
<1>1. SyncTypeOK /\ CommandFits /\ cmd.todo # {} /\ Calling /\ cmd \in Commands
  BY RunningFits DEF SyncInv, CommandFits, Calling
<1>2. CASE Unprepared
  <2>1. Op # "issue"
    BY <1>2 DEF Unprepared, Prepared
  <2> QED BY <1>1, <1>2, <2>1, FailedSays DEF Unprepared
<1>3. ASSUME Continues, Reads(Op, cmd.mode, cmd.config),
             \/ Effect /\ faults' = faults
             \/ NoEffect /\ Op = "update" /\ faults' = faults + 1
      PROVE  SaysWhatItDid
  <2>1. CASE Op = "issue" /\ AfterIssue
    BY <1>1, <2>1, IssueSays
  <2>2. CASE Op # "issue" /\ cmd.todo = {Op} /\ Ends(Succeeded)
    BY <1>1, <1>3, <2>2, LastCallSays
  <2>3. CASE cmd' = [cmd EXCEPT !.todo = @ \ {Op}, !.done = @ \cup {Op}]
    <3>1. cmd'.kind = "intake"
      BY <1>1, <2>3 DEF Commands
    <3> QED BY <3>1 DEF Idle
  <2> QED BY <1>3, <2>1, <2>2, <2>3 DEF Continues
<1>4. CASE Answered
  <2>1. CASE Reads(Op, cmd.mode, cmd.config)
    BY <1>3, <1>4, <2>1 DEF Answered
  <2>2. CASE ~Reads(Op, cmd.mode, cmd.config)
    <3>1. Op # "issue"
      BY <2>2 DEF Reads
    <3> QED BY <1>1, <1>4, <2>2, <3>1, FailedSays DEF Answered
  <2> QED BY <2>1, <2>2
<1>5. CASE Refused
  <2>1. CASE Op = "update"
    <3>1. Reads(Op, cmd.mode, cmd.config)
      BY <2>1 DEF Reads
    <3> QED BY <1>3, <1>5, <2>1, <3>1 DEF Refused, Fault
  <2>2. CASE Op # "update"
    <3>1. Op # "issue"
      BY <1>5 DEF Refused, Mutations
    <3> QED BY <1>1, <1>5, <2>2, <3>1, FailedSays DEF Refused
  <2> QED BY <2>1, <2>2
<1>6. ASSUME NEW takesEffect \in BOOLEAN, CallFails(takesEffect) PROVE SaysWhatItDid
  BY <1>1, <1>6, FailedSays DEF CallFails, Fault
<1>7. CASE \/ \E mode \in Modes : Sync(mode)
           \/ \E policy \in Policies : work_intake(policy)
           \/ project_register \/ UNCHANGED vars
  BY <1>7 DEF Sync, work_intake, project_register, EndsAtOnce, Begins, vars
<1>8. CASE NothingToCall
  BY <1>1, <1>8 DEF NothingToCall
<1> QED BY <1>2, <1>4, <1>5, <1>6, <1>7, <1>8 DEF Next

\* A command's calls are those of its plan, behind its gates, for any setups,
\* commands, failures and refusals; what is on the board is an Issue, what has
\* its status set is on the board; and a validation that counts read all it asked
\* for (client.rs 168-319, work_intake.rs 26-55, 273-378).
THEOREM CommandsFollowTheirPlan == Spec => []SyncInv
<1>1. Init => SyncInv
  BY SyncStarts
<1>2. SyncInv /\ [Next]_vars => SyncInv'
  BY SyncStepKeeps
<1> QED BY <1>1, <1>2, PTL DEF Spec

\* What a sync changes on GitHub was in the plan, behind the plan's gates
\* (client.rs 168-275, 529-641).
THEOREM MutationsArePlanned == Spec => []SyncFollowsPlan
<1>1. SyncInv => SyncFollowsPlan
  BY CallsFollowPlan
<1> QED BY <1>1, CommandsFollowTheirPlan, PTL

\* A live sync succeeds where read-only validation did, but for what validation
\* does not look at (client.rs 168-319, 679-813).
THEOREM ValidationIsRight == Spec => []ValidationPredicts
<1>1. SyncInv => ValidationPredicts
  BY ValidatedIsRead
<1> QED BY <1>1, CommandsFollowTheirPlan, PTL

\* An intake prints the number of the Issue it made, and claims neither the board
\* nor success without having them (work_intake.rs 10-60, 180-192, 273-378).
THEOREM IntakesAreHonest == Spec => IntakeSaysWhatItDid
<1>1. SyncInv /\ [Next]_vars => [SaysWhatItDid]_vars
  BY StepSays
<1>2. [SaysWhatItDid]_vars <=>
        [cmd # Idle /\ cmd' = Idle /\ cmd.kind = "intake" =>
           /\ cmd.item \in issues' =>
                output'.issue = cmd.item \/ (Op = "issue" /\ faults' > faults)
           /\ output'.sync = "succeeded" /\ ~env.mock =>
                cmd.item \in board' /\ (cmd.item \in status' \/ faults' > 0)
           /\ output'.ok /\ cmd.policy = "required" => output'.sync = "succeeded"]_vars
  BY DEF SaysWhatItDid
<1> QED BY <1>1, <1>2, CommandsFollowTheirPlan, PTL DEF Spec, IntakeSaysWhatItDid
=============================================================================
