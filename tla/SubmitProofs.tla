---------------------------- MODULE SubmitProofs ----------------------------
(***************************************************************************)
(* Proofs about `canopus submit`: for any tasks, registry and number of    *)
(* attempts, no stage is worked on twice.  The invariant also keeps what a *)
(* read-only run started in a clean repository may have changed.           *)
(***************************************************************************)
EXTENDS CanopusSubmit, FiniteSetTheorems, TLAPS

-----------------------------------------------------------------------------
(* Pipelines. *)

(* Every pipeline has one to four stages. *)
LEMMA PipelineShape ==
  ASSUME NEW pipeline \in {"PlannerOnly", "ReviewerOnly", "DevMode", "BugFix", "SecurityAudit",
                           "TestWriter", "UXImprovement"}
  PROVE  /\ agent_roles(pipeline) \in Seq(RoleName)
         /\ Len(agent_roles(pipeline)) \in 1 .. 4
<1>1. CASE pipeline = "PlannerOnly"
  BY <1>1 DEF agent_roles, RoleName
<1>2. CASE pipeline = "ReviewerOnly"
  BY <1>2 DEF agent_roles, RoleName
<1>3. CASE pipeline = "DevMode"
  BY <1>3 DEF agent_roles, RoleName
<1>4. CASE pipeline = "BugFix"
  BY <1>4 DEF agent_roles, RoleName
<1>5. CASE pipeline = "SecurityAudit"
  BY <1>5 DEF agent_roles, RoleName
<1>6. CASE pipeline = "TestWriter"
  BY <1>6 DEF agent_roles, RoleName
<1>7. CASE pipeline = "UXImprovement"
  BY <1>7 DEF agent_roles, RoleName
<1> QED BY <1>1, <1>2, <1>3, <1>4, <1>5, <1>6, <1>7

(* What a role mode asks for. *)
LEMMA CapabilityOfMode == \A mode : from_role_mode(mode) \in Capabilities \cup {NoName}
BY DEF from_role_mode, Capabilities, NoName

(* What a task type asks for. *)
LEMMA CapabilityOfType == \A type : from_task_type(type) \in Capabilities \cup {NoName}
BY DEF from_task_type, Capabilities, NoName

(* The two together name one capability, or none. *)
LEMMA CapabilityResolved ==
  ASSUME NEW mode, NEW type, resolve_capability(mode, type) # NoName
  PROVE  resolve_capability(mode, type) \in Capabilities
<1> DEFINE asked == {from_role_mode(mode), from_task_type(type)} \ {NoName}
<1>1. asked \subseteq Capabilities
  BY CapabilityOfMode, CapabilityOfType
<1>2. "implement" \in Capabilities
  BY DEF Capabilities
<1>3. CASE asked = {}
  BY <1>2, <1>3 DEF resolve_capability
<1>4. CASE asked # {} /\ \E c \in asked : asked = {c}
  <2>1. (CHOOSE c \in asked : TRUE) \in asked
    BY <1>4
  <2>2. resolve_capability(mode, type) = CHOOSE c \in asked : TRUE
    BY <1>4 DEF resolve_capability
  <2> QED BY <1>1, <2>1, <2>2
<1>5. CASE asked # {} /\ ~\E c \in asked : asked = {c}
  BY <1>5 DEF resolve_capability
<1> QED BY <1>3, <1>4, <1>5

(* A selection that succeeds has a capability, and a branch is taken just for
   "implement". *)
LEMMA Resolved ==
  ASSUME NEW order
  PROVE  /\ resolve(order).ok \in BOOLEAN
         /\ resolve(order).ok =>
              /\ resolve(order).capability \in Capabilities
              /\ resolve(order).preparation = "branch"
                   <=> resolve(order).capability = "implement"
<1>1. CASE resolve(order) = NoSelection
  BY <1>1 DEF NoSelection
<1>2. CASE resolve(order) # NoSelection
  BY <1>2, CapabilityResolved DEF resolve, SelectBackend, BackendSelection, requires_branch
<1> QED BY <1>1, <1>2

(* The constants of the model, for a task. *)
LEMMA SelectionOf ==
  ASSUME NEW t \in Tasks
  PROVE  /\ Selection[t] = resolve(Order[t])
         /\ Roles[t] = IF Selection[t].ok
                       THEN agent_roles(pipeline_for_selection(Selection[t], Order[t].type))
                       ELSE <<>>
BY DEF Selection, Roles

(* Only "implement" can lead to a pipeline with a coder. *)
LEMMA PipelineOf ==
  ASSUME NEW selection, NEW type, selection.capability \in Capabilities
  PROVE  /\ pipeline_for_selection(selection, type) \in
              {"PlannerOnly", "ReviewerOnly", "DevMode", "BugFix", "SecurityAudit",
               "TestWriter", "UXImprovement"}
         /\ selection.capability # "implement" =>
              pipeline_for_selection(selection, type) \in {"PlannerOnly", "ReviewerOnly"}
<1>1. PipelineOfType(type) \in {"DevMode", "BugFix", "SecurityAudit", "TestWriter", "UXImprovement"}
  BY DEF PipelineOfType
<1>2. CASE selection.capability = "plan"
  BY <1>2 DEF pipeline_for_selection
<1>3. CASE selection.capability = "review"
  BY <1>3 DEF pipeline_for_selection
<1>4. CASE selection.capability = "implement"
  BY <1>1, <1>4 DEF pipeline_for_selection
<1> QED BY <1>2, <1>3, <1>4 DEF Capabilities

(* Only the first stage can be the analyst's. *)
LEMMA AnalystFirst ==
  ASSUME NEW pipeline \in {"PlannerOnly", "ReviewerOnly", "DevMode", "BugFix", "SecurityAudit",
                           "TestWriter", "UXImprovement"},
         NEW i \in 1 .. Len(agent_roles(pipeline)), agent_roles(pipeline)[i] = "analyst"
  PROVE  i = 1
BY DEF agent_roles

(* The stages of a task whose selection succeeded. *)
LEMMA RolesShape ==
  ASSUME NEW t \in Tasks, Selection[t].ok
  PROVE  /\ Roles[t] \in Seq(RoleName) /\ Len(Roles[t]) \in 1 .. 4
         /\ \A i \in 1 .. Len(Roles[t]) : Roles[t][i] = "analyst" => i = 1
         /\ ~TakesBranch(t) => Len(Roles[t]) = 1 /\ Roles[t][1] # "coder"
<1> DEFINE pipeline == pipeline_for_selection(Selection[t], Order[t].type)
<1>1. Roles[t] = agent_roles(pipeline)
  BY SelectionOf
<1>2. /\ Selection[t].capability \in Capabilities
      /\ Selection[t].preparation = "branch" <=> Selection[t].capability = "implement"
  BY SelectionOf, Resolved
<1>3. pipeline \in {"PlannerOnly", "ReviewerOnly", "DevMode", "BugFix", "SecurityAudit",
                    "TestWriter", "UXImprovement"}
  BY <1>2, PipelineOf
<1>4. ~TakesBranch(t) => pipeline \in {"PlannerOnly", "ReviewerOnly"}
  BY <1>2, PipelineOf DEF TakesBranch
<1> HIDE DEF pipeline
<1>5. Roles[t] \in Seq(RoleName) /\ Len(Roles[t]) \in 1 .. 4
  BY <1>1, <1>3, PipelineShape
<1>6. \A i \in 1 .. Len(Roles[t]) : Roles[t][i] = "analyst" => i = 1
  BY <1>1, <1>3, AnalystFirst
<1>7. ~TakesBranch(t) => Len(Roles[t]) = 1 /\ Roles[t][1] # "coder"
  BY <1>1, <1>4 DEF agent_roles
<1> QED BY <1>5, <1>6, <1>7

-----------------------------------------------------------------------------
(* The invariant, by parts: what an attempt's record says, and the rest. *)

NoTrace(r, a, d) ==
  r.pc \in {"answered", "last", "ok"} /\ ~TakesBranch(r.task) /\ r.before.dirty = {} => a \notin d

RunInv ==
  /\ run \in [Attempts -> Run]
  /\ \A a \in Attempts :
       Fits(run[a]) /\ HasRow(run[a], a, created) /\ NoTrace(run[a], a, dirty)

RowsInv ==
  /\ created \subseteq Tasks \X (1 .. 4) \X Attempts
  /\ works \subseteq created /\ questions \subseteq Tasks \X Attempts
  /\ \A x, y \in created : x[1] = y[1] /\ x[2] = y[2] => x[3] = y[3]
  /\ \A q \in questions : <<q[1], 1, q[2]>> \in created

PlaceInv ==
  /\ head \in Tasks \cup {Main} /\ branches \subseteq Tasks /\ dirty \subseteq Attempts
  /\ file \in [Tasks -> Seq(Record)] /\ faults \in 0 .. MaxFaults

Inv == RunInv /\ RowsInv /\ PlaceInv

(* The invariant is what the runs check, in other parts. *)
LEMMA InvIs == Inv <=> SubmitInv /\ \A a \in Attempts : NoTrace(run[a], a, dirty)
BY DEF Inv, RunInv, RowsInv, PlaceInv, SubmitInv, TypeOK, OneCreator, Selected

-----------------------------------------------------------------------------
(* Changes of one attempt. *)

(* An attempt whose new record q fits leaves the others as they are. *)
LEMMA AttemptStep ==
  ASSUME Inv, NEW a \in Attempts, NEW q \in Run, run' = [run EXCEPT ![a] = q],
         Fits(q), HasRow(q, a, created'), NoTrace(q, a, dirty'),
         created \subseteq created', dirty' \subseteq dirty \cup {a}
  PROVE  RunInv'
<1>1. run' \in [Attempts -> Run] /\ run'[a] = q /\ \A b \in Attempts : b # a => run'[b] = run[b]
  BY DEF Inv, RunInv
<1>2. ASSUME NEW b \in Attempts, b # a
      PROVE  Fits(run'[b]) /\ HasRow(run'[b], b, created') /\ NoTrace(run'[b], b, dirty')
  BY <1>1, <1>2 DEF Inv, RunInv, HasRow, NoTrace
<1> QED BY <1>1, <1>2 DEF RunInv

(* One more stage record. *)
LEMMA RecordedTyped ==
  ASSUME Inv, NEW a \in Attempts, NEW stage \in StageName, NEW s \in Status
  PROVE  Recorded(a, stage, s) \in Seq(Record)
<1>1. run[a].records \in Seq(Record)
  BY DEF Inv, RunInv, Run
<1>2. [stage |-> stage, status |-> s] \in Record
  BY DEF Record
<1> QED BY <1>1, <1>2 DEF Recorded

(* The file holds the records of an attempt, or stays as it is. *)
LEMMA FileStep ==
  ASSUME Inv, NEW a \in Attempts, NEW records \in Seq(Record),
         Persists(a, records) \/ UNCHANGED file
  PROVE  file' \in [Tasks -> Seq(Record)]
BY DEF Inv, PlaceInv, Persists

(* Where an attempt with its task and stage may be: Fits, without the record. *)
GoodPlace(pc, task, idx) ==
  /\ pc # "unused" => task \in Tasks
  /\ pc \in {"unused", "start"} => idx = 1
  /\ pc \notin {"unused", "start"} \cup Ended =>
       /\ Selection[task].ok
       /\ idx \in 1 .. Len(Roles[task])
       /\ ~TakesBranch(task) => pc # "check"

(* An attempt that only moves on to pc, with new records. *)
LEMMA MovesStep ==
  ASSUME Inv, NEW a \in Attempts, NEW pc \in Pc, NEW records \in Seq(Record),
         \/ run' = [run EXCEPT ![a].pc = pc, ![a].records = records]
         \/ run' = [run EXCEPT ![a].pc = pc],
         GoodPlace(pc, run[a].task, run[a].idx),
         pc \in {"helper", "agent", "answered"} => <<run[a].task, run[a].idx, a>> \in created',
         pc \in {"answered", "last", "ok"} => NoTrace([run[a] EXCEPT !.pc = pc], a, dirty'),
         created \subseteq created', dirty' \subseteq dirty \cup {a}
  PROVE  RunInv'
<1>1. run[a] \in Run
  BY DEF Inv, RunInv
<1>2. \E q \in Run : /\ run' = [run EXCEPT ![a] = q]
                     /\ q.pc = pc /\ q.task = run[a].task /\ q.idx = run[a].idx
                     /\ q.before = run[a].before
  <2>1. CASE run' = [run EXCEPT ![a].pc = pc, ![a].records = records]
    <3> DEFINE q == [run[a] EXCEPT !.pc = pc, !.records = records]
    <3>1. q \in Run /\ q.pc = pc /\ q.task = run[a].task /\ q.idx = run[a].idx
                    /\ q.before = run[a].before
      BY <1>1 DEF Run
    <3>2. run' = [run EXCEPT ![a] = q]
      BY <2>1
    <3> HIDE DEF q
    <3> QED BY <3>1, <3>2
  <2>2. CASE run' = [run EXCEPT ![a].pc = pc]
    <3> DEFINE q == [run[a] EXCEPT !.pc = pc]
    <3>1. q \in Run /\ q.pc = pc /\ q.task = run[a].task /\ q.idx = run[a].idx
                    /\ q.before = run[a].before
      BY <1>1 DEF Run
    <3>2. run' = [run EXCEPT ![a] = q]
      BY <2>2
    <3> HIDE DEF q
    <3> QED BY <3>1, <3>2
  <2> QED BY <2>1, <2>2
<1>3. PICK q \in Run : /\ run' = [run EXCEPT ![a] = q]
                       /\ q.pc = pc /\ q.task = run[a].task /\ q.idx = run[a].idx
                       /\ q.before = run[a].before
  BY <1>2
<1>4. Fits(q) /\ HasRow(q, a, created')
  BY <1>3 DEF Fits, GoodPlace, HasRow
<1>5. NoTrace(q, a, dirty')
  <2> DEFINE r == [run[a] EXCEPT !.pc = pc]
  <2>1. r.pc = pc /\ r.task = run[a].task /\ r.before = run[a].before
    BY <1>1 DEF Run
  <2> HIDE DEF r
  <2>2. pc \in {"answered", "last", "ok"} => NoTrace(r, a, dirty')
    BY DEF r
  <2> QED BY <1>3, <2>1, <2>2 DEF NoTrace
<1> QED BY <1>3, <1>4, <1>5, AttemptStep

(* An attempt that has begun is one of a task, with a stage of its pipeline. *)
LEMMA Begun ==
  ASSUME Inv, NEW a \in Attempts, run[a].pc # "unused"
  PROVE  /\ run[a] \in Run /\ run[a].task \in Tasks /\ run[a].idx \in 1 .. 4
         /\ run[a].pc \notin {"start"} \cup Ended =>
              /\ Selection[run[a].task].ok
              /\ run[a].idx \in 1 .. Len(Roles[run[a].task])
              /\ Role(a) \in StageName
<1>1. run[a] \in Run /\ Fits(run[a])
  BY DEF Inv, RunInv
<1>2. run[a].task \in Tasks /\ run[a].idx \in 1 .. 4
  BY <1>1 DEF Fits, Run
<1>3. ASSUME run[a].pc \notin {"start"} \cup Ended
      PROVE  /\ Selection[run[a].task].ok /\ run[a].idx \in 1 .. Len(Roles[run[a].task])
             /\ Role(a) \in StageName
  <2>1. Selection[run[a].task].ok /\ run[a].idx \in 1 .. Len(Roles[run[a].task])
    BY <1>1, <1>3 DEF Fits
  <2>2. Roles[run[a].task] \in Seq(RoleName)
    BY <1>2, <2>1, RolesShape
  <2>3. Role(a) \in RoleName
    BY <2>1, <2>2 DEF Role
  <2> QED BY <2>1, <2>3 DEF StageName
<1> QED BY <1>1, <1>2, <1>3

(* A failure that is recorded. *)
LEMMA FailsStep ==
  ASSUME Inv, NEW a \in Attempts, NEW stage \in StageName, run[a].pc # "unused",
         FailsAt(a, stage), UNCHANGED created, dirty' \subseteq dirty \cup {a}
  PROVE  RunInv' /\ file' \in [Tasks -> Seq(Record)]
<1>1. Recorded(a, stage, "failed") \in Seq(Record)
  BY RecordedTyped DEF Status
<1>2. run' = [run EXCEPT ![a].pc = "err", ![a].records = Recorded(a, stage, "failed")]
  BY DEF FailsAt, Records
<1>3. GoodPlace("err", run[a].task, run[a].idx)
  BY Begun DEF GoodPlace, Ended
<1>4. RunInv'
  BY <1>1, <1>2, <1>3, MovesStep DEF Pc, Ended
<1>5. file' \in [Tasks -> Seq(Record)]
  BY <1>1, FileStep DEF FailsAt, Records
<1> QED BY <1>4, <1>5

(* An error before there is a record. *)
LEMMA GivesUpStep ==
  ASSUME Inv, NEW a \in Attempts, run[a].pc # "unused", GoesTo(a, "err"),
         UNCHANGED created, dirty' \subseteq dirty \cup {a}
  PROVE  RunInv' /\ file' \in [Tasks -> Seq(Record)]
<1>1. run' = [run EXCEPT ![a].pc = "err"] /\ <<>> \in Seq(Record)
  BY DEF GoesTo
<1>2. GoodPlace("err", run[a].task, run[a].idx)
  BY Begun DEF GoodPlace, Ended
<1>3. RunInv'
  BY <1>1, <1>2, MovesStep DEF Pc, Ended
<1>4. file' \in [Tasks -> Seq(Record)]
  BY DEF GoesTo, Inv, PlaceInv
<1> QED BY <1>3, <1>4

(* The rest stays as it is. *)
LEMMA RowsStay == RowsInv /\ UNCHANGED <<created, works, questions>> => RowsInv'
BY DEF RowsInv

(* Configuration and selection. *)
LEMMA StartStep ==
  ASSUME Inv, NEW a \in Attempts, Start(a)
  PROVE  Inv'
<1>1. run[a].pc = "start" /\ run[a].idx = 1 /\ run[a].task \in Tasks
  BY DEF Start, At, Inv, RunInv, Fits
<1>2. RunInv' /\ file' \in [Tasks -> Seq(Record)]
  <2>1. CASE GoesTo(a, "err")
    BY <1>1, <2>1, GivesUpStep DEF Start
  <2>2. CASE FailsAt(a, "backend-selection")
    BY <1>1, <2>2, FailsStep DEF Start, StageName
  <2>3. CASE GoesTo(a, "clean") /\ Selection[run[a].task].ok
    <3>1. GoodPlace("clean", run[a].task, run[a].idx)
      <4>1. Len(Roles[run[a].task]) \in 1 .. 4
        BY <1>1, <2>3, RolesShape
      <4>2. \A n \in 1 .. 4 : 1 \in 1 .. n
        OBVIOUS
      <4>3. 1 \in 1 .. Len(Roles[run[a].task])
        BY <4>1, <4>2
      <4> QED BY <1>1, <2>3, <4>3 DEF GoodPlace, Ended
    <3>2. run' = [run EXCEPT ![a].pc = "clean"] /\ <<>> \in Seq(Record)
      BY <2>3 DEF GoesTo
    <3>3. RunInv'
      BY <3>1, <3>2, MovesStep DEF Start, Pc
    <3> QED BY <2>3, <3>3 DEF GoesTo, Inv, PlaceInv
  <2> QED BY <2>1, <2>2, <2>3 DEF Start
<1>3. RowsInv'
  BY RowsStay DEF Start, Inv
<1> QED BY <1>2, <1>3 DEF Start, Inv, PlaceInv

(* The check for a clean worktree. *)
LEMMA CleanStep ==
  ASSUME Inv, NEW a \in Attempts, ensure_clean_worktree(a)
  PROVE  Inv'
<1>1. run[a].pc = "clean"
  BY DEF ensure_clean_worktree, At
<1>2. RunInv' /\ file' \in [Tasks -> Seq(Record)]
  <2>1. CASE FailsAt(a, "prepare")
    BY <1>1, <2>1, FailsStep DEF ensure_clean_worktree, StageName
  <2>2. CASE Records(a, "backend-selection", "ok", "branch")
    <3>1. GoodPlace("branch", run[a].task, run[a].idx)
      BY <1>1, Begun DEF GoodPlace, Ended
    <3>2. Recorded(a, "backend-selection", "ok") \in Seq(Record)
      BY RecordedTyped DEF Status, StageName
    <3>3. run' = [run EXCEPT ![a].pc = "branch",
                             ![a].records = Recorded(a, "backend-selection", "ok")]
      BY <2>2 DEF Records
    <3>4. RunInv'
      BY <3>1, <3>2, <3>3, MovesStep DEF ensure_clean_worktree, Pc
    <3> QED BY <2>2, <3>2, <3>4, FileStep DEF Records
  <2> QED BY <2>1, <2>2 DEF ensure_clean_worktree
<1>3. RowsInv'
  BY RowsStay DEF ensure_clean_worktree, Inv
<1> QED BY <1>2, <1>3 DEF ensure_clean_worktree, Inv, PlaceInv

(* The branch. *)
LEMMA PrepareStep ==
  ASSUME Inv, NEW a \in Attempts, prepare(a)
  PROVE  Inv'
<1> DEFINE t == run[a].task
<1>1. run[a].pc = "branch"
  BY DEF prepare, At
<1>2. /\ t \in Tasks /\ Selection[t].ok /\ run[a].idx \in 1 .. Len(Roles[t])
  BY <1>1, Begun DEF Ended
<1>3. UNCHANGED <<created, dirty>>
  BY DEF prepare
<1>4. RunInv' /\ file' \in [Tasks -> Seq(Record)]
  <2>1. CASE FailsAt(a, "prepare")
    BY <1>1, <1>3, <2>1, FailsStep DEF StageName
  <2>2. CASE GoesTo(a, "prepared")
    <3>1. GoodPlace("prepared", run[a].task, run[a].idx)
      BY <1>2 DEF GoodPlace, Ended
    <3>2. run' = [run EXCEPT ![a].pc = "prepared"] /\ <<>> \in Seq(Record)
      BY <2>2 DEF GoesTo
    <3>3. RunInv'
      BY <1>3, <3>1, <3>2, MovesStep DEF Pc
    <3> QED BY <2>2, <3>3 DEF GoesTo, Inv, PlaceInv
  <2> QED BY <2>1, <2>2 DEF prepare
<1>5. RowsInv'
  BY RowsStay DEF prepare, Inv
<1>6. head' \in Tasks \cup {Main} /\ branches' \subseteq Tasks
  BY <1>2 DEF prepare, Inv, PlaceInv
<1> QED BY <1>4, <1>5, <1>6 DEF prepare, Inv, PlaceInv

(* A count of faults stays within its bound. *)
LEMMA FaultStep == Inv /\ (Fault \/ UNCHANGED faults) => faults' \in 0 .. MaxFaults
BY OrderAssumption DEF Fault, Inv, PlaceInv

(* The record of the preparation. *)
LEMMA PersistStep ==
  ASSUME Inv, NEW a \in Attempts, NEW saved \in BOOLEAN, persist_upstream_provenance(a, saved)
  PROVE  Inv'
<1> DEFINE prepared == Recorded(a, "prepare", "ok")
           records == IF Order[run[a].task].upstream /\ saved
                      THEN Append(prepared, [stage |-> "upstream-provenance", status |-> "ok"])
                      ELSE prepared
           pc == IF saved THEN "stage" ELSE "err"
<1>1. run[a].pc = "prepared" /\ UNCHANGED <<created, dirty, works, questions, head, branches>>
  BY DEF persist_upstream_provenance, At
<1>2. records \in Seq(Record)
  <2>1. prepared \in Seq(Record)
    BY RecordedTyped DEF Status, StageName
  <2>2. [stage |-> "upstream-provenance", status |-> "ok"] \in Record
    BY DEF Record, Status, StageName
  <2> HIDE DEF prepared
  <2> QED BY <2>1, <2>2
<1>3. run' = [run EXCEPT ![a].pc = pc, ![a].records = records] /\ Persists(a, records)
  BY DEF persist_upstream_provenance
<1> HIDE DEF records
<1>4. GoodPlace(pc, run[a].task, run[a].idx) /\ pc \in Pc /\ pc \in {"stage", "err"}
  BY <1>1, Begun DEF GoodPlace, Ended, Pc
<1> HIDE DEF pc
<1>5. RunInv'
  BY <1>1, <1>2, <1>3, <1>4, MovesStep
<1>6. RowsInv'
  BY <1>1, RowsStay DEF Inv
<1>7. file' \in [Tasks -> Seq(Record)]
  BY <1>2, <1>3, FileStep
<1>8. faults' \in 0 .. MaxFaults
  BY FaultStep DEF persist_upstream_provenance, Saves
<1> QED BY <1>1, <1>5, <1>6, <1>7, <1>8 DEF Inv, PlaceInv

(* A row is created only where there is none. *)
LEMMA SubmitStageStep ==
  ASSUME Inv, NEW a \in Attempts, submit_stage(a)
  PROVE  Inv'
<1> DEFINE row == <<run[a].task, run[a].idx, a>>
<1>1. run[a].pc = "stage"
  BY DEF submit_stage, At
<1>2. /\ run[a].task \in Tasks /\ run[a].idx \in 1 .. 4 /\ Selection[run[a].task].ok
      /\ run[a].idx \in 1 .. Len(Roles[run[a].task]) /\ Role(a) \in StageName
  BY <1>1, Begun DEF Ended
<1>3. CASE FailsAt(a, Role(a)) /\ UNCHANGED created
  <2>1. RunInv' /\ file' \in [Tasks -> Seq(Record)]
    BY <1>1, <1>2, <1>3, FailsStep DEF submit_stage
  <2>2. RowsInv'
    BY <1>3, RowsStay DEF submit_stage, Inv
  <2> QED BY <2>1, <2>2 DEF submit_stage, Inv, PlaceInv
<1>4. CASE /\ ~\E b \in Attempts : <<run[a].task, run[a].idx, b>> \in created
           /\ created' = created \cup {row} /\ GoesTo(a, "helper")
  <2>1. GoodPlace("helper", run[a].task, run[a].idx)
    BY <1>2 DEF GoodPlace, Ended
  <2>2. run' = [run EXCEPT ![a].pc = "helper"] /\ <<>> \in Seq(Record)
    BY <1>4 DEF GoesTo
  <2>3. row \in created'
    BY <1>4
  <2>4. RunInv'
    BY <1>4, <2>1, <2>2, <2>3, MovesStep DEF submit_stage, Pc
  <2>5. RowsInv'
    <3>1. created' \subseteq Tasks \X (1 .. 4) \X Attempts
      BY <1>2, <1>4 DEF Inv, RowsInv
    <3>2. ASSUME NEW x \in created', NEW y \in created', x[1] = y[1], x[2] = y[2]
          PROVE  x[3] = y[3]
      <4>1. x \in created \/ x = row
        BY <1>4
      <4>2. y \in created \/ y = row
        BY <1>4
      <4>3. ASSUME NEW z \in created, z[1] = row[1], z[2] = row[2]
            PROVE  FALSE
        <5>1. z = <<run[a].task, run[a].idx, z[3]>> /\ z[3] \in Attempts
          BY <4>3 DEF Inv, RowsInv
        <5> QED BY <1>4, <5>1
      <4>4. x[3] = y[3]
        BY <3>2, <4>1, <4>2, <4>3 DEF Inv, RowsInv
      <4> QED BY <4>4
    <3>3. works' \subseteq created' /\ questions' \subseteq Tasks \X Attempts
          /\ \A q \in questions' : <<q[1], 1, q[2]>> \in created'
      BY <1>4 DEF submit_stage, Inv, RowsInv
    <3> QED BY <3>1, <3>2, <3>3 DEF RowsInv
  <2> QED BY <1>4, <2>4, <2>5 DEF submit_stage, GoesTo, Inv, PlaceInv
<1> QED BY <1>3, <1>4 DEF submit_stage

(* The work an attempt begins is one of a row it has created. *)
LEMMA WorksStep ==
  ASSUME Inv, NEW a \in Attempts, run[a].pc = "helper",
         works' = works \cup {<<run[a].task, run[a].idx, a>>} \/ UNCHANGED works,
         UNCHANGED <<created, questions>>
  PROVE  RowsInv'
<1>1. <<run[a].task, run[a].idx, a>> \in created
  BY DEF Inv, RunInv, HasRow
<1>2. works' \subseteq created'
  BY <1>1 DEF Inv, RowsInv
<1> QED BY <1>2 DEF Inv, RowsInv

(* An agent starts. *)
LEMMA BeginsStep ==
  ASSUME Inv, NEW a \in Attempts, run[a].pc = "helper", NEW records \in Seq(Record),
         NEW d \in SUBSET Attempts,
         \/ run' = [run EXCEPT ![a].pc = "agent", ![a].records = records,
                               ![a].before = Snapshots(a, d)]
         \/ run' = [run EXCEPT ![a].pc = "agent", ![a].before = Snapshots(a, d)],
         UNCHANGED created, dirty' \subseteq dirty \cup {a}
  PROVE  RunInv'
<1>1. run[a] \in Run /\ run[a].task \in Tasks /\ run[a].idx \in 1 .. Len(Roles[run[a].task])
      /\ Selection[run[a].task].ok /\ <<run[a].task, run[a].idx, a>> \in created
  BY Begun DEF Ended, Inv, RunInv, HasRow
<1>2. head \in Tasks \cup {Main}
  BY DEF Inv, PlaceInv
<1> DEFINE before == Snapshots(a, d)
<1>3. before \in [head : Tasks \cup {Main}, dirty : SUBSET Attempts]
  BY <1>1, <1>2 DEF Snapshots, Run
<1> HIDE DEF before
<1>4. \E q \in Run : /\ run' = [run EXCEPT ![a] = q]
                     /\ q.pc = "agent" /\ q.task = run[a].task /\ q.idx = run[a].idx
  <2>1. CASE run' = [run EXCEPT ![a].pc = "agent", ![a].records = records, ![a].before = before]
    <3> DEFINE q == [run[a] EXCEPT !.pc = "agent", !.records = records, !.before = before]
    <3>1. q \in Run /\ q.pc = "agent" /\ q.task = run[a].task /\ q.idx = run[a].idx
      BY <1>1, <1>3 DEF Run, Pc
    <3>2. run' = [run EXCEPT ![a] = q]
      BY <2>1
    <3> HIDE DEF q
    <3> QED BY <3>1, <3>2
  <2>2. CASE run' = [run EXCEPT ![a].pc = "agent", ![a].before = before]
    <3> DEFINE q == [run[a] EXCEPT !.pc = "agent", !.before = before]
    <3>1. q \in Run /\ q.pc = "agent" /\ q.task = run[a].task /\ q.idx = run[a].idx
      BY <1>1, <1>3 DEF Run, Pc
    <3>2. run' = [run EXCEPT ![a] = q]
      BY <2>2
    <3> HIDE DEF q
    <3> QED BY <3>1, <3>2
  <2> QED BY <2>1, <2>2 DEF before
<1>5. PICK q \in Run : /\ run' = [run EXCEPT ![a] = q]
                       /\ q.pc = "agent" /\ q.task = run[a].task /\ q.idx = run[a].idx
  BY <1>4
<1>6. Fits(q) /\ HasRow(q, a, created') /\ NoTrace(q, a, dirty')
  BY <1>1, <1>5 DEF Fits, HasRow, NoTrace, Ended
<1> QED BY <1>5, <1>6, AttemptStep

(* An agent without a helper. *)
LEMMA NoHelperStep ==
  ASSUME Inv, NEW a \in Attempts, NoHelper(a)
  PROVE  Inv'
<1>1. run[a].pc = "helper" /\ <<>> \in Seq(Record) /\ dirty \in SUBSET Attempts
  BY DEF NoHelper, At, Inv, PlaceInv
<1>2. RunInv'
  BY <1>1, BeginsStep DEF NoHelper, AgentStarts
<1>3. RowsInv'
  BY <1>1, WorksStep DEF NoHelper, AgentStarts
<1> QED BY <1>2, <1>3 DEF NoHelper, Inv, PlaceInv

(* The helper before an agent. *)
LEMMA HelperStep ==
  ASSUME Inv, NEW a \in Attempts, NEW writes \in BOOLEAN, NEW ok \in BOOLEAN,
         Helper(a, writes, ok)
  PROVE  Inv'
<1> DEFINE s == IF ok THEN "ok" ELSE "failed"
           records == Recorded(a, "helper", s)
<1>1. run[a].pc = "helper" /\ dirty' \in SUBSET Attempts /\ dirty' \subseteq dirty \cup {a}
  BY DEF Helper, At, Inv, PlaceInv
<1>2. s \in Status
  BY DEF Status
<1>3. records \in Seq(Record)
  <2> HIDE DEF s
  <2> QED BY <1>2, RecordedTyped DEF StageName
<1>4. Persists(a, records)
  BY DEF Helper
<1>5. RunInv' /\ RowsInv'
  <2>1. CASE run' = [run EXCEPT ![a].pc = "err", ![a].records = records] /\ UNCHANGED works
    <3> HIDE DEF records
    <3>1. GoodPlace("err", run[a].task, run[a].idx)
      BY <1>1, Begun DEF GoodPlace, Ended
    <3>2. RunInv'
      BY <1>1, <1>3, <2>1, <3>1, MovesStep DEF Helper, Pc, Ended
    <3> QED BY <2>1, <3>2, RowsStay DEF Helper, Inv
  <2>2. CASE /\ run' = [run EXCEPT ![a].pc = "agent", ![a].records = records,
                                   ![a].before = Snapshots(a, dirty')]
             /\ works' = works \cup {<<run[a].task, run[a].idx, a>>}
    <3>1. UNCHANGED <<created, questions>>
      BY DEF Helper
    <3> HIDE DEF records
    <3>2. RunInv'
      BY <1>1, <1>3, <2>2, <3>1, BeginsStep
    <3> QED BY <1>1, <2>2, <3>1, <3>2, WorksStep
  <2> QED BY <2>1, <2>2 DEF Helper
<1>6. file' \in [Tasks -> Seq(Record)]
  <2> HIDE DEF records
  <2> QED BY <1>3, <1>4, FileStep
<1> QED BY <1>1, <1>5, <1>6 DEF Helper, Inv, PlaceInv

(* The agent writes. *)
LEMMA WritesStep ==
  ASSUME Inv, NEW a \in Attempts, AgentWrites(a)
  PROVE  Inv'
<1>1. /\ run[a].pc = "agent" /\ run[a] \in Run /\ Fits(run[a]) /\ HasRow(run[a], a, created)
      /\ dirty' \subseteq dirty \cup {a} /\ UNCHANGED created
  BY DEF AgentWrites, At, Inv, RunInv
<1>2. RunInv'
  <2>1. CASE run' = [run EXCEPT ![a].wrote = TRUE]
    <3> DEFINE q == [run[a] EXCEPT !.wrote = TRUE]
    <3>1. q \in Run /\ q.pc = "agent" /\ q.task = run[a].task /\ q.idx = run[a].idx
      BY <1>1 DEF Run
    <3>2. run' = [run EXCEPT ![a] = q]
      BY <2>1
    <3> HIDE DEF q
    <3>3. Fits(q) /\ HasRow(q, a, created') /\ NoTrace(q, a, dirty')
      BY <1>1, <3>1 DEF Fits, HasRow, NoTrace
    <3> QED BY <1>1, <3>1, <3>2, <3>3, AttemptStep
  <2>2. CASE run' = [run EXCEPT ![a].copy = TRUE]
    <3> DEFINE q == [run[a] EXCEPT !.copy = TRUE]
    <3>1. q \in Run /\ q.pc = "agent" /\ q.task = run[a].task /\ q.idx = run[a].idx
      BY <1>1 DEF Run
    <3>2. run' = [run EXCEPT ![a] = q]
      BY <2>2
    <3> HIDE DEF q
    <3>3. Fits(q) /\ HasRow(q, a, created') /\ NoTrace(q, a, dirty')
      BY <1>1, <3>1 DEF Fits, HasRow, NoTrace
    <3> QED BY <1>1, <3>1, <3>2, <3>3, AttemptStep
  <2> QED BY <2>1, <2>2 DEF AgentWrites
<1>3. RowsInv'
  BY RowsStay DEF AgentWrites, Inv
<1> QED BY <1>1, <1>2, <1>3 DEF AgentWrites, Inv, PlaceInv

(* A read-only run that is not failed found nothing that was not there before. *)
LEMMA NothingChanged ==
  ASSUME NEW a \in Attempts, FALSE \in MayDiffer(a), run[a].before.dirty = {}
  PROVE  dirty = {}
BY DEF MayDiffer

(* The agent returns; a read-only run is compared. *)
LEMMA ReturnsStep ==
  ASSUME Inv, NEW a \in Attempts, NEW ok \in BOOLEAN, AgentReturns(a, ok)
  PROVE  Inv'
<1>1. /\ run[a].pc = "agent" /\ run[a] \in Run /\ UNCHANGED <<created, dirty>>
      /\ <<run[a].task, run[a].idx, a>> \in created
  BY DEF AgentReturns, At, Inv, RunInv, HasRow
<1>2. Role(a) \in StageName
  BY <1>1, Begun DEF Ended
<1>3. RunInv' /\ file' \in [Tasks -> Seq(Record)]
  <2>1. CASE FailsAt(a, Role(a))
    BY <1>1, <1>2, <2>1, FailsStep
  <2>2. CASE ok /\ Records(a, Role(a), "ok", "answered")
    <3> DEFINE records == Recorded(a, Role(a), "ok")
    <3>1. records \in Seq(Record)
      BY <1>2, RecordedTyped DEF Status
    <3>2. GoodPlace("answered", run[a].task, run[a].idx)
      BY <1>1, Begun DEF GoodPlace, Ended
    <3>3. NoTrace([run[a] EXCEPT !.pc = "answered"], a, dirty')
      <4> DEFINE r == [run[a] EXCEPT !.pc = "answered"]
      <4>1. r.task = run[a].task /\ r.before = run[a].before
        BY <1>1 DEF Run
      <4> HIDE DEF r
      <4>2. ~TakesBranch(r.task) /\ r.before.dirty = {} => a \notin dirty'
        BY <1>1, <2>2, <4>1, NothingChanged DEF AgentReturns
      <4>3. NoTrace(r, a, dirty')
        BY <4>2 DEF NoTrace
      <4> QED BY <4>3 DEF r
    <3>4. run' = [run EXCEPT ![a].pc = "answered", ![a].records = records] /\ Persists(a, records)
      BY <2>2 DEF Records
    <3> HIDE DEF records
    <3>5. RunInv'
      BY <1>1, <3>1, <3>2, <3>3, <3>4, MovesStep DEF Pc
    <3> QED BY <3>1, <3>4, <3>5, FileStep
  <2> QED BY <2>1, <2>2 DEF AgentReturns
<1>4. RowsInv'
  BY RowsStay DEF AgentReturns, Inv
<1> QED BY <1>3, <1>4 DEF AgentReturns, Inv, PlaceInv

(* The next stage is one of the pipeline. *)
LEMMA NextStageFits ==
  ASSUME NEW r \in Run, r.task \in Tasks, Selection[r.task].ok, r.idx \in 1 .. Len(Roles[r.task])
  PROVE  /\ NextStage(r) \in Run /\ Fits(NextStage(r))
         /\ NextStage(r).task = r.task /\ NextStage(r).before = r.before
         /\ NextStage(r).pc \in {"stage", "last"}
<1>1. Len(Roles[r.task]) \in 1 .. 4
  BY RolesShape
<1>2. CASE r.idx < Len(Roles[r.task])
  <2> DEFINE q == [r EXCEPT !.pc = "stage", !.idx = @ + 1]
  <2>1. r.idx + 1 \in 1 .. 4 /\ r.idx + 1 \in 1 .. Len(Roles[r.task])
    <3>1. \A n \in 1 .. 4 : \A i \in 1 .. n :
            i < n => i + 1 \in 1 .. 4 /\ i + 1 \in 1 .. n
      OBVIOUS
    <3> QED BY <1>1, <1>2, <3>1
  <2>2. /\ q \in Run /\ q.task = r.task /\ q.before = r.before
        /\ q.pc = "stage" /\ q.idx = r.idx + 1
    BY <2>1 DEF Run, Pc
  <2>3. NextStage(r) = q
    BY <1>2 DEF NextStage
  <2> HIDE DEF q
  <2>4. Fits(q)
    BY <2>1, <2>2 DEF Fits, Ended
  <2> QED BY <2>2, <2>3, <2>4
<1>3. CASE ~(r.idx < Len(Roles[r.task]))
  <2> DEFINE q == [r EXCEPT !.pc = "last"]
  <2>1. q \in Run /\ q.task = r.task /\ q.before = r.before /\ q.pc = "last" /\ q.idx = r.idx
    BY DEF Run, Pc
  <2>2. NextStage(r) = q
    BY <1>3 DEF NextStage
  <2> HIDE DEF q
  <2>3. Fits(q)
    BY <2>1 DEF Fits, Ended
  <2> QED BY <2>1, <2>2, <2>3
<1> QED BY <1>2, <1>3

(* An attempt whose stage is settled, with a new record r, fails or goes on. *)
LEMMA SettledStep ==
  ASSUME Inv, NEW a \in Attempts, NEW r \in Run, UNCHANGED <<created, dirty>>,
         r.task = run[a].task, r.before = run[a].before, r.idx = run[a].idx,
         run[a].pc \notin {"unused", "start"} \cup Ended,
         \/ r.pc \in {"err", "last", "check"} /\ run' = [run EXCEPT ![a] = r]
         \/ run' = [run EXCEPT ![a] = NextStage(r)],
         r.pc = "check" => TakesBranch(r.task),
         NoTrace(run[a], a, dirty), run[a].pc \in {"answered", "last"} \/ TakesBranch(r.task)
  PROVE  RunInv'
<1>1. r.task \in Tasks /\ Selection[r.task].ok /\ r.idx \in 1 .. Len(Roles[r.task])
  BY Begun
<1>2. CASE r.pc \in {"err", "last", "check"} /\ run' = [run EXCEPT ![a] = r]
  <2>1. Fits(r) /\ HasRow(r, a, created') /\ NoTrace(r, a, dirty')
    BY <1>1, <1>2 DEF Fits, HasRow, NoTrace, Ended
  <2> QED BY <1>2, <2>1, AttemptStep
<1>3. CASE run' = [run EXCEPT ![a] = NextStage(r)]
  <2> DEFINE q == NextStage(r)
  <2>1. /\ q \in Run /\ Fits(q) /\ q.task = r.task /\ q.before = r.before
        /\ q.pc \in {"stage", "last"}
    BY <1>1, NextStageFits
  <2>2. run' = [run EXCEPT ![a] = q]
    BY <1>3
  <2> HIDE DEF q
  <2>3. HasRow(q, a, created') /\ NoTrace(q, a, dirty')
    BY <2>1 DEF HasRow, NoTrace
  <2> QED BY <2>1, <2>2, <2>3, AttemptStep
<1> QED BY <1>2, <1>3

(* A question is one of who has the analyst's row, the first. *)
LEMMA AsksStep ==
  ASSUME Inv, NEW a \in Attempts, NEW asks \in BOOLEAN, run[a].pc = "answered", Asks(a, asks),
         UNCHANGED <<created, works>>
  PROVE  RowsInv'
<1>1. <<run[a].task, run[a].idx, a>> \in created /\ run[a].task \in Tasks
  BY Begun DEF Inv, RunInv, HasRow
<1>2. asks => run[a].idx = 1
  <2> SUFFICES ASSUME asks PROVE run[a].idx = 1
    OBVIOUS
  <2>1. Role(a) = "analyst"
    BY DEF Asks
  <2> QED BY <2>1, Begun, RolesShape DEF Role, Ended
<1>3. \A q \in questions' : q \in Tasks \X Attempts /\ <<q[1], 1, q[2]>> \in created
  <2> TAKE q \in questions'
  <2>1. CASE q \in questions
    BY <2>1 DEF Inv, RowsInv
  <2>2. CASE asks /\ q = <<run[a].task, a>>
    BY <1>1, <1>2, <2>2
  <2> QED BY <2>1, <2>2 DEF Asks
<1> QED BY <1>3 DEF Inv, RowsInv

(* What an answer changes of a run's record. *)
LEMMA AlongTyped ==
  ASSUME NEW r \in Run, NEW role
  PROVE  LET q == Along(r, AnswerPath(r.wf, role))
         IN /\ q \in Run /\ q.task = r.task /\ q.before = r.before /\ q.idx = r.idx /\ q.pc = r.pc
<1> DEFINE path == AnswerPath(r.wf, role)
           more == r.reviewed \/ (path[2] = "Checking" /\ path[3] = "Reviewed")
<1>1. path[3] \in {"Created", "Planned", "Executing", "Checking", "Reviewed", "Completed"}
  BY DEF AnswerPath, Run
<1>2. more \in BOOLEAN
  BY DEF Run
<1>3. Along(r, path) = [r EXCEPT !.wf = path[3], !.reviewed = more]
  BY DEF Along
<1> HIDE DEF path, more
<1>4. /\ Along(r, path) \in Run /\ Along(r, path).task = r.task /\ Along(r, path).idx = r.idx
      /\ Along(r, path).before = r.before /\ Along(r, path).pc = r.pc
  BY <1>1, <1>2, <1>3 DEF Run
<1> QED BY <1>4 DEF path

(* What the answer leads to. *)
LEMMA AnsweredStep ==
  ASSUME Inv, NEW a \in Attempts, NEW asks \in BOOLEAN, Answered(a, asks)
  PROVE  Inv'
<1> DEFINE r == run[a]
           next == Along(r, AnswerPath(r.wf, Role(a)))
           failed == [r EXCEPT !.pc = "err"]
           coded == [next EXCEPT !.pc = "check"]
<1>1. r.pc = "answered" /\ r \in Run /\ UNCHANGED <<created, dirty>> /\ NoTrace(r, a, dirty)
  BY DEF Answered, At, Inv, RunInv
<1>2. r.task \in Tasks /\ Selection[r.task].ok /\ r.idx \in 1 .. Len(Roles[r.task])
  BY <1>1, Begun DEF Ended
<1>3. \/ run' = [run EXCEPT ![a] = failed]
      \/ Role(a) = "coder" /\ run' = [run EXCEPT ![a] = coded]
      \/ run' = [run EXCEPT ![a] = NextStage(next)]
  BY DEF Answered, Becomes
<1>4. /\ failed \in Run /\ failed.task = r.task /\ failed.before = r.before /\ failed.idx = r.idx
      /\ failed.pc = "err"
  BY <1>1 DEF Run, Pc, Ended
<1>5. next \in Run /\ next.task = r.task /\ next.before = r.before /\ next.idx = r.idx
      /\ next.pc = "answered"
  BY <1>1, AlongTyped
<1> HIDE DEF next, failed
<1>6. /\ coded \in Run /\ coded.task = r.task /\ coded.before = r.before /\ coded.idx = r.idx
      /\ coded.pc = "check"
  BY <1>5 DEF Run, Pc
<1> HIDE DEF coded
<1>7. Role(a) = "coder" => TakesBranch(r.task)
  <2> SUFFICES ASSUME Role(a) = "coder", ~TakesBranch(r.task) PROVE FALSE
    OBVIOUS
  <2>1. Len(Roles[r.task]) = 1 /\ Roles[r.task][1] # "coder"
    BY <1>2, RolesShape
  <2>2. r.idx = 1
    BY <1>2, <2>1
  <2> QED BY <2>1, <2>2 DEF Role
<1>8. RunInv'
  <2>1. CASE run' = [run EXCEPT ![a] = failed]
    BY <1>1, <1>4, <2>1, SettledStep DEF Ended
  <2>2. CASE Role(a) = "coder" /\ run' = [run EXCEPT ![a] = coded]
    BY <1>1, <1>6, <1>7, <2>2, SettledStep DEF Ended
  <2>3. CASE run' = [run EXCEPT ![a] = NextStage(next)]
    BY <1>1, <1>5, <2>3, SettledStep DEF Ended
  <2> QED BY <1>3, <2>1, <2>2, <2>3
<1>9. RowsInv'
  BY <1>1, AsksStep DEF Answered
<1> QED BY <1>8, <1>9 DEF Answered, Inv, PlaceInv

(* The check. *)
LEMMA CheckStep ==
  ASSUME Inv, NEW a \in Attempts, run_check_stage(a)
  PROVE  Inv'
<1> DEFINE r == run[a]
           records == Recorded(a, "check", "ok")
           next == [r EXCEPT !.records = records, !.checked = TRUE, !.wf = "Checking",
                             !.diff = dirty]
           failed == [r EXCEPT !.pc = "err", !.records = records]
<1>1. /\ r.pc \in {"check", "last"} /\ r \in Run /\ UNCHANGED <<created, dirty>>
      /\ NoTrace(r, a, dirty) /\ Fits(r) /\ dirty \in SUBSET Attempts
  BY DEF run_check_stage, At, Inv, RunInv, PlaceInv
<1>2. records \in Seq(Record)
  BY RecordedTyped DEF StageName, Status
<1>3. \/ run' = [run EXCEPT ![a] = failed]
      \/ run' = [run EXCEPT ![a] = NextStage(next)]
      \/ r.pc = "last" /\ run' = [run EXCEPT ![a] = next]
  BY DEF run_check_stage, At, Becomes
<1>4. Persists(a, records)
  BY DEF run_check_stage
<1> HIDE DEF records
<1>5. /\ failed \in Run /\ failed.task = r.task /\ failed.before = r.before /\ failed.idx = r.idx
      /\ failed.pc = "err"
  BY <1>1, <1>2 DEF Run, Pc, Ended
<1>6. next \in Run /\ next.task = r.task /\ next.before = r.before /\ next.idx = r.idx
      /\ next.pc = r.pc
  BY <1>1, <1>2 DEF Run
<1>7. r.pc = "check" => TakesBranch(r.task)
  BY <1>1 DEF Fits, Ended
<1> HIDE DEF next, failed
<1>8. RunInv'
  <2>1. CASE run' = [run EXCEPT ![a] = failed]
    BY <1>1, <1>5, <1>7, <2>1, SettledStep DEF Ended
  <2>2. CASE r.pc = "last" /\ run' = [run EXCEPT ![a] = next]
    BY <1>1, <1>6, <2>2, SettledStep DEF Ended
  <2>3. CASE run' = [run EXCEPT ![a] = NextStage(next)]
    BY <1>1, <1>6, <1>7, <2>3, SettledStep DEF Ended
  <2> QED BY <1>3, <2>1, <2>2, <2>3
<1>9. RowsInv'
  BY RowsStay DEF run_check_stage, Inv
<1> QED BY <1>2, <1>4, <1>8, <1>9, FileStep DEF run_check_stage, Inv, PlaceInv

(* The end of the pipeline. *)
LEMMA FinishStep ==
  ASSUME Inv, NEW a \in Attempts, NEW synced \in BOOLEAN, NEW saved \in BOOLEAN,
         Finish(a, synced, saved)
  PROVE  Inv'
<1> DEFINE r == run[a]
           project == IF Order[r.task].project THEN Recorded(a, "github-project", "ok")
                      ELSE r.records
           records == Append(project, [stage |-> "complete", status |-> "ok"])
<1>1. /\ r.pc = "last" /\ r \in Run /\ UNCHANGED <<created, dirty>>
      /\ NoTrace(r, a, dirty)
  BY DEF Finish, At, Inv, RunInv
<1>2. r.task \in Tasks /\ Selection[r.task].ok /\ r.idx \in 1 .. Len(Roles[r.task])
  BY <1>1, Begun DEF Ended
<1>3. project \in Seq(Record)
  <2>1. Recorded(a, "github-project", "ok") \in Seq(Record)
    BY RecordedTyped DEF StageName, Status
  <2> QED BY <1>1, <2>1 DEF Run
<1>4. \/ GoesTo(a, "err")
      \/ FailsAt(a, "github-project")
      \/ Persists(a, project) /\ run' = [run EXCEPT ![a].pc = "err", ![a].records = project]
      \/ /\ Persists(a, records)
         /\ run' = [run EXCEPT ![a].pc = "ok", ![a].records = records, ![a].wf = "Completed"]
  BY DEF Finish
<1> HIDE DEF project
<1>5. records \in Seq(Record)
  BY <1>3 DEF Record, StageName, Status
<1> HIDE DEF records
<1>6. RunInv' /\ file' \in [Tasks -> Seq(Record)]
  <2>1. CASE GoesTo(a, "err")
    BY <1>1, <2>1, GivesUpStep
  <2>2. CASE FailsAt(a, "github-project")
    BY <1>1, <2>2, FailsStep DEF StageName
  <2>3. CASE Persists(a, project) /\ run' = [run EXCEPT ![a].pc = "err", ![a].records = project]
    <3>1. GoodPlace("err", run[a].task, run[a].idx)
      BY <1>2 DEF GoodPlace, Ended
    <3>2. RunInv'
      BY <1>1, <1>3, <2>3, <3>1, MovesStep DEF Pc, Ended
    <3> QED BY <1>3, <2>3, <3>2, FileStep
  <2>4. CASE /\ Persists(a, records)
             /\ run' = [run EXCEPT ![a].pc = "ok", ![a].records = records, ![a].wf = "Completed"]
    <3> DEFINE q == [r EXCEPT !.pc = "ok", !.records = records, !.wf = "Completed"]
    <3>1. q \in Run /\ q.pc = "ok" /\ q.task = r.task /\ q.before = r.before /\ q.idx = r.idx
      BY <1>1, <1>5 DEF Run, Pc, Ended
    <3>2. run' = [run EXCEPT ![a] = q]
      BY <2>4
    <3> HIDE DEF q
    <3>3. Fits(q) /\ HasRow(q, a, created') /\ NoTrace(q, a, dirty')
      BY <1>1, <1>2, <3>1 DEF Fits, HasRow, NoTrace, Ended
    <3>4. RunInv'
      BY <1>1, <3>1, <3>2, <3>3, AttemptStep
    <3> QED BY <1>5, <2>4, <3>4, FileStep
  <2> QED BY <1>4, <2>1, <2>2, <2>3, <2>4
<1>7. RowsInv'
  BY RowsStay DEF Finish, Inv
<1>8. faults' \in 0 .. MaxFaults
  BY FaultStep DEF Finish, Saves
<1> QED BY <1>6, <1>7, <1>8 DEF Finish, Inv, PlaceInv

(* A call fails, and its stage is recorded as failed. *)
LEMMA CallFailsStep ==
  ASSUME Inv, NEW a \in Attempts, CallFails(a)
  PROVE  Inv'
<1>1. run[a].pc \in {"clean", "branch", "stage", "check", "last"}
  BY DEF CallFails, At
<1>2. Role(a) \in StageName
  BY <1>1, Begun DEF Ended
<1>3. \E stage \in StageName : FailsAt(a, stage)
  BY <1>2 DEF CallFails, StageName
<1>4. RunInv' /\ file' \in [Tasks -> Seq(Record)]
  BY <1>1, <1>3, FailsStep DEF CallFails
<1>5. RowsInv'
  BY RowsStay DEF CallFails, Inv
<1>6. faults' \in 0 .. MaxFaults
  BY FaultStep DEF CallFails
<1> QED BY <1>4, <1>5, <1>6 DEF CallFails, Inv, PlaceInv

(* A run ends and no record says why. *)
LEMMA UnrecordedStep ==
  ASSUME Inv, NEW a \in Attempts, EndsUnrecorded(a)
  PROVE  Inv'
<1>1. run[a].pc # "unused" /\ GoesTo(a, "err") /\ dirty' \subseteq dirty \cup {a}
  BY DEF EndsUnrecorded, Live
<1>2. RunInv' /\ file' \in [Tasks -> Seq(Record)]
  BY <1>1, GivesUpStep DEF EndsUnrecorded
<1>3. RowsInv'
  BY RowsStay DEF EndsUnrecorded, Inv
<1>4. faults' \in 0 .. MaxFaults
  BY FaultStep DEF EndsUnrecorded
<1>5. dirty' \subseteq Attempts
  BY <1>1 DEF Inv, PlaceInv
<1> QED BY <1>2, <1>3, <1>4, <1>5 DEF EndsUnrecorded, Inv, PlaceInv

(* The process dies. *)
LEMMA DiesStep ==
  ASSUME Inv, NEW a \in Attempts, Dies(a)
  PROVE  Inv'
<1>1. run[a].pc # "unused" /\ run' = [run EXCEPT ![a].pc = "dead"] /\ <<>> \in Seq(Record)
  BY DEF Dies, Live
<1>2. GoodPlace("dead", run[a].task, run[a].idx)
  BY <1>1, Begun DEF GoodPlace, Ended
<1>3. UNCHANGED <<created, dirty>>
  BY DEF Dies
<1>4. RunInv'
  BY <1>1, <1>2, <1>3, MovesStep DEF Pc, Ended
<1>5. RowsInv'
  BY RowsStay DEF Dies, Inv
<1>6. faults' \in 0 .. MaxFaults
  BY FaultStep DEF Dies
<1> QED BY <1>4, <1>5, <1>6 DEF Dies, Inv, PlaceInv

(* finalize commits. *)
LEMMA CommittedStep ==
  ASSUME Inv, Committed
  PROVE  Inv'
<1>1. RunInv'
  BY DEF Committed, Inv, RunInv, NoTrace, HasRow
<1>2. RowsInv'
  BY RowsStay DEF Committed, Inv
<1> QED BY <1>1, <1>2 DEF Committed, Inv, PlaceInv

(* The number of an attempt among those of its task. *)
LEMMA CountedAttempts ==
  ASSUME NEW S \in SUBSET Attempts
  PROVE  Cardinality(S) + 1 \in Nat
<1>1. IsFiniteSet(Attempts)
  BY OrderAssumption, FS_Interval DEF Attempts
<1>2. IsFiniteSet(S)
  BY <1>1, FS_Subset
<1> QED BY <1>2, FS_CardinalityType

(* An attempt that was not launched. *)
LEMMA UnusedTyped ==
  /\ Unused \in Run /\ Unused.pc = "unused" /\ Unused.idx = 1 /\ Unused.task = Main
  /\ Unused.before.dirty = {}
BY DEF Unused, Run, Pc

(* A launch ends the solitude of the live attempts. *)
LEMMA LaunchStep ==
  ASSUME Inv, NEW a \in Attempts, NEW t \in Tasks, Launch(a, t)
  PROVE  Inv'
<1> DEFINE n == Cardinality({b \in Attempts : ~At(b, "unused") /\ run[b].task = t}) + 1
           alone == Live = {}
           q == [Unused EXCEPT !.task = t, !.n = n, !.pc = "start", !.alone = alone]
<1>1. run' = [[b \in Attempts |-> IF b \in Live THEN [run[b] EXCEPT !.alone = FALSE] ELSE run[b]]
                EXCEPT ![a] = q]
  BY DEF Launch
<1>2. n \in Nat
  BY CountedAttempts
<1>3. alone \in BOOLEAN
  OBVIOUS
<1> HIDE DEF n, alone
<1>4. q \in Run /\ q.pc = "start" /\ q.idx = 1 /\ q.task = t
  BY <1>2, <1>3, UnusedTyped DEF Run, Pc
<1> HIDE DEF q
<1>5. ASSUME NEW b \in Attempts
      PROVE  /\ run'[b] \in Run /\ Fits(run'[b])
             /\ HasRow(run'[b], b, created') /\ NoTrace(run'[b], b, dirty')
  <2>1. CASE b = a
    <3>1. run'[b] = q
      BY <1>1, <2>1
    <3> QED BY <1>4, <3>1 DEF Fits, HasRow, NoTrace, Ended
  <2>2. CASE b # a /\ b \in Live
    <3> DEFINE p == [run[b] EXCEPT !.alone = FALSE]
    <3>1. run'[b] = p
      BY <1>1, <2>2
    <3>2. run[b] \in Run
      BY DEF Inv, RunInv
    <3>3. /\ p \in Run /\ p.pc = run[b].pc /\ p.task = run[b].task /\ p.idx = run[b].idx
          /\ p.before = run[b].before
      BY <3>2 DEF Run
    <3> HIDE DEF p
    <3>4. Fits(p) /\ HasRow(p, b, created) /\ NoTrace(p, b, dirty)
      BY <3>3 DEF Inv, RunInv, Fits, HasRow, NoTrace
    <3> QED BY <3>1, <3>3, <3>4 DEF Launch
  <2>3. CASE b # a /\ b \notin Live
    <3>1. run'[b] = run[b]
      BY <1>1, <2>3
    <3> QED BY <3>1 DEF Launch, Inv, RunInv
  <2> QED BY <2>1, <2>2, <2>3
<1>6. DOMAIN run' = Attempts /\ run' = [b \in DOMAIN run' |-> run'[b]]
  BY <1>1
<1>7. RunInv'
  BY <1>5, <1>6 DEF RunInv
<1>8. RowsInv'
  BY RowsStay DEF Launch, Inv
<1> QED BY <1>7, <1>8 DEF Launch, Inv, PlaceInv

-----------------------------------------------------------------------------
(* The invariant holds. *)

(* The invariant holds at first. *)
LEMMA InitInv == Init => Inv
<1> SUFFICES ASSUME Init PROVE Inv
  OBVIOUS
<1>1. RunInv
  BY UnusedTyped DEF Init, RunInv, Fits, HasRow, NoTrace, Ended
<1>2. RowsInv
  BY DEF Init, RowsInv
<1>3. PlaceInv
  BY OrderAssumption DEF Init, PlaceInv
<1> QED BY <1>1, <1>2, <1>3 DEF Inv

(* Every step keeps it. *)
LEMMA InvStep == Inv /\ [Next]_vars => Inv'
<1> SUFFICES ASSUME Inv, [Next]_vars PROVE Inv'
  OBVIOUS
<1>1. CASE Next
  <2>1. ASSUME NEW a \in Attempts, Proceeds(a)
        PROVE  Inv'
    BY <2>1, StartStep, CleanStep, PrepareStep, PersistStep, SubmitStageStep, NoHelperStep, HelperStep,
       AnsweredStep, CheckStep, FinishStep DEF Proceeds
  <2> QED BY <1>1, <2>1, CommittedStep, LaunchStep, WritesStep, ReturnsStep, CallFailsStep,
         UnrecordedStep, DiesStep DEF Next
<1>2. CASE UNCHANGED vars
  BY <1>2 DEF vars, Inv, RunInv, RowsInv, PlaceInv, HasRow, NoTrace
<1> QED BY <1>1, <1>2

(* Every attempt's state fits its place in the pipeline and every row of
   tasks.json has one creator, whatever is submitted again and however many
   attempts overlap (submit.rs 45-346). *)
THEOREM RowsHaveOneCreator == Spec => []SubmitInv
<1>1. Spec => []Inv
  BY InitInv, InvStep, PTL DEF Spec
<1>2. Inv => SubmitInv
  BY InvIs
<1> QED BY <1>1, <1>2, PTL

(* No stage of a run is given to an agent twice and its questions are asked
   once: the refusal of a second row is enough for it (submit.rs 140-153,
   stellaris.rs 26-45). *)
THEOREM NoStageTwice == Spec => []WorkedOnce
<1>1. Spec => []Inv
  BY InitInv, InvStep, PTL DEF Spec
<1>2. ASSUME Inv
      PROVE  WorkedOnce
  <2>1. ASSUME NEW x \in works, NEW y \in works, x[1] = y[1], x[2] = y[2]
        PROVE  x = y
    <3>1. x \in Tasks \X (1 .. 4) \X Attempts /\ y \in Tasks \X (1 .. 4) \X Attempts
      BY <1>2 DEF Inv, RowsInv
    <3>2. x[3] = y[3]
      BY <1>2, <2>1 DEF Inv, RowsInv
    <3> QED BY <2>1, <3>1, <3>2
  <2>2. ASSUME NEW p \in questions, NEW q \in questions, p[1] = q[1]
        PROVE  p = q
    <3>1. p \in Tasks \X Attempts /\ q \in Tasks \X Attempts
      BY <1>2 DEF Inv, RowsInv
    <3> DEFINE x == <<p[1], 1, p[2]>>
               y == <<q[1], 1, q[2]>>
    <3>2. x \in created /\ y \in created
      BY <1>2 DEF Inv, RowsInv
    <3>3. x[3] = y[3]
      BY <1>2, <2>2, <3>2 DEF Inv, RowsInv
    <3> QED BY <2>2, <3>1, <3>3
  <2> QED BY <2>1, <2>2 DEF WorkedOnce
<1> QED BY <1>1, <1>2, PTL

=============================================================================
