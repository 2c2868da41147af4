--------------------------- MODULE CanopusSubmit ---------------------------
(***************************************************************************)
(* `canopus submit`, from the inside: what CanopusAgent abstracts to the   *)
(* phases "preparing" and "working".  Attempts run at the same time on one *)
(* repository with one state directory, and a task may be attempted again. *)
(*                                                                         *)
(* The state directory holds tasks.json, to which a stage of a run can be  *)
(* added only once and which nobody clears, and the run's record, which    *)
(* every attempt overwrites with its own.  Uncommitted changes are         *)
(* attributed to the attempt that made them.                               *)
(***************************************************************************)
EXTENDS Backends, FiniteSets

CONSTANTS
  Tasks,        \* run identities
  Order,        \* for each task [role_mode, type, request, upstream, project, mutate]
  MaxAttempts,  \* bound on the submit processes; number 1 is launched first
  Main,         \* the branch the repository is on at first
  MaxFaults     \* bound on the calls that fail and the attempts that are killed

ASSUME OrderAssumption ==
  /\ DOMAIN Order = Tasks /\ Main \notin Tasks
  /\ MaxAttempts \in Nat /\ MaxFaults \in Nat

Attempts == 1 .. MaxAttempts

VARIABLES
  run,          \* the state of each attempt
  head,         \* the branch that is checked out
  branches,     \* tasks whose branch exists
  dirty,        \* the attempts whose changes are uncommitted
  created,      \* <<task, stage number, attempt>> of the rows of tasks.json
  file,         \* runs/<task>.json
  questions,    \* <<task, attempt>> for each Q&A issue on GitHub
  works,        \* <<task, stage number, attempt>> an agent was started for (history)
  faults        \* calls failed and attempts killed, at most MaxFaults

vars == <<run, head, branches, dirty, created, file, questions, works, faults>>

\* resolve, for every task; constants of the model.
Selection == [t \in Tasks |-> resolve(Order[t])]
Runtime == [t \in Tasks |-> IF Selection[t].ok
                            THEN selected_runtime_for_backend(Selection[t]) ELSE NoName]
Roles == [t \in Tasks |-> IF Selection[t].ok
                          THEN agent_roles(pipeline_for_selection(Selection[t], Order[t].type))
                          ELSE <<>>]
TakesBranch(t) == Selection[t].ok /\ Selection[t].preparation = "branch"

Unused ==
  [task |-> Main, n |-> 0, pc |-> "unused", idx |-> 1, wf |-> "Created", checked |-> FALSE,
   reviewed |-> FALSE, records |-> <<>>, before |-> [head |-> Main, dirty |-> {}],
   copy |-> FALSE, diff |-> {}, wrote |-> FALSE, alone |-> TRUE]

Ended == {"ok", "err", "dead"}
Live == {a \in Attempts : run[a].pc \notin Ended \cup {"unused"}}

\* The role of the stage attempt a is at; stages are numbered from 1 here.
Role(a) == Roles[run[a].task][run[a].idx]

Init ==
  /\ run = [a \in Attempts |-> Unused]
  /\ head = Main
  /\ branches = {} /\ dirty = {} /\ created = {} /\ questions = {} /\ works = {}
  /\ file = [t \in Tasks |-> <<>>]
  /\ faults = 0

At(a, pc) == run[a].pc = pc

Fault == faults < MaxFaults /\ faults' = faults + 1

\* The last of several writes succeeds, or not.
Saves(saved) == IF saved THEN UNCHANGED faults ELSE Fault

\* persist_run_records: the whole file, with this attempt's records.
Persists(a, records) == file' = [file EXCEPT ![run[a].task] = records]

Recorded(a, stage, status) == Append(run[a].records, [stage |-> stage, status |-> status])

\* StageTimer: the stage gets its record, and the attempt goes on at pc.
Records(a, stage, status, pc) ==
  /\ run' = [run EXCEPT ![a].pc = pc, ![a].records = Recorded(a, stage, status)]
  /\ Persists(a, Recorded(a, stage, status))

\* try_stage!: the failure is recorded and ends the run.
FailsAt(a, stage) == Records(a, stage, "failed", "err")

Becomes(a, q) == run' = [run EXCEPT ![a] = q]

GoesTo(a, pc) == run' = [run EXCEPT ![a].pc = pc] /\ UNCHANGED file

\* The next role, or the end of the pipeline.
NextStage(r) ==
  IF r.idx < Len(Roles[r.task]) THEN [r EXCEPT !.pc = "stage", !.idx = @ + 1]
  ELSE [r EXCEPT !.pc = "last"]

\* Every change of the workflow state along path is one transition_to allows.
Allowed(path) ==
  \A i \in 1 .. Len(path) - 1 : path[i] # path[i + 1] => transition_to(path[i], path[i + 1])

-----------------------------------------------------------------------------
(* Before the pipeline. *)

Launch(a, t) ==
  /\ At(a, "unused") /\ \A b \in Attempts : b < a => ~At(b, "unused")
  /\ LET earlier == {b \in Attempts : ~At(b, "unused") /\ run[b].task = t}
     IN run' = [[b \in Attempts |-> IF b \in Live THEN [run[b] EXCEPT !.alone = FALSE] ELSE run[b]]
                  EXCEPT ![a] = [Unused EXCEPT !.task = t, !.n = Cardinality(earlier) + 1,
                                               !.pc = "start", !.alone = (Live = {})]]
  /\ UNCHANGED <<head, branches, dirty, created, file, questions, works, faults>>

\* Configuration and selection; a failed selection is recorded.
Start(a) ==
  /\ At(a, "start")
  /\ LET t == run[a].task
     IN CASE ~validate(Registry) \/ ~HelperConfigReads -> GoesTo(a, "err")
          [] ~Selection[t].ok    -> FailsAt(a, "backend-selection")
          [] Runtime[t] = NoName -> GoesTo(a, "err")
          [] OTHER               -> GoesTo(a, "clean")
  /\ UNCHANGED <<head, branches, dirty, created, questions, works, faults>>

ensure_clean_worktree(a) ==
  /\ At(a, "clean")
  /\ IF dirty # {} THEN FailsAt(a, "prepare")
     ELSE Records(a, "backend-selection", "ok", "branch")
  /\ UNCHANGED <<head, branches, dirty, created, questions, works, faults>>

\* Mutant: `git checkout -B`, a branch that exists is taken over.
prepare_on_any_branch(a) ==
  LET t == run[a].task
  IN /\ At(a, "branch")
     /\ GoesTo(a, "prepared")
     /\ branches' = IF TakesBranch(t) THEN branches \cup {t} ELSE branches
     /\ head' = IF TakesBranch(t) THEN t ELSE head
     /\ UNCHANGED <<dirty, created, questions, works, faults>>

\* `git checkout -b`, where the policy asks for it.
prepare(a) ==
  LET t == run[a].task
  IN /\ At(a, "branch")
     /\ IF TakesBranch(t) /\ t \in branches
        THEN FailsAt(a, "prepare") /\ UNCHANGED <<head, branches>>
        ELSE /\ GoesTo(a, "prepared")
             /\ branches' = IF TakesBranch(t) THEN branches \cup {t} ELSE branches
             /\ head' = IF TakesBranch(t) THEN t ELSE head
     /\ UNCHANGED <<dirty, created, questions, works, faults>>

\* The record of the preparation and, in a second write that may fail, of where
\* the task comes from; then the copy of a read-only run.
persist_upstream_provenance(a, saved) ==
  LET prepared == Recorded(a, "prepare", "ok")
      records == IF Order[run[a].task].upstream /\ saved
                 THEN Append(prepared, [stage |-> "upstream-provenance", status |-> "ok"])
                 ELSE prepared
  IN /\ At(a, "prepared")
     /\ run' = [run EXCEPT ![a].pc = IF saved THEN "stage" ELSE "err", ![a].records = records]
     /\ Persists(a, records)
     /\ Saves(saved)
     /\ UNCHANGED <<head, branches, dirty, created, questions, works>>

-----------------------------------------------------------------------------
(* One stage of the pipeline. *)

\* The snapshots a read-only run takes before its agent starts.
Snapshots(a, uncommitted) ==
  IF TakesBranch(run[a].task) THEN run[a].before
  ELSE [head |-> head, dirty |-> uncommitted]

\* The agent starts.
AgentStarts(a) ==
  /\ run' = [run EXCEPT ![a].pc = "agent", ![a].before = Snapshots(a, dirty)]
  /\ works' = works \cup {<<run[a].task, run[a].idx, a>>}

\* Mutant: a stage whose row exists is worked on again.
submit_stage_again(a) ==
  /\ At(a, "stage")
  /\ created' = created \cup {<<run[a].task, run[a].idx, a>>}
  /\ GoesTo(a, "helper")
  /\ UNCHANGED <<head, branches, dirty, questions, works, faults>>

\* Mutant: a stage whose row exists waits for whoever created it.
submit_stage_waits(a) ==
  /\ At(a, "stage")
  /\ ~\E b \in Attempts : <<run[a].task, run[a].idx, b>> \in created
  /\ created' = created \cup {<<run[a].task, run[a].idx, a>>}
  /\ GoesTo(a, "helper")
  /\ UNCHANGED <<head, branches, dirty, questions, works, faults>>

\* backend.submit: FileTaskTable::create refuses an id that exists.
submit_stage(a) ==
  /\ At(a, "stage")
  /\ IF \E b \in Attempts : <<run[a].task, run[a].idx, b>> \in created
     THEN FailsAt(a, Role(a)) /\ UNCHANGED created
     ELSE /\ created' = created \cup {<<run[a].task, run[a].idx, a>>}
          /\ GoesTo(a, "helper")
  /\ UNCHANGED <<head, branches, dirty, questions, works, faults>>

NoHelper(a) ==
  /\ At(a, "helper") /\ ~select_pre_run_helpers(Role(a))
  /\ AgentStarts(a)
  /\ UNCHANGED <<head, branches, dirty, created, file, questions, faults>>

\* run_pre_run_helpers: repo-explore works in the repository itself, and is
\* failed when the repository changed under it; it may fail without.
Helper(a, writes, ok) ==
  /\ At(a, "helper") /\ select_pre_run_helpers(Role(a))
  /\ HelperConfig.mode = "mock" => ok
  /\ writes => HelperConfig.mode = "repo-explore" /\ ~ok
  /\ dirty' = IF writes THEN dirty \cup {a} ELSE dirty
  /\ LET records == Recorded(a, "helper", IF ok THEN "ok" ELSE "failed")
     IN /\ Persists(a, records)
        /\ IF ~ok /\ HelperConfig.policy = "fail-fast"
           THEN run' = [run EXCEPT ![a].pc = "err", ![a].records = records] /\ UNCHANGED works
           ELSE /\ run' = [run EXCEPT ![a].pc = "agent", ![a].records = records,
                                      ![a].before = Snapshots(a, dirty')]
                /\ works' = works \cup {<<run[a].task, run[a].idx, a>>}
  /\ UNCHANGED <<head, branches, created, questions, faults>>

\* The agent changes files: in its working directory, which is the repository
\* or a read-only run's copy, or, without a sandbox, in either.
AgentWrites(a) ==
  LET reach == Reach(Runtime[run[a].task], Role(a))
      branch == TakesBranch(run[a].task)
  IN /\ At(a, "agent") /\ reach # "nowhere"
     /\ \/ /\ branch \/ reach = "anywhere"
           /\ dirty' = dirty \cup {a}
           /\ run' = [run EXCEPT ![a].wrote = TRUE]
        \/ /\ ~branch
           /\ run' = [run EXCEPT ![a].copy = TRUE]
           /\ UNCHANGED dirty
     /\ UNCHANGED <<head, branches, created, file, questions, works, faults>>

\* Mutant: only the copy is compared.
ChangedInCopy(a) == IF run[a].copy THEN {TRUE} ELSE {FALSE}

\* Do the snapshots of a read-only run differ?  They hold the current branch
\* and the changed paths: attempts that change files may change the same ones.
MayDiffer(a) ==
  LET before == run[a].before
  IN CASE run[a].copy \/ head # before.head                    -> {TRUE}
       [] ~run[a].copy /\ head = before.head /\ dirty = before.dirty -> {FALSE}
       [] OTHER -> IF {} \in {dirty, before.dirty} THEN {TRUE} ELSE {TRUE, FALSE}

\* Mutant: the record of the stage is left for the next one to write.
returns_unrecorded(a, ok) ==
  /\ At(a, "agent")
  /\ ok => TakesBranch(run[a].task) \/ FALSE \in MayDiffer(a)
  /\ IF ok THEN GoesTo(a, "answered") ELSE FailsAt(a, Role(a))
  /\ UNCHANGED <<head, branches, dirty, created, questions, works, faults>>

\* The agent has answered, or has not.
AgentReturns(a, ok) ==
  /\ At(a, "agent")
  /\ ok => TakesBranch(run[a].task) \/ FALSE \in MayDiffer(a)
  /\ IF ok THEN Records(a, Role(a), "ok", "answered") ELSE FailsAt(a, Role(a))
  /\ UNCHANGED <<head, branches, dirty, created, questions, works, faults>>

\* maybe_create_qa_issue, where GitHub may be changed; it may fail.
Asks(a, asks) ==
  /\ asks => Role(a) = "analyst" /\ Order[run[a].task].mutate
  /\ questions' = IF asks THEN questions \cup {<<run[a].task, a>>} ELSE questions

\* The states of the workflow an answer takes a run through.
AnswerPath(wf, role) ==
  LET planned == IF wf = "Created" THEN "Planned" ELSE wf
  IN <<wf, planned,
       CASE role = "coder" /\ planned = "Planned"     -> "Executing"
         [] role = "reviewer" /\ planned = "Checking" -> "Reviewed"
         [] OTHER                                     -> planned>>

Along(r, path) ==
  [r EXCEPT !.wf = path[3], !.reviewed = @ \/ (path[2] = "Checking" /\ path[3] = "Reviewed")]

\* What the answer does to the workflow.
Answered(a, asks) ==
  LET r == run[a]
      path == AnswerPath(r.wf, Role(a))
  IN /\ At(a, "answered")
     /\ Asks(a, asks)
     /\ CASE ~Allowed(path)    -> Becomes(a, [r EXCEPT !.pc = "err"])
          [] Role(a) = "coder" -> Becomes(a, [Along(r, path) EXCEPT !.pc = "check"])
          [] OTHER             -> Becomes(a, NextStage(Along(r, path)))
     /\ UNCHANGED <<head, branches, dirty, created, file, works, faults>>

\* run_check_stage, after the coder or, where no coder was, at the end.  What
\* the check itself says does not matter.
run_check_stage(a) ==
  LET r == run[a]
      executing == IF At(a, "last") /\ r.wf = "Planned" THEN "Executing" ELSE r.wf
      records == Recorded(a, "check", "ok")
      next == [r EXCEPT !.records = records, !.checked = TRUE, !.wf = "Checking", !.diff = dirty]
  IN /\ At(a, "check") \/ (At(a, "last") /\ ~r.checked)
     /\ Persists(a, records)
     /\ CASE ~Allowed(<<r.wf, executing, "Checking">>) ->
               Becomes(a, [r EXCEPT !.pc = "err", !.records = records])
          [] At(a, "check") -> Becomes(a, NextStage(next))
          [] OTHER          -> Becomes(a, next)
     /\ UNCHANGED <<head, branches, dirty, created, questions, works, faults>>

\* Review where nobody reviewed, the Project item, the last record, whose write
\* may fail.
Finish(a, synced, saved) ==
  LET r == run[a]
      reviewed == IF ~r.reviewed /\ r.wf = "Checking" THEN "Reviewed" ELSE r.wf
      project == IF Order[r.task].project THEN Recorded(a, "github-project", "ok") ELSE r.records
      records == Append(project, [stage |-> "complete", status |-> "ok"])
  IN /\ At(a, "last") /\ r.checked
     /\ ~synced => Order[r.task].project
     /\ CASE ~Allowed(<<r.wf, reviewed>>) -> GoesTo(a, "err")
          [] ~synced                      -> FailsAt(a, "github-project")
          [] ~Allowed(<<reviewed, "Completed">>) \/ ~saved ->
               /\ run' = [run EXCEPT ![a].pc = "err", ![a].records = project]
               /\ Persists(a, project)
          [] OTHER ->
               /\ run' = [run EXCEPT ![a].pc = "ok", ![a].records = records, ![a].wf = "Completed"]
               /\ Persists(a, records)
     /\ Saves(saved)
     /\ UNCHANGED <<head, branches, dirty, created, questions, works>>

-----------------------------------------------------------------------------
(* Failures, and others. *)

\* A call wrapped in try_stage! fails: git, the table, the artifacts' store.  The
\* stage is recorded as failed and ends the run.
CallFails(a) ==
  /\ Fault
  /\ \/ At(a, "clean") /\ FailsAt(a, "prepare")
     \/ At(a, "branch") /\ TakesBranch(run[a].task) /\ FailsAt(a, "prepare")
     \/ At(a, "stage") /\ FailsAt(a, Role(a))
     \/ At(a, "check") /\ FailsAt(a, "check")
     \/ At(a, "last") /\ ~run[a].checked /\ FailsAt(a, "check")
  /\ UNCHANGED <<head, branches, dirty, created, questions, works>>

\* A call that is not wrapped fails: a copy, a snapshot, the write of a record,
\* that of a failed stage included.  The run ends and no record says why.
EndsUnrecorded(a) ==
  /\ Fault
  /\ a \in Live /\ ~At(a, "answered")
  /\ IF At(a, "helper") /\ select_pre_run_helpers(Role(a))
     THEN \/ UNCHANGED dirty
          \/ HelperConfig.mode = "repo-explore" /\ dirty' = dirty \cup {a}
     ELSE (At(a, "helper") => ~TakesBranch(run[a].task)) /\ UNCHANGED dirty
  /\ GoesTo(a, "err")
  /\ UNCHANGED <<head, branches, created, questions, works>>

\* The process is killed.
Dies(a) ==
  /\ Fault
  /\ a \in Live
  /\ run' = [run EXCEPT ![a].pc = "dead"]
  /\ UNCHANGED <<head, branches, dirty, created, file, questions, works>>

Complete(records) == records # <<>> /\ Last(records) = [stage |-> "complete", status |-> "ok"]

\* finalize commits what the completed run of the current branch has left.
Committed ==
  /\ dirty # {} /\ head # Main /\ Complete(file[head])
  /\ dirty' = {}
  /\ UNCHANGED <<run, head, branches, created, file, questions, works, faults>>

\* The steps canopus takes by itself, and those of what it starts.
Proceeds(a) ==
  \/ Start(a) \/ ensure_clean_worktree(a) \/ prepare(a)
  \/ \E saved \in BOOLEAN : persist_upstream_provenance(a, saved)
  \/ submit_stage(a) \/ NoHelper(a)
  \/ \E writes, ok \in BOOLEAN : Helper(a, writes, ok)
  \/ \E asks \in BOOLEAN : Answered(a, asks)
  \/ run_check_stage(a)
  \/ \E synced, saved \in BOOLEAN : Finish(a, synced, saved)

Next ==
  \/ Committed
  \/ \E a \in Attempts :
       \/ \E t \in Tasks : Launch(a, t)
       \/ Proceeds(a)
       \/ AgentWrites(a)
       \/ \E ok \in BOOLEAN : AgentReturns(a, ok)
       \/ CallFails(a) \/ EndsUnrecorded(a) \/ Dies(a)

Spec == Init /\ [][Next]_vars

\* Canopus goes on with its own steps, and an agent that ends by itself or is
\* stopped returns.  Nothing stops the others.
Fairness ==
  \A a \in Attempts :
    /\ WF_vars(Proceeds(a))
    /\ WF_vars(/\ At(a, "agent") /\ AgentEnds(Runtime[run[a].task], Selection[run[a].task])
               /\ \E ok \in BOOLEAN : AgentReturns(a, ok))

FairSpec == Spec /\ Fairness

-----------------------------------------------------------------------------

Pc == {"unused", "start", "clean", "branch", "prepared", "stage", "helper", "agent",
       "answered", "check", "last"} \cup Ended

RoleName ==
  {"analyst", "planner", "coder", "reviewer", "analyzer", "tester", "security_auditor",
   "test_writer", "researcher"}

StageName ==
  RoleName \cup {"backend-selection", "prepare", "upstream-provenance", "helper", "check",
                 "github-project", "complete"}

Status == {"ok", "failed"}

Record == [stage : StageName, status : Status]

Run ==
  [task : Tasks \cup {Main}, n : Nat, pc : Pc, idx : 1 .. 4,
   wf : {"Created", "Planned", "Executing", "Checking", "Reviewed", "Completed"},
   checked : BOOLEAN, reviewed : BOOLEAN, records : Seq(Record),
   before : [head : Tasks \cup {Main}, dirty : SUBSET Attempts],
   copy : BOOLEAN, diff : SUBSET Attempts, wrote : BOOLEAN, alone : BOOLEAN]

TypeOK ==
  /\ run \in [Attempts -> Run]
  /\ head \in Tasks \cup {Main} /\ branches \subseteq Tasks /\ dirty \subseteq Attempts
  /\ created \subseteq Tasks \X (1 .. 4) \X Attempts
  /\ works \subseteq created
  /\ questions \subseteq Tasks \X Attempts
  /\ file \in [Tasks -> Seq(Record)]
  /\ faults \in 0 .. MaxFaults

\* An attempt at a stage has created the stage's row.
HasRow(r, a, rows) ==
  r.pc \in {"helper", "agent", "answered"} => <<r.task, r.idx, a>> \in rows

\* A row has one creator; who asks has created the first row, the analyst's.
OneCreator ==
  /\ \A a \in Attempts : HasRow(run[a], a, created)
  /\ \A x, y \in created : x[1] = y[1] /\ x[2] = y[2] => x[3] = y[3]
  /\ \A q \in questions : <<q[1], 1, q[2]>> \in created

\* A run past its start has a backend; a read-only run has no check of a coder's
\* work before its end.
Fits(r) ==
  /\ r.pc # "unused" => r.task \in Tasks
  /\ r.pc \in {"unused", "start"} => r.idx = 1
  /\ r.pc \notin {"unused", "start"} \cup Ended =>
       /\ Selection[r.task].ok
       /\ r.idx \in 1 .. Len(Roles[r.task])
       /\ ~TakesBranch(r.task) => r.pc # "check"

Selected == \A a \in Attempts : Fits(run[a])

(* The inductive invariant: every attempt's state fits its place in the
   pipeline, and every row of tasks.json has one creator (submit.rs 45-346). *)
SubmitInv == TypeOK /\ OneCreator /\ Selected

(* No stage of a run is given to an agent by two attempts, and no two attempts
   ask the questions of one run: whatever is submitted again, and however the
   attempts overlap (submit.rs 140-153, stellaris.rs 26-45). *)
WorkedOnce ==
  /\ \A x, y \in works : x[1] = y[1] /\ x[2] = y[2] => x = y
  /\ \A p, q \in questions : p[1] = q[1] => p = q

\* The check comes right after the coder, or after everybody.
CheckPlace ==
  [t \in Tasks |-> 1 + Min({i \in DOMAIN Roles[t] : Roles[t][i] = "coder"} \cup {Len(Roles[t])})]

\* The stages of a finished run, in the order they have to have.
StagesOf == [t \in Tasks |-> InsertAt(Roles[t], CheckPlace[t], "check")]

\* The records tell of the first n stages of the task: each once, that it went
\* well, in order; and of no later one.
TellsOf(records, t, n) ==
  /\ \A i \in 1 .. n :
       \E k \in DOMAIN records : records[k] = [stage |-> StagesOf[t][i], status |-> "ok"]
  /\ \A k \in DOMAIN records, i \in DOMAIN StagesOf[t] :
       records[k].stage = StagesOf[t][i] => i <= n
  /\ \A k \in DOMAIN records, i \in DOMAIN StagesOf[t] : records[k].stage = StagesOf[t][i] =>
       \A l \in DOMAIN records, j \in DOMAIN StagesOf[t] :
         k < l /\ records[l].stage = StagesOf[t][j] => i < j

Sandboxed(t) == Runtime[t] \in {"mock", "codex"}

(* A run that completes did every stage of its pipeline once and in order, and
   its check saw the work: what a sandboxed agent changed is in the diff that
   is kept for the approval, if no other run overlapped (submit.rs 140-300,
   494-559, codex.rs 342-348). *)
CompleteMeansChecked ==
  \A a \in Attempts : run[a].pc = "ok" =>
    LET r == run[a]
    IN /\ TellsOf(r.records, r.task, Len(StagesOf[r.task]))
       /\ r.alone /\ r.wrote /\ Sandboxed(r.task) => a \in r.diff

TellsOk(records, stage) ==
  \E k \in DOMAIN records : records[k] = [stage |-> stage, status |-> "ok"]

\* The stages before the i-th role of a task, the check among them.
StagesBefore(t, i) == 1 .. IF i < CheckPlace[t] THEN i - 1 ELSE i

(* Whatever ends a run, a kill or an error that no record tells of included, its
   record has kept up with its work: an agent is started only when all that
   comes before it is recorded, the check of a coder's work included, and no
   agent's success is recorded that was not started (submit.rs 112-221). *)
RecordKeepsUp ==
  \A a \in Attempts : run[a].pc # "unused" =>
    LET r == run[a]
    IN \A i \in DOMAIN Roles[r.task] :
         /\ <<r.task, i, a>> \in works =>
              \A j \in StagesBefore(r.task, i) : TellsOk(r.records, StagesOf[r.task][j])
         /\ TellsOk(r.records, Roles[r.task][i]) => <<r.task, i, a>> \in works

\* How many stages, the check included, an attempt has behind it.
StagesDone(r) ==
  (IF r.pc \in {"answered", "check", "last", "ok"} THEN r.idx ELSE r.idx - 1)
    + (IF r.checked THEN 1 ELSE 0)

\* Where an attempt is in its pipeline, and whether its check is behind it.
PlaceFits(r) ==
  LET c == CheckPlace[r.task]
      n == Len(Roles[r.task])
  IN /\ r.pc \in {"start", "clean", "branch", "prepared"} => r.idx = 1 /\ ~r.checked
     /\ r.pc \in {"stage", "helper", "agent", "answered"} => (r.checked <=> r.idx >= c)
     /\ r.pc = "check" => r.idx = c - 1 /\ ~r.checked
     /\ r.pc \in {"last", "ok"} => r.idx = n /\ (r.checked \/ c = n + 1)
     /\ r.pc = "ok" => r.checked

\* The records tell of what the attempt has behind it, and nothing is said to
\* be complete before it is.
RecordsFit(r) ==
  /\ r.pc \in {"start", "clean"} => r.records = <<>>
  /\ r.pc \notin {"unused", "start"} \cup Ended =>
       \A k \in DOMAIN r.records : r.records[k].stage # "complete"
  /\ r.pc \notin {"unused", "start", "err", "dead"} =>
       TellsOf(r.records, r.task, StagesDone(r))

\* The state of the workflow: no transition is refused from here.
WorkflowFits(r) ==
  /\ r.pc \notin {"check", "last"} \cup Ended =>
       IF r.checked THEN r.wf \in {"Checking", "Reviewed"} ELSE r.wf \in {"Created", "Planned"}
  /\ r.pc = "check" => r.wf = "Executing"
  /\ r.pc = "last" =>
       IF r.checked THEN r.wf \in {"Checking", "Reviewed"} ELSE r.wf = "Planned"
  /\ r.pc \notin Ended => (r.reviewed => r.wf = "Reviewed")

\* Past its preparation: on the task's branch, or in its copy.
Prepared(r) == r.pc \notin {"unused", "start", "clean", "branch", "prepared"}

\* An attempt that was never beside another has the repository to itself, and
\* its own record is the one that says whether the work is complete.
AloneFits(a) ==
  LET r == run[a]
  IN a \in Live /\ r.alone =>
       /\ Live = {a}
       /\ TakesBranch(r.task) /\ (Prepared(r) \/ r.pc = "prepared") => head = r.task
       /\ TakesBranch(r.task) /\ Prepared(r) => file[r.task] = r.records /\ r.records # <<>>

\* Nobody can commit its changes before they are checked.
DiffFits(a, r, uncommitted) ==
  r.pc \notin {"unused", "err", "dead"} /\ r.alone /\ r.wrote /\ Sandboxed(r.task) =>
    /\ TakesBranch(r.task) /\ Prepared(r)
    /\ a \in IF r.checked THEN r.diff ELSE uncommitted

\* Attempts are launched in order, and each has its number among its task's.
NumberFits(a) ==
  run[a].pc # "unused" =>
    /\ \A b \in Attempts : b < a => run[b].pc # "unused"
    /\ run[a].n = Cardinality({b \in 1 .. a : run[b].task = run[a].task})

(* The inductive invariant behind the two properties above and behind
   ImplementsAgent: what an attempt has recorded, the state of its workflow,
   its diff and its number fit its place (submit.rs 45-346, workflow.rs 15-32). *)
AttemptInv ==
  \A a \in Attempts :
    /\ PlaceFits(run[a]) /\ RecordsFit(run[a]) /\ WorkflowFits(run[a])
    /\ AloneFits(a) /\ DiffFits(a, run[a], dirty) /\ NumberFits(a)

\* A helper that wrote has failed, and a run it did not stop says so.
NoHelperFailed(r) ==
  \A k \in DOMAIN r.records : r.records[k] # [stage |-> "helper", status |-> "failed"]

(* A read-only run that was not failed has left no uncommitted change, whatever
   its agent may do: if it had the repository to itself from its launch and none
   of its helpers failed, or, whoever was beside it, if the repository was clean
   when its agent was started.  Among the changes of others, or of a helper that
   was let through, its own may hide (submit.rs 166-203, 724-853). *)
ReadOnlyLeavesNoTrace ==
  \A a \in Attempts :
    /\ run[a].pc \in {"answered", "last", "ok"} /\ ~TakesBranch(run[a].task)
    /\ run[a].before.dirty = {} \/ (run[a].alone /\ NoHelperFailed(run[a]))
    => a \notin dirty

(* An attempt whose agents end, or are stopped, ends: no stage, duplicate or
   failed helper holds it up (submit.rs 45-346, plugin_command.rs 116-138). *)
AttemptEnds ==
  \A a \in Attempts :
    run[a].pc = "start" /\ AgentEnds(Runtime[run[a].task], Selection[run[a].task])
      ~> run[a].pc \in Ended

-----------------------------------------------------------------------------
(* What Laniakea is told canopus is. *)

Agent == INSTANCE CanopusAgent WITH
  Requested <- Tasks, Discovered <- {}, NoTask <- Main, MaxFaults <- MaxFaults,
  tasks <- [t \in Tasks |-> "in another file"], faults <- faults,
  Handler <- [t \in Tasks |-> IF TakesBranch(t) THEN "implement" ELSE "readonly"],
  agents <- {[task |-> run[a].task, run |-> run[a].n,
              phase |-> IF run[a].pc \in {"start", "clean", "branch"}
                        THEN "preparing" ELSE "working"] : a \in Live},
  branches <- branches,
  launches <- [t \in Tasks |->
                 Cardinality({a \in Attempts : run[a].pc # "unused" /\ run[a].task = t})]

Preparing(a) == [task |-> run[a].task, run |-> run[a].n, phase |-> "preparing"]
Working(a) == [Preparing(a) EXCEPT !.phase = "working"]

AgentNext ==
  \E a \in Attempts :
    \/ At(a, "unused") /\ run'[a].pc = "start" /\ Agent!Launch(run'[a].task)
    \/ At(a, "branch") /\ Agent!AgentPrepares(Preparing(a))
    \/ /\ a \in Live /\ run'[a].pc \in Ended
       /\ \E p \in {Preparing(a), Working(a)}, outcome \in {"ok", "err"} :
            Agent!AgentExits(p, outcome)

(* The attempts behave as the processes that CanopusAgent describes to the
   pipeline: a run that implements takes its branch before it works, and a
   branch is taken once (submit.rs 97-138). *)
ImplementsAgent == Agent!AgentInit /\ [][AgentNext]_(Agent!agentVars)

=============================================================================
