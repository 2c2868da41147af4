------------------------------ MODULE Finalize ------------------------------
(***************************************************************************)
(* Finalization of approved tasks.  `canopus finalize-approved`, which     *)
(* Europa runs after !approve and for !finalize, and the loop of `canopus  *)
(* watch` are processes of their own that do the same: skip a task whose   *)
(* record says that it is done, check the repository, commit on the task's *)
(* branch, write the record.  Each call of git is a step, and nothing      *)
(* locks the repository or the record in between.                          *)
(*                                                                         *)
(* With CANOPUS_ALLOW_LOCAL_COMMIT a process commits, without it is a dry  *)
(* run; processes are started by different parents, and may differ in it.  *)
(***************************************************************************)
EXTENDS Repository, Naturals

CONSTANTS
  Finalizers,   \* bound: processes that finalize at a time
  Modes,        \* the modes of the processes
  MaxFaults     \* bound: crashes and failed calls in one behaviour

FinalizeMode == {"DryRun", "LocalCommitOnly"}

ASSUME FinalizeAssumption == Modes \subseteq FinalizeMode /\ MaxFaults \in Nat

VARIABLES
  finalizer,    \* each process: its task, its mode, the call it makes next
  record,       \* <run_id>-finalize.txt of each task
  faults        \* crashes and failed calls so far

finalizeVars == <<finalizer, record, faults>>

Outcome == {"dry_run", "commit", "no_changes"}

\* A record that should_skip_existing_finalize_record takes for the last word.
Terminal == {"commit", "no_changes"}

CallsOfGit == {"symbolic-ref", "diff --cached", "status", "add", "commit"}

Idle == [at |-> "idle"]

Finalizing(t, mode, at) == [at |-> at, task |-> t, mode |-> mode]

Recording(t, mode, at, outcome) ==
  [at |-> at, task |-> t, mode |-> mode, outcome |-> outcome]

Finalizer ==
  {Idle} \cup [at : CallsOfGit, task : Tasks, mode : FinalizeMode]
         \cup [at : {"check", "write"}, task : Tasks, mode : FinalizeMode,
               outcome : Outcome]

FinalizeInit ==
  /\ finalizer = [f \in Finalizers |-> Idle]
  /\ record = [t \in Tasks |-> "none"]
  /\ faults = 0

FinalizeTypeOK ==
  /\ finalizer \in [Finalizers -> Finalizer]
  /\ record \in [Tasks -> Outcome \cup {"none"}]
  /\ faults \in 0..MaxFaults

Fault == faults < MaxFaults /\ faults' = faults + 1

\* Mutant: any record is the last word.
SkipsAnyRecord(t, mode) == record[t] # "none"

\* should_skip_existing_finalize_record.
SkipsRecord(t, mode) ==
  IF mode = "DryRun" THEN record[t] # "none" ELSE record[t] \in Terminal

At(f, call) == finalizer[f].at = call

GoesTo(f, step) == finalizer' = [finalizer EXCEPT ![f] = step]

-----------------------------------------------------------------------------

\* An approved task is selected, and has no record that says it is done.  A
\* dry run looks at the changes and goes on to its record.
FinalizeBegins(f, t, mode) ==
  /\ At(f, "idle")
  /\ ~SkipsRecord(t, mode)
  /\ GoesTo(f, IF mode = "DryRun"
               THEN Recording(t, mode, "check", "dry_run")
               ELSE Finalizing(t, mode, "symbolic-ref"))
  /\ UNCHANGED <<repositoryVars, record, faults>>

\* Mutant: the branch is not looked at.
AnyBranch(f) ==
  /\ At(f, "symbolic-ref")
  /\ GoesTo(f, [finalizer[f] EXCEPT !.at = "diff --cached"])
  /\ UNCHANGED <<repositoryVars, record, faults>>

\* Pre-flight 1: HEAD is the branch of the task, and not a protected one.
ChecksBranch(f) ==
  /\ At(f, "symbolic-ref")
  /\ GoesTo(f, IF head = finalizer[f].task
               THEN [finalizer[f] EXCEPT !.at = "diff --cached"] ELSE Idle)
  /\ UNCHANGED <<repositoryVars, record, faults>>

\* Pre-flight 2: the index is clean.
ChecksIndex(f) ==
  /\ At(f, "diff --cached")
  /\ GoesTo(f, IF index = {} THEN [finalizer[f] EXCEPT !.at = "status"] ELSE Idle)
  /\ UNCHANGED <<repositoryVars, record, faults>>

\* Without changes there is nothing to commit.
LooksForChanges(f) ==
  /\ At(f, "status")
  /\ GoesTo(f, IF Clean
               THEN Recording(finalizer[f].task, finalizer[f].mode, "check", "no_changes")
               ELSE [finalizer[f] EXCEPT !.at = "add"])
  /\ UNCHANGED <<repositoryVars, record, faults>>

\* The changes go to the index.
Adds(f) ==
  /\ At(f, "add")
  /\ AddAll
  /\ GoesTo(f, [finalizer[f] EXCEPT !.at = "commit"])
  /\ UNCHANGED <<record, faults>>

\* git add fails, as when another git process has the index locked; its exit
\* status is not looked at.
CannotAdd(f) ==
  /\ At(f, "add")
  /\ Fault
  /\ GoesTo(f, [finalizer[f] EXCEPT !.at = "commit"])
  /\ UNCHANGED <<repositoryVars, record>>

\* The index is committed.
Commits(f) ==
  /\ At(f, "commit")
  /\ index # {}
  /\ CommitFor(finalizer[f].task)
  /\ GoesTo(f, Recording(finalizer[f].task, finalizer[f].mode, "check", "commit"))
  /\ UNCHANGED <<record, faults>>

\* Mutant: a commit is recorded that was not made.
RecordsCommit(f) ==
  /\ At(f, "commit")
  /\ index = {}
  /\ GoesTo(f, Recording(finalizer[f].task, finalizer[f].mode, "check", "commit"))
  /\ UNCHANGED <<repositoryVars, record, faults>>

\* git commit finds nothing in the index.  Its "nothing to commit" and "no
\* changes added" count as no changes; with untracked files alone it says
\* neither, and that is an error.
HasNothingToCommit(f) ==
  /\ At(f, "commit")
  /\ index = {}
  /\ \/ GoesTo(f, Recording(finalizer[f].task, finalizer[f].mode, "check", "no_changes"))
     \/ changes # {} /\ GoesTo(f, Idle)
  /\ UNCHANGED <<repositoryVars, record, faults>>

\* persist_finalize_record_for_mode keeps a record that is the last word.
ChecksRecord(f) ==
  /\ At(f, "check")
  /\ GoesTo(f, IF SkipsRecord(finalizer[f].task, finalizer[f].mode)
               THEN Idle ELSE [finalizer[f] EXCEPT !.at = "write"])
  /\ UNCHANGED <<repositoryVars, record, faults>>

\* Mutant: the record does not say what came of it.
WritesMode(f) ==
  /\ At(f, "write")
  /\ record' = [record EXCEPT ![finalizer[f].task] = finalizer[f].mode]
  /\ GoesTo(f, Idle)
  /\ UNCHANGED <<repositoryVars, faults>>

\* The record is written.
WritesRecord(f) ==
  /\ At(f, "write")
  /\ record' = [record EXCEPT ![finalizer[f].task] = finalizer[f].outcome]
  /\ GoesTo(f, Idle)
  /\ UNCHANGED <<repositoryVars, faults>>

\* A call cannot be made, .canopus/ is not ignored, git commit is refused, or
\* the process is killed: what was done stays done.
FinalizeStops(f) ==
  /\ ~At(f, "idle")
  /\ Fault
  /\ GoesTo(f, Idle)
  /\ UNCHANGED <<repositoryVars, record>>

\* The steps of a process once it has its task.
FinalizeContinues(f) ==
  \/ ChecksBranch(f) \/ ChecksIndex(f) \/ LooksForChanges(f)
  \/ Adds(f) \/ Commits(f) \/ HasNothingToCommit(f)
  \/ ChecksRecord(f) \/ WritesRecord(f)

=============================================================================
