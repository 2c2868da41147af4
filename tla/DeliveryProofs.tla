--------------------------- MODULE DeliveryProofs ---------------------------
(***************************************************************************)
(* Proof that DeliveryInv is inductive when the canopus processes of a     *)
(* repository do not overlap, and what follows from it, for any tasks, any *)
(* number of finalizers and any bound on the faults: the safety properties *)
(* and that Delivery implements DeliveryLife.                              *)
(***************************************************************************)
EXTENDS Delivery, TLAPS

\* What a finalizer in use is.
LEMMA FinalizerTypes ==
  ASSUME FinalizeTypeOK, NEW f \in Finalizers
  PROVE  /\ finalizer[f] = Idle <=> At(f, "idle")
         /\ ~At(f, "idle") => /\ finalizer[f].task \in Tasks
                              /\ finalizer[f].mode \in FinalizeMode
                              /\ finalizer[f].at \in CallsOfGit \cup {"check", "write"}
         /\ finalizer[f].at \in {"check", "write"} => finalizer[f].outcome \in Outcome
<1>1. finalizer[f] \in Finalizer
  BY DEF FinalizeTypeOK
<1>2. CASE finalizer[f] = Idle
  <2>1. finalizer[f].at = "idle"
    BY <1>2 DEF Idle
  <2>2. At(f, "idle") /\ finalizer[f].at \notin {"check", "write"}
    BY <2>1 DEF At
  <2> QED
    BY <1>2, <2>2
<1>3. CASE finalizer[f] \in [at : CallsOfGit, task : Tasks, mode : FinalizeMode]
  <2>1. finalizer[f].at \in CallsOfGit /\ finalizer[f].task \in Tasks
        /\ finalizer[f].mode \in FinalizeMode
    BY <1>3
  <2>2. ~At(f, "idle") /\ finalizer[f].at \notin {"check", "write"}
    BY <2>1 DEF At, CallsOfGit
  <2>3. finalizer[f] # Idle
    BY <2>2 DEF Idle, At
  <2> QED
    BY <2>1, <2>2, <2>3
<1>4. CASE finalizer[f] \in [at : {"check", "write"}, task : Tasks, mode : FinalizeMode,
                             outcome : Outcome]
  BY <1>4 DEF Idle, At
<1> QED
  BY <1>1, <1>2, <1>3, <1>4 DEF Finalizer

\* A finalizer has the fields of where it is.
LEMMA FinalizerShape ==
  ASSUME FinalizeTypeOK, NEW f \in Finalizers
  PROVE  /\ finalizer[f].at \in CallsOfGit =>
              finalizer[f] \in [at : CallsOfGit, task : Tasks, mode : FinalizeMode]
         /\ finalizer[f].at \in {"check", "write"} =>
              finalizer[f] \in [at : {"check", "write"}, task : Tasks, mode : FinalizeMode,
                               outcome : Outcome]
<1>1. finalizer[f] \in Finalizer
  BY DEF FinalizeTypeOK
<1> QED
  BY <1>1, FinalizerTypes DEF Finalizer, CallsOfGit, At

\* A process that takes its next call keeps its type.
LEMMA NextCall ==
  ASSUME FinalizeTypeOK, NEW f \in Finalizers
  PROVE  /\ finalizer[f].at \in CallsOfGit =>
              \A call \in CallsOfGit : [finalizer[f] EXCEPT !.at = call] \in Finalizer
         /\ At(f, "check") => [finalizer[f] EXCEPT !.at = "write"] \in Finalizer
<1>1. ASSUME finalizer[f].at \in CallsOfGit, NEW call \in CallsOfGit
      PROVE  [finalizer[f] EXCEPT !.at = call] \in Finalizer
  <2>1. finalizer[f] \in [at : CallsOfGit, task : Tasks, mode : FinalizeMode]
    BY <1>1, FinalizerShape
  <2> QED
    BY <1>1, <2>1 DEF Finalizer
<1>2. ASSUME At(f, "check")
      PROVE  [finalizer[f] EXCEPT !.at = "write"] \in Finalizer
  <2>1. finalizer[f] \in [at : {"check", "write"}, task : Tasks, mode : FinalizeMode,
                          outcome : Outcome]
    BY <1>2, FinalizerShape DEF At
  <2> QED
    BY <2>1 DEF Finalizer
<1> QED
  BY <1>1, <1>2

\* A finalization that is under way keeps what it relies on when the verdict
\* on its task stays, HEAD stays, no run begins, and its task is not changed.
LEMMA SecuredKept ==
  ASSUME FinalizeTypeOK, NEW f \in Finalizers, ~At(f, "idle"), Secured(f),
         finalizer'[f] = finalizer[f],
         \A t \in Tasks : status[t] = "approved" => status'[t] = "approved",
         QuietForFinalize',
         finalizer[f].at \in CallsOfGit \ {"symbolic-ref"} => head' = head,
         commits \subseteq commits'
  PROVE  Secured(f)'
  BY FinalizerTypes DEF Secured

\* The steps of runs and their review.
RunStep(t) ==
  \/ RunChecksWorktree(t) \/ RunRefused(t) \/ RunTakesBranch(t)
  \/ RunWrites(t) \/ FailsInRun(t)
  \/ \E verdict \in {"review", "failed"} : RunEnds(t, verdict)
  \/ \E verdict \in {"approved", "failed"} : Judge(t, verdict)

\* No verdict is taken back, and no process of a finalizer moves.
LEMMA RunFrame ==
  ASSUME NEW t \in Tasks, TypeOK, RunStep(t)
  PROVE  /\ UNCHANGED <<finalizeVars, index, commits>>
         /\ changes' \in {changes, changes \cup {t}}
         /\ changes' # changes => run[t] = "working"
         /\ \A u \in Tasks : status[u] = "approved" => status'[u] = "approved"
  BY DEF TypeOK, RunStep, RunChecksWorktree, RunRefused, RunTakesBranch, RunWrites, FailsInRun,
         RunEnds, Judge, CheckoutNew, Write, repositoryVars, finalizeVars, deliveryVars

LEMMA RunTypes ==
  ASSUME NEW t \in Tasks, TypeOK, RunStep(t)
  PROVE  TypeOK'
  BY DEF TypeOK, RepositoryTypeOK, FinalizeTypeOK, RunStep, RunChecksWorktree, RunRefused,
         RunTakesBranch, RunWrites, FailsInRun, RunEnds, Judge, CheckoutNew, Write,
         repositoryVars, finalizeVars, deliveryVars

LEMMA RunKeeps ==
  ASSUME NEW t \in Tasks, DeliveryInv, ~Overlapping, RunStep(t)
  PROVE  DeliveryInv'
<1> USE DEF DeliveryInv
<1>t. TypeOK'
  BY RunTypes
<1>r. RunInv'
  BY <1>t DEF TypeOK, RunInv, UnderWay, QuietForRun, WorkerIsFree, RunStep, RunChecksWorktree,
         RunRefused, RunTakesBranch, RunWrites, FailsInRun, RunEnds, Judge, deliveryVars
<1>w. WorktreeInv'
  BY <1>t DEF TypeOK, RunInv, UnderWay, WorktreeInv, Clean, RunStep, RunChecksWorktree,
         RunRefused, RunTakesBranch, RunWrites, FailsInRun, RunEnds, Judge,
         CheckoutNew, Write, repositoryVars, deliveryVars
<1>f. FinalizerInv'
  <2> SUFFICES ASSUME NEW f \in Finalizers, ~At(f, "idle")
               PROVE  Secured(f)'
    BY RunFrame DEF FinalizerInv, At, finalizeVars
  <2>1. Secured(f)
    BY DEF FinalizerInv
  <2>2. finalizer[f].task \in Tasks /\ run[finalizer[f].task] = "ended"
    BY <2>1, FinalizerTypes DEF TypeOK, RunInv, Secured
  <2>3. QuietForFinalize'
    BY <2>1 DEF Secured, QuietForFinalize, QuietForRun, RunStep, RunChecksWorktree, RunRefused,
           RunTakesBranch, RunWrites, FailsInRun, RunEnds, Judge, TypeOK, deliveryVars
  <2>4. head' = head
    BY <2>1 DEF Secured, QuietForFinalize, RunStep, RunChecksWorktree, RunRefused,
           RunTakesBranch, RunWrites, FailsInRun, RunEnds, Judge, Write, repositoryVars
  <2> QED
    BY <2>1, <2>2, <2>3, <2>4, RunFrame, SecuredKept DEF TypeOK, finalizeVars
<1>c. RecordInv' /\ CommitInv'
  <2>1. UNCHANGED <<record, index, commits>>
    BY RunFrame DEF finalizeVars
  <2>2. \A c \in commits : c.task \in Tasks
    BY DEF TypeOK, RepositoryTypeOK, Commit
  <2>3. \A c \in commits : run[c.task] = "ended"
    BY <2>2 DEF CommitInv, RunInv
  <2> QED
    BY <2>1, <2>2, <2>3, RunFrame DEF RecordInv, CommitInv
<1> QED
  BY <1>t, <1>r, <1>w, <1>f, <1>c

\* The steps of finalizations, each with the finalizer that takes it.
FinalizeStep(f) ==
  \/ \E t \in Tasks, mode \in Modes : Begin(f, t, mode)
  \/ Continue(f)
  \/ CannotAdd(f) /\ UNCHANGED deliveryVars
  \/ FinalizeStops(f) /\ UNCHANGED deliveryVars

LEMMA FinalizeTypes ==
  ASSUME NEW f \in Finalizers, TypeOK, FinalizeStep(f)
  PROVE  TypeOK'
<1>1. status' = status /\ run' = run
  BY DEF FinalizeStep, Begin, Continue, deliveryVars
<1>2. FinalizeTypeOK /\ RepositoryTypeOK
  BY DEF TypeOK
<1>3. RepositoryTypeOK'
  <2>1. CASE Adds(f)
    BY <1>2, <2>1 DEF RepositoryTypeOK, Adds, AddAll
  <2>2. CASE Commits(f)
    BY <1>2, <2>2, FinalizerTypes DEF RepositoryTypeOK, Commit, Commits, CommitFor, At
  <2>3. CASE UNCHANGED repositoryVars
    BY <1>2, <2>3 DEF RepositoryTypeOK, repositoryVars
  <2> QED
    BY <2>1, <2>2, <2>3 DEF FinalizeStep, Begin, Continue, FinalizeBegins, FinalizeContinues,
           ChecksBranch, ChecksIndex, LooksForChanges, HasNothingToCommit, ChecksRecord,
           WritesRecord, CannotAdd, FinalizeStops
<1>4. faults' \in 0..MaxFaults
  <2>1. CASE Fault
    BY <1>2, <2>1, FinalizeAssumption DEF Fault, FinalizeTypeOK
  <2>2. CASE UNCHANGED faults
    BY <1>2, <2>2 DEF FinalizeTypeOK
  <2> QED
    BY <2>1, <2>2 DEF FinalizeStep, Begin, Continue, FinalizeBegins, FinalizeContinues,
           ChecksBranch, ChecksIndex, LooksForChanges, Adds, Commits, HasNothingToCommit,
           ChecksRecord, WritesRecord, CannotAdd, FinalizeStops
<1>5. record' \in [Tasks -> Outcome \cup {"none"}]
  <2>1. CASE WritesRecord(f)
    BY <1>2, <2>1, FinalizerTypes DEF FinalizeTypeOK, WritesRecord, At
  <2>2. CASE UNCHANGED record
    BY <1>2, <2>2 DEF FinalizeTypeOK
  <2> QED
    BY <2>1, <2>2 DEF FinalizeStep, Begin, Continue, FinalizeBegins, FinalizeContinues,
           ChecksBranch, ChecksIndex, LooksForChanges, Adds, Commits, HasNothingToCommit,
           ChecksRecord, CannotAdd, FinalizeStops
<1>6. finalizer' \in [Finalizers -> Finalizer]
  <2>1. PICK step \in Finalizer : GoesTo(f, step)
    <3>1. CASE \E t \in Tasks, mode \in Modes : FinalizeBegins(f, t, mode)
      BY <3>1, FinalizeAssumption DEF FinalizeBegins, Finalizer, Finalizing, Recording, Outcome,
             CallsOfGit
    <3>2. CASE GoesTo(f, Idle)
      BY <3>2 DEF Finalizer
    <3>3. CASE ~At(f, "idle") /\ finalizer[f].at \in CallsOfGit
               /\ \E call \in CallsOfGit : GoesTo(f, [finalizer[f] EXCEPT !.at = call])
      BY <1>2, <3>3, NextCall
    <3>4. CASE ~At(f, "idle") /\ \E outcome \in Outcome :
                 GoesTo(f, Recording(finalizer[f].task, finalizer[f].mode, "check", outcome))
      BY <1>2, <3>4, FinalizerTypes DEF Finalizer, Recording
    <3>5. CASE At(f, "check") /\ GoesTo(f, [finalizer[f] EXCEPT !.at = "write"])
      BY <1>2, <3>5, NextCall
    <3> QED
      BY <3>1, <3>2, <3>3, <3>4, <3>5
         DEF FinalizeStep, Begin, Continue, FinalizeContinues, ChecksBranch, ChecksIndex,
             LooksForChanges, Adds, Commits, HasNothingToCommit, ChecksRecord, WritesRecord,
             CannotAdd, FinalizeStops, At, CallsOfGit, Outcome
  <2> QED
    BY <1>2, <2>1 DEF FinalizeTypeOK, GoesTo
<1> QED
  BY <1>1, <1>2, <1>3, <1>4, <1>5, <1>6 DEF TypeOK, FinalizeTypeOK

\* A step of a finalization, told by what it does to the repository and to the
\* process that takes it.
LEMMA FinalizeCases ==
  ASSUME NEW f \in Finalizers, DeliveryInv, FinalizeStep(f), ~Overlapping
  PROVE  /\ UNCHANGED <<head, deliveryVars>>
         /\ \A g \in Finalizers \ {f} : finalizer'[g] = finalizer[g]
         /\ changes' \cup index' \subseteq changes \cup index
         /\ commits \subseteq commits'
         /\ \/ At(f, "idle") /\ QuietForFinalize
            \/ ~At(f, "idle") /\ Secured(f)
  BY DEF DeliveryInv, FinalizerInv, TypeOK, FinalizeTypeOK, FinalizeStep, Begin, Continue,
         FinalizeBegins, FinalizeContinues, ChecksBranch, ChecksIndex, LooksForChanges, Adds,
         Commits, HasNothingToCommit, ChecksRecord, WritesRecord, CannotAdd, FinalizeStops,
         GoesTo, AddAll, CommitFor, repositoryVars, deliveryVars, At

\* What a finalization commits is the work of its own task, which was not
\* committed before.
LEMMA CommitOfFinalize ==
  ASSUME NEW f \in Finalizers, DeliveryInv, Commits(f)
  PROVE  /\ index = {finalizer[f].task}
         /\ head = finalizer[f].task
         /\ finalizer[f].task \notin changes
         /\ status[finalizer[f].task] = "approved"
         /\ finalizer[f].task \in Tasks
         /\ Life!Own(finalizer[f].task) \notin commits
         /\ commits' = commits \cup {Life!Own(finalizer[f].task)}
<1>1. ~At(f, "idle") /\ finalizer[f].at \in CallsOfGit \ {"symbolic-ref"}
  BY DEF Commits, At, CallsOfGit
<1>2. head = finalizer[f].task /\ status[finalizer[f].task] = "approved"
  BY <1>1 DEF DeliveryInv, FinalizerInv, Secured
<1>3. finalizer[f].task \in Tasks
  BY <1>1, FinalizerTypes DEF DeliveryInv, TypeOK
<1>4. index = {finalizer[f].task}
  BY <1>2 DEF Commits, DeliveryInv, WorktreeInv
<1>5. Life!Own(finalizer[f].task) \notin commits
  BY <1>4 DEF DeliveryInv, CommitInv, Life!Own
<1>6. commits' = commits \cup {Life!Own(finalizer[f].task)}
  BY <1>2, <1>4 DEF Commits, CommitFor, Life!Own
<1> QED
  BY <1>2, <1>3, <1>4, <1>5, <1>6 DEF DeliveryInv, WorktreeInv

LEMMA FinalizeKeeps ==
  ASSUME NEW f \in Finalizers, DeliveryInv, ~Overlapping, FinalizeStep(f)
  PROVE  DeliveryInv'
<1> USE DEF DeliveryInv
<1>t. TypeOK'
  BY FinalizeTypes
<1>1. UNCHANGED <<head, status, run>>
  BY FinalizeCases DEF deliveryVars
<1>r. RunInv'
  BY <1>1 DEF RunInv, UnderWay
<1>w. WorktreeInv'
  <2>1. changes' \cup index' \subseteq changes \cup index
    BY FinalizeCases
  <2>2. changes' \cap index' = {}
    BY DEF WorktreeInv, FinalizeStep, Begin, Continue, FinalizeBegins, FinalizeContinues,
           ChecksBranch, ChecksIndex, LooksForChanges, Adds, Commits, HasNothingToCommit,
           ChecksRecord, WritesRecord, CannotAdd, FinalizeStops, AddAll, CommitFor,
           repositoryVars
  <2>3. ASSUME NEW t \in Tasks, run[t] = "working"
        PROVE  index' = {}
    <3>1. index = {} /\ head = t /\ status[t] # "approved"
      BY <2>3 DEF RunInv, WorktreeInv
    <3>2. ~Adds(f)
      BY <3>1 DEF Adds, FinalizerInv, Secured, At, CallsOfGit
    <3> QED
      BY <3>1, <3>2 DEF FinalizeStep, Begin, Continue, FinalizeBegins, FinalizeContinues,
             ChecksBranch, ChecksIndex, LooksForChanges, Commits, HasNothingToCommit,
             ChecksRecord, WritesRecord, CannotAdd, FinalizeStops, CommitFor, repositoryVars
  <2> QED
    BY <1>1, <2>1, <2>2, <2>3 DEF WorktreeInv, Clean
<1>f. FinalizerInv'
  <2> SUFFICES ASSUME NEW g \in Finalizers, ~At(g, "idle")'
               PROVE  Secured(g)'
    BY DEF FinalizerInv
  <2>1. CASE g # f
    <3>1. finalizer'[g] = finalizer[g] /\ ~At(g, "idle")
      BY <2>1, FinalizeCases DEF At
    <3>2. Secured(g)
      BY <3>1 DEF FinalizerInv
    <3>3. QuietForFinalize'
      BY <1>1, FinalizeCases DEF QuietForFinalize, Secured
    <3>4. commits \subseteq commits'
      BY FinalizeCases
    <3> QED
      BY <1>1, <3>1, <3>2, <3>3, <3>4, SecuredKept DEF TypeOK
  <2>2. CASE g = f
    <3>1. finalizer \in [Finalizers -> Finalizer]
      BY DEF TypeOK, FinalizeTypeOK
    <3>2. QuietForFinalize'
      BY <1>1, FinalizeCases DEF QuietForFinalize, Secured
    <3>3. ASSUME NEW t \in Tasks, NEW mode \in Modes, Begin(f, t, mode)
          PROVE  Secured(f)'
      BY <1>1, <3>1, <3>2, <3>3
         DEF Begin, FinalizeBegins, GoesTo, Finalizing, Recording, Secured, CallsOfGit
    <3>4. CASE ChecksBranch(f) \/ ChecksIndex(f) \/ LooksForChanges(f)
      <4>1. ~At(f, "idle") /\ finalizer[f].at \in CallsOfGit /\ Secured(f)
        BY <3>4 DEF ChecksBranch, ChecksIndex, LooksForChanges, At, CallsOfGit, FinalizerInv
      <4>2. finalizer'[f] # Idle
        BY <2>2 DEF At, Idle
      <4>3. finalizer'[f] \in {[finalizer[f] EXCEPT !.at = call] :
                                 call \in CallsOfGit \ {"symbolic-ref"}}
            \/ finalizer'[f] = Recording(finalizer[f].task, finalizer[f].mode, "check",
                                         "no_changes")
        BY <3>1, <3>4, <4>2 DEF ChecksBranch, ChecksIndex, LooksForChanges, GoesTo, CallsOfGit
      <4>4. finalizer[f] \in [at : CallsOfGit, task : Tasks, mode : FinalizeMode]
        BY <4>1, FinalizerShape DEF TypeOK
      <4>5. finalizer'[f].task = finalizer[f].task
            /\ (finalizer'[f].at \in {"check", "write"} => finalizer'[f].outcome = "no_changes")
        <5>1. CASE finalizer'[f] \in {[finalizer[f] EXCEPT !.at = call] :
                                      call \in CallsOfGit \ {"symbolic-ref"}}
          BY <4>4, <5>1 DEF CallsOfGit
        <5>2. CASE finalizer'[f] = Recording(finalizer[f].task, finalizer[f].mode, "check",
                                             "no_changes")
          BY <5>2 DEF Recording
        <5> QED
          BY <4>3, <5>1, <5>2
      <4>6. finalizer'[f].at \in CallsOfGit => head = finalizer[f].task
        BY <3>1, <3>4, <4>1, <4>2
           DEF ChecksBranch, ChecksIndex, LooksForChanges, GoesTo, Secured, At, CallsOfGit
      <4> QED
        BY <1>1, <2>2, <3>2, <4>1, <4>5, <4>6 DEF Secured
    <3>5. CASE Adds(f) \/ (CannotAdd(f) /\ UNCHANGED deliveryVars)
      <4>1. ~At(f, "idle") /\ finalizer[f].at = "add" /\ Secured(f)
        BY <3>5 DEF Adds, CannotAdd, At, FinalizerInv
      <4>2. finalizer[f] \in [at : CallsOfGit, task : Tasks, mode : FinalizeMode]
        BY <4>1, FinalizerShape DEF TypeOK, CallsOfGit
      <4>3. finalizer'[f] = [finalizer[f] EXCEPT !.at = "commit"]
        BY <3>1, <3>5 DEF Adds, CannotAdd, GoesTo
      <4>4. finalizer'[f].at = "commit" /\ finalizer'[f].task = finalizer[f].task
        BY <4>2, <4>3
      <4> QED
        BY <1>1, <2>2, <3>2, <4>1, <4>4 DEF Secured, CallsOfGit
    <3>6. CASE Commits(f)
      <4>1. finalizer'[f] = Recording(finalizer[f].task, finalizer[f].mode, "check", "commit")
        BY <3>1, <3>6 DEF Commits, GoesTo
      <4>2. Life!Own(finalizer[f].task) \in commits'
        BY <3>6, CommitOfFinalize
      <4> QED
        BY <1>1, <2>2, <3>2, <3>6, <4>1, <4>2, CommitOfFinalize DEF Recording, Secured, CallsOfGit
    <3>7. CASE HasNothingToCommit(f)
      <4>1. Secured(f)
        BY <3>7 DEF HasNothingToCommit, At, FinalizerInv
      <4>2. finalizer'[f] # Idle
        BY <2>2 DEF At, Idle
      <4>3. finalizer'[f] = Recording(finalizer[f].task, finalizer[f].mode, "check",
                                      "no_changes")
        BY <3>1, <3>7, <4>2 DEF HasNothingToCommit, GoesTo
      <4>4. finalizer'[f].at = "check" /\ finalizer'[f].task = finalizer[f].task
            /\ finalizer'[f].outcome = "no_changes"
        BY <4>3 DEF Recording
      <4> QED
        BY <1>1, <2>2, <3>2, <4>1, <4>4 DEF Secured, CallsOfGit
    <3>8. CASE ChecksRecord(f)
      <4>1. ~At(f, "idle") /\ finalizer[f].at = "check" /\ Secured(f)
        BY <3>8 DEF ChecksRecord, At, FinalizerInv
      <4>2. finalizer[f] \in [at : {"check", "write"}, task : Tasks, mode : FinalizeMode,
                              outcome : Outcome]
        BY <4>1, FinalizerShape DEF TypeOK
      <4>3. finalizer'[f] # Idle
        BY <2>2 DEF At, Idle
      <4>4. finalizer'[f] = [finalizer[f] EXCEPT !.at = "write"]
        BY <3>1, <3>8, <4>3 DEF ChecksRecord, GoesTo
      <4>5. finalizer'[f].at = "write" /\ finalizer'[f].task = finalizer[f].task
            /\ finalizer'[f].outcome = finalizer[f].outcome
        BY <4>2, <4>4
      <4>6. UNCHANGED commits
        BY <3>8 DEF ChecksRecord, repositoryVars
      <4> QED
        BY <1>1, <2>2, <3>2, <4>1, <4>5, <4>6 DEF Secured, CallsOfGit
    <3>9. CASE GoesTo(f, Idle)
      BY <2>2, <3>1, <3>9 DEF GoesTo, Idle, At
    <3> QED
      BY <2>2, <3>3, <3>4, <3>5, <3>6, <3>7, <3>8, <3>9
         DEF FinalizeStep, Continue, FinalizeContinues, WritesRecord, FinalizeStops
  <2> QED
    BY <2>1, <2>2
<1>c. CommitInv'
  <2>1. CASE Commits(f)
    <3>1. finalizer[f].task \notin changes' \cup index'
      BY <2>1, CommitOfFinalize DEF Commits, CommitFor
    <3>2. changes' \cup index' \subseteq changes \cup index
      BY FinalizeCases
    <3>3. commits' = commits \cup {Life!Own(finalizer[f].task)}
          /\ status'[finalizer[f].task] = "approved"
      BY <1>1, <2>1, CommitOfFinalize
    <3>4. Life!Own(finalizer[f].task).task = finalizer[f].task
      BY DEF Life!Own
    <3>5. ASSUME NEW c \in commits'
          PROVE  /\ c = Life!Own(c.task)
                 /\ status'[c.task] = "approved"
                 /\ c.task \notin changes' \cup index'
      BY <1>1, <3>1, <3>2, <3>3, <3>4, <3>5 DEF CommitInv
    <3> QED
      BY <3>5 DEF CommitInv, Life!Own
  <2>2. CASE UNCHANGED commits
    BY <1>1, <2>2, FinalizeCases DEF CommitInv
  <2> QED
    BY <2>1, <2>2 DEF FinalizeStep, Begin, Continue, FinalizeBegins, FinalizeContinues,
           ChecksBranch, ChecksIndex, LooksForChanges, Adds, HasNothingToCommit,
           ChecksRecord, WritesRecord, CannotAdd, FinalizeStops, AddAll, repositoryVars
<1>d. RecordInv'
  <2>1. CASE WritesRecord(f)
    <3>1. ~At(f, "idle") /\ finalizer[f].at = "write" /\ Secured(f)
      BY <2>1 DEF WritesRecord, FinalizerInv, At
    <3>2. finalizer[f].task \in Tasks
      BY <3>1, FinalizerTypes DEF TypeOK
    <3> QED
      BY <1>1, <2>1, <3>1, <3>2
         DEF WritesRecord, Secured, RecordInv, TypeOK, FinalizeTypeOK, repositoryVars
  <2>2. CASE UNCHANGED record
    BY <2>2, FinalizeCases DEF RecordInv
  <2> QED
    BY <2>1, <2>2 DEF FinalizeStep, Begin, Continue, FinalizeBegins, FinalizeContinues,
           ChecksBranch, ChecksIndex, LooksForChanges, Adds, Commits, HasNothingToCommit,
           ChecksRecord, CannotAdd, FinalizeStops
<1> QED
  BY <1>t, <1>r, <1>w, <1>f, <1>c, <1>d

LEMMA OperatorTypes ==
  ASSUME TypeOK, OperatorDiscards \/ OperatorUnstages
  PROVE  TypeOK'
  BY DEF TypeOK, RepositoryTypeOK, FinalizeTypeOK, OperatorDiscards, OperatorUnstages,
         finalizeVars, deliveryVars

LEMMA OperatorKeeps ==
  ASSUME DeliveryInv, OperatorDiscards \/ OperatorUnstages
  PROVE  DeliveryInv'
<1> USE DEF DeliveryInv
<1>t. TypeOK'
  BY OperatorTypes
<1>r. RunInv'
  BY DEF RunInv, UnderWay, OperatorDiscards, OperatorUnstages, deliveryVars
<1>w. WorktreeInv'
  BY DEF WorktreeInv, Clean, OperatorDiscards, OperatorUnstages, QuietForRun,
         UnderWay, deliveryVars
<1>f. FinalizerInv'
  BY DEF FinalizerInv, At, OperatorDiscards, OperatorUnstages, QuietForRun,
         finalizeVars
<1>c. RecordInv' /\ CommitInv'
  BY DEF RecordInv, CommitInv, OperatorDiscards, OperatorUnstages, finalizeVars, deliveryVars
<1> QED
  BY <1>t, <1>r, <1>w, <1>f, <1>c

LEMMA DeliveryStep ==
  ASSUME DeliveryInv, ~Overlapping, [Next]_vars
  PROVE  DeliveryInv'
<1>1. CASE Next
  BY <1>1, RunKeeps, FinalizeKeeps, OperatorKeeps DEF Next, RunStep, FinalizeStep
<1>2. CASE UNCHANGED vars
  BY <1>2 DEF vars, repositoryVars, finalizeVars, deliveryVars, DeliveryInv, TypeOK,
         RepositoryTypeOK, FinalizeTypeOK, RunInv, UnderWay, WorktreeInv, Clean, FinalizerInv,
         Secured, At, QuietForFinalize, RecordInv, CommitInv
<1> QED
  BY <1>1, <1>2

LEMMA DeliveryStart == Init => DeliveryInv
  BY RepositoryAssumption, FinalizeAssumption
     DEF Init, RepositoryInit, FinalizeInit, DeliveryInit, DeliveryInv, TypeOK, RepositoryTypeOK,
         FinalizeTypeOK, Finalizer, Idle, At, RunInv, UnderWay, WorktreeInv, Clean, FinalizerInv,
         RecordInv, CommitInv

\* The inductive invariant holds of every instance whose processes do not
\* overlap on the repository.
THEOREM DeliveryIsSafe ==
  ASSUME ~Overlapping
  PROVE  Spec => []DeliveryInv
<1>1. DeliveryInv /\ [Next]_vars => DeliveryInv'
  BY DeliveryStep
<1> QED
  BY <1>1, DeliveryStart, PTL DEF Spec

\* No finalization commits what a human has not approved.
THEOREM OnlyApprovedIsCommitted ==
  ASSUME ~Overlapping
  PROVE  Spec => []CommitsAreApproved
<1>1. DeliveryInv => CommitsAreApproved
  BY DEF DeliveryInv, CommitInv, CommitsAreApproved, Life!Own
<1> QED
  BY <1>1, DeliveryIsSafe, PTL

\* Every commit is on the branch of the task it was made for.
THEOREM CommittedOnExpectedBranch ==
  ASSUME ~Overlapping
  PROVE  Spec => []CommitsOnTheirBranch
<1>1. DeliveryInv => CommitsOnTheirBranch
  BY DEF DeliveryInv, CommitInv, CommitsOnTheirBranch, Life!Own
<1> QED
  BY <1>1, DeliveryIsSafe, PTL

\* A record that names a commit leaves nothing of its task uncommitted.
THEOREM RecordedCommitIsComplete ==
  ASSUME ~Overlapping
  PROVE  Spec => []CommitIsComplete
<1>1. DeliveryInv => CommitIsComplete
  BY DEF DeliveryInv, RecordInv, CommitInv, CommitIsComplete, Life!Own
<1> QED
  BY <1>1, DeliveryIsSafe, PTL

-----------------------------------------------------------------------------
(* Delivery implements DeliveryLife.                                       *)

\* A run and its review are the life of a task: it goes from open to review or
\* failure, and from review to its verdict.
LEMMA RunIsLife ==
  ASSUME NEW t \in Tasks, DeliveryInv, RunStep(t)
  PROVE  Life!Next \/ UNCHANGED Life!vars
<1>1. UNCHANGED <<commits, record>>
  BY RunFrame DEF finalizeVars, DeliveryInv
<1>2. ASSUME NEW next \in {"review", "failed"}, status[t] = "open",
             status' = [status EXCEPT ![t] = next]
      PROVE  Life!Next
  BY <1>1, <1>2 DEF Life!Next, Life!Review, Life!Fail, Life!Becomes
<1>3. ASSUME NEW next \in {"approved", "failed"}, status[t] = "review",
             status' = [status EXCEPT ![t] = next]
      PROVE  Life!Next
  BY <1>1, <1>3 DEF Life!Next, Life!Approve, Life!Fail, Life!Becomes
<1>4. CASE UNCHANGED status
  BY <1>1, <1>4 DEF Life!vars
<1>5. ASSUME NEW verdict \in {"review", "failed"}, RunEnds(t, verdict)
      PROVE  Life!Next \/ UNCHANGED Life!vars
  <2>1. CASE status[t] = "open"
    BY <1>2, <1>5, <2>1 DEF RunEnds
  <2>2. CASE status[t] # "open"
    BY <1>4, <1>5, <2>2 DEF RunEnds, DeliveryInv, TypeOK
  <2> QED
    BY <2>1, <2>2
<1> QED
  BY <1>2, <1>3, <1>4, <1>5
     DEF RunStep, RunChecksWorktree, RunRefused, RunTakesBranch, RunWrites, FailsInRun, Judge,
         deliveryVars

\* A finalization delivers when it commits, reports when it writes its record,
\* and rests otherwise.
LEMMA FinalizeIsLife ==
  ASSUME NEW f \in Finalizers, DeliveryInv, ~Overlapping, FinalizeStep(f)
  PROVE  Life!Next \/ UNCHANGED Life!vars
<1>1. UNCHANGED status
  BY FinalizeCases DEF deliveryVars
<1>2. CASE Commits(f)
  BY <1>1, <1>2, CommitOfFinalize DEF Commits, Life!Next, Life!Deliver
<1>3. CASE WritesRecord(f)
  <2>1. ~At(f, "idle") /\ finalizer[f].at = "write"
    BY <1>3 DEF WritesRecord, At
  <2>2. Secured(f) /\ finalizer[f].task \in Tasks /\ finalizer[f].outcome \in Outcome
    BY <2>1, FinalizerTypes DEF DeliveryInv, FinalizerInv, TypeOK
  <2>3. Life!Report(finalizer[f].task, finalizer[f].outcome)
    BY <1>1, <1>3, <2>1, <2>2 DEF WritesRecord, Secured, Life!Report, repositoryVars
  <2> QED
    BY <2>2, <2>3 DEF Life!Next, Outcome
<1>4. CASE UNCHANGED <<commits, record>>
  BY <1>1, <1>4 DEF Life!vars
<1> QED
  BY <1>2, <1>3, <1>4
     DEF FinalizeStep, Begin, Continue, FinalizeBegins, FinalizeContinues, ChecksBranch,
         ChecksIndex, LooksForChanges, Adds, HasNothingToCommit, ChecksRecord, CannotAdd,
         FinalizeStops, AddAll, repositoryVars

LEMMA LifeStep ==
  ASSUME DeliveryInv, ~Overlapping, [Next]_vars
  PROVE  Life!Next \/ UNCHANGED Life!vars
<1>1. CASE OperatorDiscards \/ OperatorUnstages
  BY <1>1 DEF OperatorDiscards, OperatorUnstages, finalizeVars, deliveryVars, Life!vars
<1>2. CASE UNCHANGED vars
  BY <1>2 DEF vars, repositoryVars, finalizeVars, deliveryVars, Life!vars
<1> QED
  BY <1>1, <1>2, RunIsLife, FinalizeIsLife DEF Next, RunStep, FinalizeStep

\* Runs, reviews and finalizations, with their crashes and failed calls, deliver
\* each approved task once, by itself and for good, and say so only then.
THEOREM DeliveryRefinement ==
  ASSUME ~Overlapping
  PROVE  Spec => ImplementsDeliveryLife
<1>1. Init => Life!Init
  BY DEF Init, RepositoryInit, FinalizeInit, DeliveryInit, Life!Init
<1>2. DeliveryInv /\ [Next]_vars => [Life!Next]_(Life!vars)
  BY LifeStep
<1> QED
  BY <1>1, <1>2, DeliveryIsSafe, PTL DEF Spec, ImplementsDeliveryLife, Life!Spec

-----------------------------------------------------------------------------
(* What is left when processes overlap.                                    *)

LEMMA RunKeepsReports ==
  ASSUME NEW t \in Tasks, ReportInv, RunStep(t)
  PROVE  ReportInv'
<1>1. TypeOK'
  BY RunTypes DEF ReportInv
<1>2. /\ UNCHANGED <<finalizer, record, commits>>
      /\ \A u \in Tasks : status[u] = "approved" => status'[u] = "approved"
  BY RunFrame DEF ReportInv, finalizeVars
<1>3. /\ \A c \in commits : c.task \in Tasks
      /\ \A f \in Finalizers : ~At(f, "idle") => finalizer[f].task \in Tasks
  BY FinalizerTypes DEF ReportInv, TypeOK, RepositoryTypeOK, Commit
<1> QED
  BY <1>1, <1>2, <1>3 DEF ReportInv, ReportsAreTrue, Earned, HasCommit, At

\* Processes that do not move keep what they have earned.
LEMMA EarnedKept ==
  ASSUME NEW f \in Finalizers, ~At(f, "idle"), Earned(f), finalizer'[f] = finalizer[f],
         UNCHANGED status, commits \subseteq commits'
  PROVE  Earned(f)'
  BY DEF Earned, HasCommit

LEMMA FinalizeKeepsReports ==
  ASSUME NEW f \in Finalizers, ReportInv, FinalizeStep(f)
  PROVE  ReportInv'
<1>t. TypeOK /\ TypeOK'
  BY FinalizeTypes DEF ReportInv
<1>1. /\ UNCHANGED status
      /\ commits \subseteq commits'
      /\ \A g \in Finalizers \ {f} : finalizer'[g] = finalizer[g]
  BY <1>t DEF TypeOK, FinalizeTypeOK, FinalizeStep, Begin, Continue, FinalizeBegins,
         FinalizeContinues, ChecksBranch, ChecksIndex, LooksForChanges, Adds, Commits,
         HasNothingToCommit, ChecksRecord, WritesRecord, CannotAdd, FinalizeStops, GoesTo, AddAll,
         CommitFor, repositoryVars, deliveryVars
<1>2. ~At(f, "idle") => Earned(f) /\ finalizer[f].task \in Tasks
  BY <1>t, FinalizerTypes DEF ReportInv, TypeOK
<1>3. ~At(f, "idle")' => Earned(f)'
  <2> SUFFICES ASSUME ~At(f, "idle")' PROVE Earned(f)'
    OBVIOUS
  <2>1. finalizer \in [Finalizers -> Finalizer]
    BY <1>t DEF TypeOK, FinalizeTypeOK
  <2>2. finalizer'[f] # Idle
    BY DEF At, Idle
  <2>3. ASSUME NEW t \in Tasks, NEW mode \in Modes, Begin(f, t, mode)
        PROVE  Earned(f)'
    BY <1>1, <2>1, <2>3 DEF Begin, FinalizeBegins, GoesTo, Finalizing, Recording, Earned
  <2>4. CASE Commits(f)
    <3>1. finalizer'[f] = Recording(finalizer[f].task, finalizer[f].mode, "check", "commit")
      BY <2>1, <2>4 DEF Commits, GoesTo
    <3>2. \E c \in commits' : c.task = finalizer[f].task
      <4> DEFINE new == [branch |-> head, task |-> finalizer[f].task, content |-> index]
      <4>1. new \in commits' /\ new.task = finalizer[f].task
        BY <2>4 DEF Commits, CommitFor
      <4> QED
        BY <4>1
    <3>3. status'[finalizer[f].task] = "approved"
      BY <1>1, <1>2, <2>4 DEF Commits, At, Earned
    <3> QED
      BY <3>1, <3>2, <3>3 DEF Recording, Earned, HasCommit
  <2>5. CASE GoesTo(f, Recording(finalizer[f].task, finalizer[f].mode, "check", "no_changes"))
             /\ ~At(f, "idle")
    <3>1. finalizer'[f] = Recording(finalizer[f].task, finalizer[f].mode, "check", "no_changes")
      BY <2>1, <2>5 DEF GoesTo
    <3> QED
      BY <1>1, <1>2, <2>5, <3>1 DEF Recording, Earned
  <2>6. CASE finalizer[f].at \in CallsOfGit
             /\ \E call \in CallsOfGit : GoesTo(f, [finalizer[f] EXCEPT !.at = call])
    <3>1. PICK call \in CallsOfGit : finalizer'[f] = [finalizer[f] EXCEPT !.at = call]
      BY <2>1, <2>6 DEF GoesTo
    <3>2. finalizer[f] \in [at : CallsOfGit, task : Tasks, mode : FinalizeMode]
      BY <1>t, <2>6, FinalizerShape DEF TypeOK
    <3>3. finalizer'[f].at \in CallsOfGit /\ finalizer'[f].task = finalizer[f].task
      BY <3>1, <3>2
    <3> QED
      BY <1>1, <1>2, <2>6, <3>3 DEF Earned, CallsOfGit, At
  <2>7. CASE ChecksRecord(f)
    <3>1. finalizer'[f] = [finalizer[f] EXCEPT !.at = "write"]
      BY <2>1, <2>2, <2>7 DEF ChecksRecord, GoesTo
    <3>2. finalizer[f] \in [at : {"check", "write"}, task : Tasks, mode : FinalizeMode,
                            outcome : Outcome]
      BY <1>t, <2>7, FinalizerShape DEF TypeOK, ChecksRecord, At
    <3>3. finalizer'[f].task = finalizer[f].task /\ finalizer'[f].outcome = finalizer[f].outcome
      BY <3>1, <3>2
    <3> QED
      BY <1>1, <1>2, <2>7, <3>2, <3>3 DEF ChecksRecord, Earned, HasCommit, At
  <2>8. ~GoesTo(f, Idle)
    BY <2>1, <2>2 DEF GoesTo
  <2> QED
    BY <2>3, <2>4, <2>5, <2>6, <2>7, <2>8
       DEF FinalizeStep, Continue, FinalizeContinues, ChecksBranch, ChecksIndex, LooksForChanges,
           Adds, CannotAdd, HasNothingToCommit, WritesRecord, FinalizeStops, At, CallsOfGit
<1>4. \A g \in Finalizers : ~At(g, "idle")' => Earned(g)'
  <2> SUFFICES ASSUME NEW g \in Finalizers \ {f}, ~At(g, "idle")'
               PROVE  Earned(g)'
    BY <1>3
  <2> QED
    BY <1>1, EarnedKept DEF ReportInv, At
<1>5. \A c \in commits' : status'[c.task] = "approved" /\ c.content # {}
  <2>1. CASE Commits(f)
    BY <1>1, <1>2, <2>1 DEF Commits, CommitFor, ReportInv, ReportsAreTrue, Earned, At
  <2>2. CASE UNCHANGED commits
    BY <1>1, <2>2 DEF ReportInv, ReportsAreTrue
  <2> QED
    BY <2>1, <2>2 DEF FinalizeStep, Begin, Continue, FinalizeBegins, FinalizeContinues,
           ChecksBranch, ChecksIndex, LooksForChanges, Adds, HasNothingToCommit,
           ChecksRecord, WritesRecord, CannotAdd, FinalizeStops, AddAll, repositoryVars
<1>6. \A t \in Tasks : record'[t] = "commit" => HasCommit(t)'
  <2>1. CASE WritesRecord(f)
    BY <1>1, <1>2, <1>t, <2>1
       DEF WritesRecord, ReportInv, ReportsAreTrue, Earned, HasCommit, At, TypeOK, FinalizeTypeOK
  <2>2. CASE UNCHANGED record
    BY <1>1, <2>2 DEF ReportInv, ReportsAreTrue, HasCommit
  <2> QED
    BY <2>1, <2>2 DEF FinalizeStep, Begin, Continue, FinalizeBegins, FinalizeContinues,
           ChecksBranch, ChecksIndex, LooksForChanges, Adds, Commits, HasNothingToCommit,
           ChecksRecord, CannotAdd, FinalizeStops
<1> QED
  BY <1>t, <1>4, <1>5, <1>6 DEF ReportInv, ReportsAreTrue, HasCommit

LEMMA ReportStep ==
  ASSUME ReportInv, [Next]_vars
  PROVE  ReportInv'
<1>1. CASE OperatorDiscards \/ OperatorUnstages
  BY <1>1, OperatorTypes
     DEF OperatorDiscards, OperatorUnstages, ReportInv, ReportsAreTrue, Earned, HasCommit, At,
         finalizeVars, deliveryVars
<1>2. CASE UNCHANGED vars
  BY <1>2 DEF vars, repositoryVars, finalizeVars, deliveryVars, ReportInv, ReportsAreTrue, TypeOK,
         RepositoryTypeOK, FinalizeTypeOK, Earned, HasCommit, At
<1> QED
  BY <1>1, <1>2, RunKeepsReports, FinalizeKeepsReports DEF Next, RunStep, FinalizeStep

\* However runs and finalizations overlap, only approved tasks are committed for,
\* and a record that names a commit is of a task that has one.
THEOREM ReportsSurviveOverlap == Spec => []ReportsAreTrue
<1>1. Init => ReportInv
  BY DeliveryStart
     DEF Init, RepositoryInit, FinalizeInit, DeliveryInit, DeliveryInv, ReportInv,
         ReportsAreTrue, Idle, At
<1>2. ReportInv /\ [Next]_vars => ReportInv'
  BY ReportStep
<1>3. ReportInv => ReportsAreTrue
  BY DEF ReportInv
<1> QED
  BY <1>1, <1>2, <1>3, PTL DEF Spec

=============================================================================
