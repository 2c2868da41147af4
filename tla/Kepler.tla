------------------------------- MODULE Kepler -------------------------------
(***************************************************************************)
(* Kepler, the discovery service: every hour it scans the code and         *)
(* registers each finding it has not seen as a proposal that waits for a   *)
(* human (register_discoveries).  The ledger of seen findings is a second  *)
(* file, read when the pass starts and replaced when it ends; a crash in   *)
(* between leaves proposals in the table that the ledger does not know.    *)
(***************************************************************************)
EXTENDS TaskTable

VARIABLES
  seen,         \* the ledger file
  scan          \* the pass in progress: findings to come, ledger in memory

keplerVars == <<seen, scan>>

Scan == [busy : BOOLEAN, todo : SUBSET Discovered, known : SUBSET Discovered]

NoScan == [busy |-> FALSE, todo |-> {}, known |-> {}]

KeplerInit ==
  /\ seen = {}
  /\ scan = NoScan

KeplerTypeOK ==
  /\ seen \subseteq Discovered
  /\ scan \in Scan

\* Mutant: a finding is queued at once.
QueuedRow == [NoRow EXCEPT !.status = "Pending"]

\* A finding becomes a task that no human has looked at.
ProposalRow == [NoRow EXCEPT !.status = "PendingProposal"]

\* The scanner reports `findings`, perhaps none, and the ledger is read; a
\* ledger that cannot be read or parsed counts as empty.
KeplerScans(findings) ==
  /\ ~scan.busy
  /\ \/ /\ scan' = [busy |-> TRUE, todo |-> findings, known |-> seen]
        /\ UNCHANGED faults
     \/ /\ scan' = [busy |-> TRUE, todo |-> findings, known |-> {}]
        /\ Fault
  /\ UNCHANGED <<tasks, seen>>

\* Mutant: a duplicate is not put back into the ledger.
KeplerRegistersNew(t) ==
  /\ t \in scan.todo
  /\ tasks' = IF t \in scan.known THEN tasks ELSE AfterCreate(t, ProposalRow)
  /\ scan' = [scan EXCEPT !.todo = @ \ {t},
                           !.known = IF Exists(t) THEN @ ELSE @ \cup {t}]
  /\ UNCHANGED <<faults, seen>>

\* A finding is skipped when the ledger has it.  Otherwise it is created; when
\* that fails as a duplicate, fetch finds the row and the ledger is restored.
KeplerRegisters(t) ==
  /\ t \in scan.todo
  /\ tasks' = IF t \in scan.known THEN tasks ELSE AfterCreate(t, ProposalRow)
  /\ scan' = [scan EXCEPT !.todo = @ \ {t}, !.known = @ \cup {t}]
  /\ UNCHANGED <<faults, seen>>

\* Mutant: a finding is marked as seen although its registration failed.
KnownAnyway(t, known) == known \cup {t}

\* What the ledger knows after create failed: t only when fetch finds it.
KnownAfterFailure(t, known) == IF Exists(t) THEN known \cup {t} ELSE known

\* create fails for another reason, and fetch may fail too.
KeplerCannotRegister(t) ==
  /\ t \in scan.todo \ scan.known
  /\ Fault
  /\ \E known \in {scan.known, KnownAfterFailure(t, scan.known)} :
       scan' = [scan EXCEPT !.todo = @ \ {t}, !.known = known]
  /\ UNCHANGED <<tasks, seen>>

\* write_seen replaces the ledger.
KeplerWritesSeen ==
  /\ scan.busy /\ scan.todo = {}
  /\ seen' = scan.known
  /\ scan' = NoScan
  /\ UNCHANGED <<tasks, faults>>

\* write_seen fails: logged, and the pass ends.
KeplerCannotWriteSeen ==
  /\ scan.busy /\ scan.todo = {}
  /\ Fault
  /\ scan' = NoScan
  /\ UNCHANGED <<tasks, seen>>

KeplerRestart ==
  /\ scan.busy
  /\ Fault
  /\ scan' = NoScan
  /\ UNCHANGED <<tasks, seen>>

KeplerStep ==
  \/ \E findings \in SUBSET Discovered : KeplerScans(findings)
  \/ \E t \in Discovered : KeplerRegisters(t)
  \/ \E t \in Discovered : KeplerCannotRegister(t)
  \/ KeplerWritesSeen
  \/ KeplerCannotWriteSeen
  \/ KeplerRestart

=============================================================================
