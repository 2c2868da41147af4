-------------------------- MODULE CompletionProofs --------------------------
(***************************************************************************)
(* Proofs about what the record of a `canopus submit` says: a run that is  *)
(* complete did all its stages and had its work checked, and one that ends *)
(* in any other way has recorded what came before.  The invariant behind   *)
(* both, AttemptInv, relates the records of an attempt, its workflow and   *)
(* its diff to its place in the pipeline.  It also knows who was alone:    *)
(* a read-only run that was leaves no change behind.                       *)
(***************************************************************************)
EXTENDS SubmitProofs, SequenceTheorems

-----------------------------------------------------------------------------
(* The stages of a task. *)

Pipelines == {"PlannerOnly", "ReviewerOnly", "DevMode", "BugFix", "SecurityAudit",
              "TestWriter", "UXImprovement"}

(* Roles are different, and only a reviewer or a tester may follow a coder. *)
LEMMA PipelineOrder ==
  ASSUME NEW pipeline \in Pipelines
  PROVE  LET roles == agent_roles(pipeline)
         IN \A i, j \in 1 .. Len(roles) :
              /\ roles[i] = roles[j] => i = j
              /\ i < j /\ roles[i] = "coder" => roles[j] \in {"reviewer", "tester"}
<1>1. CASE pipeline = "PlannerOnly"
  BY <1>1 DEF agent_roles
<1>2. CASE pipeline = "ReviewerOnly"
  BY <1>2 DEF agent_roles
<1>3. CASE pipeline = "DevMode"
  BY <1>3 DEF agent_roles
<1>4. CASE pipeline = "BugFix"
  BY <1>4 DEF agent_roles
<1>5. CASE pipeline = "SecurityAudit"
  BY <1>5 DEF agent_roles
<1>6. CASE pipeline = "TestWriter"
  BY <1>6 DEF agent_roles
<1>7. CASE pipeline = "UXImprovement"
  BY <1>7 DEF agent_roles
<1> QED BY <1>1, <1>2, <1>3, <1>4, <1>5, <1>6, <1>7 DEF Pipelines

(* The same for the roles of a task. *)
LEMMA RolesOrder ==
  ASSUME NEW t \in Tasks, Selection[t].ok
  PROVE  \A i, j \in 1 .. Len(Roles[t]) :
           /\ Roles[t][i] = Roles[t][j] => i = j
           /\ i < j /\ Roles[t][i] = "coder" => Roles[t][j] \in {"reviewer", "tester"}
<1> DEFINE pipeline == pipeline_for_selection(Selection[t], Order[t].type)
<1>1. Roles[t] = agent_roles(pipeline)
  BY SelectionOf
<1>2. pipeline \in Pipelines
  BY SelectionOf, Resolved, PipelineOf DEF Pipelines
<1> HIDE DEF pipeline
<1> QED BY <1>1, <1>2, PipelineOrder

(* Where the check comes. *)
LEMMA CheckPlaceIs ==
  ASSUME NEW t \in Tasks, Selection[t].ok
  PROVE  /\ CheckPlace[t] \in 2 .. Len(Roles[t]) + 1
         /\ CheckPlace[t] <= Len(Roles[t]) => Roles[t][CheckPlace[t] - 1] = "coder"
         /\ \A i \in 1 .. Len(Roles[t]) :
              /\ Roles[t][i] = "coder" => CheckPlace[t] = i + 1
              /\ i >= CheckPlace[t] => Roles[t][i] \in {"reviewer", "tester"}
<1> DEFINE n == Len(Roles[t])
           coders == {i \in DOMAIN Roles[t] : Roles[t][i] = "coder"}
           S == coders \cup {n}
<1>1. n \in 1 .. 4 /\ DOMAIN Roles[t] = 1 .. n
  BY RolesShape
<1>2. \A i, j \in 1 .. n :
        /\ Roles[t][i] = Roles[t][j] => i = j
        /\ i < j /\ Roles[t][i] = "coder" => Roles[t][j] \in {"reviewer", "tester"}
  BY RolesOrder
<1>3. CheckPlace[t] = 1 + Min(S)
  BY DEF CheckPlace
<1>4. CASE coders = {}
  <2>1. S = {n}
    BY <1>4
  <2>2. Min(S) = n
    BY <1>1, <2>1 DEF Min
  <2>3. CheckPlace[t] = n + 1 /\ \A i \in 1 .. n : Roles[t][i] # "coder"
    BY <1>1, <1>3, <1>4, <2>2
  <2> HIDE DEF coders, S, n
  <2>4. n \in 1 .. 4
    BY <1>1
  <2>5. CheckPlace[t] \in 2 .. n + 1 /\ ~(CheckPlace[t] <= n)
    BY <2>3, <2>4
  <2>6. \A i \in 1 .. n : ~(i >= CheckPlace[t])
    BY <2>3, <2>4
  <2> QED BY <2>3, <2>5, <2>6 DEF n
<1>5. ASSUME NEW p \in coders
      PROVE  Min(S) = p
  <2>1. p \in 1 .. n /\ S = {p, n} /\ p <= n
    BY <1>1, <1>2, <1>5
  <2> HIDE DEF S
  <2>2. p \in S /\ \A y \in S : p =< y
    BY <1>1, <2>1
  <2>3. Min(S) \in S /\ \A y \in S : Min(S) =< y
    BY <2>2 DEF Min
  <2> QED BY <1>1, <2>1, <2>2, <2>3
<1>6. CASE coders # {}
  <2>1. PICK p \in coders : TRUE
    BY <1>6
  <2>2. p \in 1 .. n /\ Roles[t][p] = "coder" /\ CheckPlace[t] = p + 1
    BY <1>1, <1>3, <1>5, <2>1
  <2> HIDE DEF coders
  <2> QED BY <1>1, <1>2, <2>2
<1> QED BY <1>4, <1>6

(* The stages by their places. *)
LEMMA StagesShape ==
  ASSUME NEW t \in Tasks, Selection[t].ok
  PROVE  LET c == CheckPlace[t]
             n == Len(Roles[t])
         IN /\ Len(StagesOf[t]) = n + 1 /\ DOMAIN StagesOf[t] = 1 .. n + 1
            /\ \A i \in 1 .. n + 1 :
                 StagesOf[t][i] = IF i < c THEN Roles[t][i]
                                  ELSE IF i = c THEN "check" ELSE Roles[t][i - 1]
<1> DEFINE c == CheckPlace[t]
           n == Len(Roles[t])
           s == Roles[t]
           front == SubSeq(s, 1, c - 1)
           back == SubSeq(s, c, n)
<1>1. s \in Seq(RoleName) /\ n \in 1 .. 4 /\ c \in 2 .. n + 1
  BY RolesShape, CheckPlaceIs
<1>2. StagesOf[t] = front \o <<"check">> \o back
  BY DEF StagesOf, InsertAt
<1>3. /\ front \in Seq(RoleName) /\ Len(front) = c - 1
      /\ \A i \in 1 .. c - 1 : front[i] = s[i]
  BY <1>1
<1>4. /\ back \in Seq(RoleName) /\ Len(back) = n - c + 1
      /\ \A i \in 1 .. n - c + 1 : back[i] = s[c + i - 1]
  BY <1>1
<1> HIDE DEF c, n, s, front, back
<1> DEFINE mid == front \o <<"check">>
<1>5. /\ mid \in Seq(RoleName \cup {"check"}) /\ Len(mid) = c
      /\ \A i \in 1 .. c - 1 : mid[i] = s[i]
      /\ mid[c] = "check"
  BY <1>1, <1>3
<1> HIDE DEF mid
<1>6. /\ Len(mid \o back) = n + 1
      /\ \A i \in 1 .. n + 1 :
           (mid \o back)[i] = IF i < c THEN s[i] ELSE IF i = c THEN "check" ELSE s[i - 1]
  <2>1. /\ mid \o back \in Seq(RoleName \cup {"check"}) /\ Len(mid \o back) = Len(mid) + Len(back)
        /\ \A i \in 1 .. Len(mid) + Len(back) :
             (mid \o back)[i] = IF i <= Len(mid) THEN mid[i] ELSE back[i - Len(mid)]
    <3>1. back \in Seq(RoleName \cup {"check"})
      BY <1>4
    <3> QED BY <1>5, <3>1, ConcatProperties
  <2> QED BY <1>1, <1>4, <1>5, <2>1
<1>7. StagesOf[t] = mid \o back /\ DOMAIN (mid \o back) = 1 .. n + 1
  BY <1>1, <1>2, <1>4, <1>5, <1>6 DEF mid
<1> QED BY <1>6, <1>7 DEF c, n, s

(* They are different, and each is a role or the check. *)
LEMMA StagesDiffer ==
  ASSUME NEW t \in Tasks, Selection[t].ok
  PROVE  /\ \A i \in DOMAIN StagesOf[t] : StagesOf[t][i] \in RoleName \cup {"check"}
         /\ \A i, j \in DOMAIN StagesOf[t] : StagesOf[t][i] = StagesOf[t][j] => i = j
<1> DEFINE c == CheckPlace[t]
           n == Len(Roles[t])
           s == Roles[t]
           st == StagesOf[t]
<1>1. /\ n \in 1 .. 4 /\ c \in 2 .. n + 1 /\ DOMAIN st = 1 .. n + 1
      /\ \A i \in 1 .. n + 1 :
           st[i] = IF i < c THEN s[i] ELSE IF i = c THEN "check" ELSE s[i - 1]
  BY RolesShape, CheckPlaceIs, StagesShape
<1>2. \A i \in 1 .. n : s[i] \in RoleName /\ s[i] # "check"
  BY RolesShape DEF RoleName
<1>3. \A i, j \in 1 .. n : s[i] = s[j] => i = j
  BY RolesOrder
<1> HIDE DEF c, n, s, st
<1>4. ASSUME NEW i \in 1 .. n + 1
      PROVE  /\ st[i] \in RoleName \cup {"check"}
             /\ st[i] = "check" <=> i = c
  <2>1. CASE i < c
    <3>1. i \in 1 .. n /\ st[i] = s[i] /\ i # c
      BY <1>1, <2>1
    <3> QED BY <1>2, <3>1
  <2>2. CASE i = c
    BY <1>1, <2>2
  <2>3. CASE i > c
    <3>1. i - 1 \in 1 .. n /\ st[i] = s[i - 1] /\ i # c
      BY <1>1, <2>3
    <3> QED BY <1>2, <3>1
  <2> QED BY <1>1, <2>1, <2>2, <2>3
<1>5. ASSUME NEW i \in 1 .. n + 1, NEW j \in 1 .. n + 1, st[i] = st[j]
      PROVE  i = j
  <2>1. CASE i = c \/ j = c
    BY <1>4, <1>5, <2>1
  <2>2. CASE i # c /\ j # c
    <3> DEFINE p(k) == IF k < c THEN k ELSE k - 1
    <3>1. /\ p(i) \in 1 .. n /\ st[i] = s[p(i)]
          /\ p(j) \in 1 .. n /\ st[j] = s[p(j)]
      BY <1>1, <2>2
    <3>2. p(i) = p(j)
      BY <1>3, <1>5, <3>1
    <3> QED BY <1>1, <2>2, <3>2
  <2> QED BY <2>1, <2>2
<1> QED BY <1>1, <1>4, <1>5 DEF c, n, s, st

-----------------------------------------------------------------------------
(* What records tell. *)

(* No record tells of no stage. *)
LEMMA TellsNothing ==
  ASSUME NEW t \in Tasks, Selection[t].ok
  PROVE  TellsOf(<<>>, t, 0)
BY DEF TellsOf

(* A record of something else than a stage. *)
LEMMA TellsStill ==
  ASSUME NEW t \in Tasks, Selection[t].ok, NEW records \in Seq(Record), NEW n \in Nat,
         TellsOf(records, t, n), NEW x \in Record, x.stage \notin RoleName \cup {"check"}
  PROVE  TellsOf(Append(records, x), t, n)
<1> DEFINE new == Append(records, x)
           m == Len(records)
           st == StagesOf[t]
<1>1. /\ m \in Nat /\ DOMAIN records = 1 .. m /\ DOMAIN new = 1 .. m + 1
      /\ \A k \in 1 .. m : new[k] = records[k]
      /\ new[m + 1] = x
  BY AppendProperties, LenProperties
<1>2. \A i \in DOMAIN st : x.stage # st[i]
  BY StagesDiffer
<1> HIDE DEF new, m, st
<1>3. \A i \in 1 .. n : \E k \in DOMAIN new : new[k] = [stage |-> st[i], status |-> "ok"]
  BY <1>1 DEF TellsOf, st
<1>4. \A k \in DOMAIN new, i \in DOMAIN st : new[k].stage = st[i] => k \in DOMAIN records
  BY <1>1, <1>2
<1>5. \A k \in DOMAIN new, i \in DOMAIN st : new[k].stage = st[i] => i <= n
  BY <1>1, <1>4 DEF TellsOf, st
<1>6. \A k, l \in DOMAIN new, i, j \in DOMAIN st :
        k < l /\ new[k].stage = st[i] /\ new[l].stage = st[j] => i < j
  BY <1>1, <1>4 DEF TellsOf, st
<1> QED BY <1>3, <1>5, <1>6 DEF TellsOf, new, st

(* The record of the next stage. *)
LEMMA TellsMore ==
  ASSUME NEW t \in Tasks, Selection[t].ok, NEW records \in Seq(Record), NEW n \in Nat,
         TellsOf(records, t, n), n + 1 \in DOMAIN StagesOf[t]
  PROVE  TellsOf(Append(records, [stage |-> StagesOf[t][n + 1], status |-> "ok"]), t, n + 1)
<1> DEFINE st == StagesOf[t]
           x == [stage |-> st[n + 1], status |-> "ok"]
           new == Append(records, x)
           m == Len(records)
<1>1. DOMAIN st \subseteq Nat
  BY RolesShape, StagesShape
<1>2. x \in Record
  BY StagesDiffer DEF Record, StageName, Status
<1>3. /\ m \in Nat /\ DOMAIN records = 1 .. m /\ DOMAIN new = 1 .. m + 1
      /\ \A k \in 1 .. m : new[k] = records[k]
      /\ new[m + 1] = x
  BY <1>2, AppendProperties, LenProperties
<1>4. \A i \in DOMAIN st : x.stage = st[i] <=> i = n + 1
  BY StagesDiffer
<1>5. x = [stage |-> st[n + 1], status |-> "ok"]
  OBVIOUS
<1> HIDE DEF new, m, st, x
<1>6. \A i \in 1 .. n + 1 : \E k \in DOMAIN new : new[k] = [stage |-> st[i], status |-> "ok"]
  <2> TAKE i \in 1 .. n + 1
  <2>1. CASE i \in 1 .. n
    BY <1>3, <2>1 DEF TellsOf, st
  <2>2. CASE i = n + 1
    BY <1>3, <1>5, <2>2
  <2> QED BY <2>1, <2>2
<1>7. \A k \in DOMAIN new, i \in DOMAIN st : new[k].stage = st[i] => i <= n + 1
  <2> SUFFICES ASSUME NEW k \in DOMAIN new, NEW i \in DOMAIN st, new[k].stage = st[i]
               PROVE  i <= n + 1
    OBVIOUS
  <2>1. CASE k = m + 1
    BY <1>3, <1>4, <2>1
  <2>2. CASE k # m + 1
    <3>1. k \in DOMAIN records /\ records[k].stage = st[i]
      BY <1>3, <2>2
    <3>2. i <= n
      BY <3>1 DEF TellsOf, st
    <3> QED BY <1>1, <3>2
  <2> QED BY <2>1, <2>2
<1>8. \A k, l \in DOMAIN new, i, j \in DOMAIN st :
        k < l /\ new[k].stage = st[i] /\ new[l].stage = st[j] => i < j
  <2> SUFFICES ASSUME NEW k \in DOMAIN new, NEW l \in DOMAIN new,
                      NEW i \in DOMAIN st, NEW j \in DOMAIN st,
                      k < l, new[k].stage = st[i], new[l].stage = st[j]
               PROVE  i < j
    OBVIOUS
  <2>1. k \in DOMAIN records /\ records[k].stage = st[i]
    BY <1>3
  <2>2. CASE l = m + 1
    <3>1. j = n + 1
      BY <1>3, <1>4, <2>2
    <3>2. i <= n
      BY <2>1 DEF TellsOf, st
    <3> QED BY <1>1, <3>1, <3>2
  <2>3. CASE l # m + 1
    <3>1. l \in DOMAIN records /\ records[l].stage = st[j]
      BY <1>3, <2>3
    <3> QED BY <2>1, <3>1 DEF TellsOf, st
  <2> QED BY <2>2, <2>3
<1> QED BY <1>6, <1>7, <1>8 DEF TellsOf, new, st, x

-----------------------------------------------------------------------------
(* The invariant, for the one attempt that takes a step and for the others. *)

Good(r) == PlaceFits(r) /\ RecordsFit(r) /\ WorkflowFits(r)

AllFit ==
  \A a \in Attempts :
    Good(run[a]) /\ AloneFits(a) /\ DiffFits(a, run[a], dirty) /\ NumberFits(a)

(* It is what the runs check, in other parts. *)
LEMMA AllFitIs == AllFit <=> AttemptInv
BY DEF AllFit, AttemptInv, Good

\* What AloneFits asks of the new record q of attempt a.
HasBranch(q) ==
  q.pc \notin Ended /\ q.alone /\ TakesBranch(q.task) =>
    /\ Prepared(q) \/ q.pc = "prepared" => head' = q.task
    /\ Prepared(q) => file'[q.task] = q.records /\ q.records # <<>>

(* A step of a live attempt a to the record q. *)
LEMMA LiveStep ==
  ASSUME Inv, AllFit, NEW a \in Live, NEW q, run' = [run EXCEPT ![a] = q],
         Good(q), HasBranch(q), DiffFits(a, q, dirty'), q.pc # "unused",
         q.task = run[a].task, q.n = run[a].n, q.alone = run[a].alone
  PROVE  AllFit'
<1>1. run \in [Attempts -> Run] /\ a \in Attempts /\ run[a].pc \notin Ended \cup {"unused"}
  BY DEF Inv, RunInv, Live
<1>2. run'[a] = q /\ \A b \in Attempts \ {a} : run'[b] = run[b]
  BY <1>1
<1>3. Live' = {b \in Attempts : run'[b].pc \notin Ended \cup {"unused"}}
  BY DEF Live
<1>4. \A b \in Attempts : run'[b].task = run[b].task
  BY <1>1, <1>2
<1>5. ASSUME NEW b \in Attempts
      PROVE  NumberFits(b)'
  <2>1. (run'[b].pc = "unused") <=> (run[b].pc = "unused")
    BY <1>1, <1>2
  <2>2. run'[b].n = run[b].n
    BY <1>1, <1>2
  <2>3. \A x \in Attempts : run'[x].pc = "unused" <=> run[x].pc = "unused"
    BY <1>1, <1>2
  <2>4. 1 .. b \subseteq Attempts
    BY OrderAssumption DEF Attempts
  <2>5. {x \in 1 .. b : run'[x].task = run'[b].task} = {x \in 1 .. b : run[x].task = run[b].task}
    BY <1>4, <2>4
  <2>6. NumberFits(b)
    BY DEF AllFit
  <2> QED BY <2>1, <2>2, <2>3, <2>5, <2>6 DEF NumberFits
<1>6. AloneFits(a)' /\ DiffFits(a, run'[a], dirty')
  <2>1. CASE ~q.alone
    BY <1>2, <2>1 DEF AloneFits
  <2>2. CASE q.alone
    <3>1. Live = {a}
      BY <1>1, <2>2 DEF AllFit, AloneFits
    <3>2. a \in Live' => Live' = {a}
      BY <1>1, <1>2, <1>3, <3>1 DEF Live
    <3>3. a \in Live' => q.pc \notin Ended
      BY <1>2, <1>3
    <3> QED BY <1>2, <3>2, <3>3 DEF AloneFits, HasBranch
  <2> QED BY <1>2, <2>1, <2>2
<1>7. ASSUME NEW b \in Attempts, b # a
      PROVE  Good(run'[b]) /\ AloneFits(b)' /\ DiffFits(b, run'[b], dirty')
  <2>1. Good(run'[b])
    BY <1>2, <1>7 DEF AllFit
  <2>2. b \in Live' => b \in Live
    BY <1>2, <1>3, <1>7 DEF Live
  <2>3. b \in Live => ~run[b].alone
    BY <1>7 DEF AllFit, AloneFits
  <2>4. AloneFits(b)'
    BY <1>2, <1>7, <2>2, <2>3 DEF AloneFits
  <2>5. run[b].pc = "ok" => run[b].checked
    BY DEF AllFit, Good, PlaceFits
  <2>6. b \notin Live => run[b].pc \in {"unused", "err", "dead", "ok"}
    BY DEF Live, Ended
  <2>7. DiffFits(b, run[b], dirty')
    BY <2>3, <2>5, <2>6 DEF AllFit, DiffFits
  <2> QED BY <1>2, <1>7, <2>1, <2>4, <2>7
<1> QED BY <1>2, <1>5, <1>6, <1>7 DEF AllFit

(* An attempt that ends without success. *)
LEMMA StopStep ==
  ASSUME Inv, AllFit, NEW a \in Live, NEW q, run' = [run EXCEPT ![a] = q],
         q.pc \in {"err", "dead"},
         q.task = run[a].task, q.n = run[a].n, q.alone = run[a].alone
  PROVE  AllFit'
<1>1. PlaceFits(q) /\ RecordsFit(q) /\ WorkflowFits(q)
  BY DEF PlaceFits, RecordsFit, WorkflowFits, Ended
<1>2. HasBranch(q) /\ DiffFits(a, q, dirty')
  BY DEF HasBranch, DiffFits, Ended
<1> QED BY <1>1, <1>2, LiveStep DEF Good

(* A failure that is recorded. *)
LEMMA FailsFit ==
  ASSUME Inv, AllFit, NEW a \in Live, NEW stage, FailsAt(a, stage)
  PROVE  AllFit'
<1> DEFINE records == Recorded(a, stage, "failed")
           q == [run[a] EXCEPT !.pc = "err", !.records = records]
<1>1. run[a] \in Run /\ run' = [run EXCEPT ![a] = q]
  BY DEF Inv, RunInv, Live, FailsAt, Records
<1> HIDE DEF records
<1>2. q.pc = "err" /\ q.task = run[a].task /\ q.n = run[a].n /\ q.alone = run[a].alone
  BY <1>1 DEF Run
<1> HIDE DEF q
<1> QED BY <1>1, <1>2, StopStep

(* A step on the branch that keeps diff and check. *)
LEMMA PlainStep ==
  ASSUME Inv, AllFit, NEW a \in Live, NEW q, run' = [run EXCEPT ![a] = q],
         Good(q), Prepared(run[a]), Prepared(q),
         q.task = run[a].task, q.n = run[a].n, q.alone = run[a].alone,
         q.wrote = run[a].wrote, q.checked = run[a].checked, q.diff = run[a].diff,
         head' = head, dirty \subseteq dirty',
         \/ file' = file /\ q.records = run[a].records
         \/ Persists(a, q.records) /\ q.records # <<>>
  PROVE  AllFit'
<1>1. /\ a \in Attempts /\ AloneFits(a) /\ DiffFits(a, run[a], dirty)
      /\ run[a].pc \notin Ended \cup {"unused"} /\ run[a].task \in Tasks
  BY Begun DEF AllFit, Live
<1>2. HasBranch(q)
  <2>1. file \in [Tasks -> Seq(Record)]
    BY DEF Inv, PlaceInv
  <2> QED BY <1>1, <2>1 DEF HasBranch, AloneFits, Prepared, Persists
<1>3. DiffFits(a, q, dirty')
  BY <1>1 DEF DiffFits, Prepared, Ended
<1>4. q.pc # "unused"
  BY DEF Prepared
<1> QED BY <1>2, <1>3, <1>4, LiveStep

-----------------------------------------------------------------------------
(* The steps of an attempt. *)

\* The record q is of the same attempt as r, with the same work done.
SameWork(q, r) ==
  /\ q.task = r.task /\ q.n = r.n /\ q.alone = r.alone
  /\ q.wrote = r.wrote /\ q.checked = r.checked /\ q.diff = r.diff

\* It is at the same stage and in the same state of the workflow.
SameStage(q, r) == q.idx = r.idx /\ q.wf = r.wf /\ q.reviewed = r.reviewed

(* An attempt that goes on without a record. *)
LEMMA Goes ==
  ASSUME Inv, NEW a \in Attempts, NEW pc, GoesTo(a, pc)
  PROVE  /\ file' = file
         /\ \E q : /\ run' = [run EXCEPT ![a] = q]
                   /\ q.pc = pc /\ q.records = run[a].records
                   /\ SameWork(q, run[a]) /\ SameStage(q, run[a])
<1> DEFINE q == [run[a] EXCEPT !.pc = pc]
<1>1. run[a] \in Run
  BY DEF Inv, RunInv
<1>2. /\ q.pc = pc /\ q.records = run[a].records
      /\ SameWork(q, run[a]) /\ SameStage(q, run[a])
  BY <1>1 DEF Run, SameWork, SameStage
<1>3. run' = [run EXCEPT ![a] = q] /\ file' = file
  BY DEF GoesTo
<1> HIDE DEF q
<1> QED BY <1>2, <1>3

(* An attempt that gives up without a record. *)
LEMMA GivesUpFits ==
  ASSUME Inv, AllFit, NEW a \in Live, GoesTo(a, "err")
  PROVE  AllFit'
<1>1. a \in Attempts
  BY DEF Live
<1>2. PICK q : run' = [run EXCEPT ![a] = q] /\ q.pc = "err" /\ SameWork(q, run[a])
  BY <1>1, Goes
<1> QED BY <1>2, StopStep DEF SameWork

(* An attempt that goes on with a record. *)
LEMMA RecordsGo ==
  ASSUME Inv, NEW a \in Attempts, NEW stage \in StageName, NEW status \in Status, NEW pc,
         Records(a, stage, status, pc)
  PROVE  \E q : /\ run' = [run EXCEPT ![a] = q]
                /\ Persists(a, q.records) /\ q.records # <<>>
                /\ q.pc = pc
                /\ q.records = Append(run[a].records, [stage |-> stage, status |-> status])
                /\ SameWork(q, run[a]) /\ SameStage(q, run[a])
<1> DEFINE records == Recorded(a, stage, status)
           q == [run[a] EXCEPT !.pc = pc, !.records = records]
<1>1. run[a] \in Run
  BY DEF Inv, RunInv
<1>2. records = Append(run[a].records, [stage |-> stage, status |-> status]) /\ records # <<>>
  <2>1. run[a].records \in Seq(Record) /\ [stage |-> stage, status |-> status] \in Record
    BY <1>1 DEF Run, Record
  <2> QED BY <2>1, AppendProperties DEF Recorded
<1>3. run' = [run EXCEPT ![a] = q] /\ Persists(a, records)
  BY DEF Records
<1> HIDE DEF records
<1>4. q.pc = pc /\ q.records = records /\ SameWork(q, run[a]) /\ SameStage(q, run[a])
  BY <1>1 DEF Run, SameWork, SameStage
<1> HIDE DEF q
<1> QED BY <1>2, <1>3, <1>4

(* A record of something else than a stage fits. *)
LEMMA OtherRecord ==
  ASSUME NEW r \in Run, NEW q, NEW x \in Record, RecordsFit(r),
         r.task \in Tasks, Selection[r.task].ok, q.task = r.task,
         r.pc \notin {"unused", "start"} \cup Ended,
         q.pc \notin {"unused", "start", "clean"} \cup Ended,
         StagesDone(r) \in Nat, StagesDone(q) = StagesDone(r),
         x.stage \notin RoleName \cup {"check", "complete"},
         q.records = Append(r.records, x)
  PROVE  RecordsFit(q)
<1>1. r.records \in Seq(Record)
  BY DEF Run
<1>2. TellsOf(r.records, r.task, StagesDone(r))
  BY DEF RecordsFit, Ended
<1>3. TellsOf(q.records, q.task, StagesDone(q))
  BY <1>1, <1>2, TellsStill
<1>4. \A k \in DOMAIN q.records : q.records[k].stage # "complete"
  BY <1>1, AppendProperties, LenProperties DEF RecordsFit
<1> QED BY <1>3, <1>4 DEF RecordsFit

(* The record of the stage an attempt has just done fits. *)
LEMMA StageRecord ==
  ASSUME NEW r \in Run, NEW q, NEW stage, RecordsFit(r),
         r.task \in Tasks, Selection[r.task].ok, q.task = r.task,
         r.pc \notin {"unused", "start"} \cup Ended,
         q.pc \notin {"unused", "start", "clean"} \cup Ended,
         StagesDone(r) \in Nat, StagesDone(q) = StagesDone(r) + 1,
         StagesDone(q) \in DOMAIN StagesOf[r.task], stage = StagesOf[r.task][StagesDone(q)],
         q.records = Append(r.records, [stage |-> stage, status |-> "ok"])
  PROVE  RecordsFit(q)
<1> DEFINE x == [stage |-> stage, status |-> "ok"]
<1>1. r.records \in Seq(Record) /\ x \in Record /\ x.stage # "complete"
  <2>1. stage \in RoleName \cup {"check"}
    BY StagesDiffer
  <2>2. stage \in StageName /\ stage # "complete"
    BY <2>1 DEF StageName, RoleName
  <2> QED BY <2>2 DEF Run, Record, Status
<1>2. TellsOf(r.records, r.task, StagesDone(r))
  BY DEF RecordsFit, Ended
<1>3. TellsOf(q.records, q.task, StagesDone(q))
  BY <1>1, <1>2, TellsMore
<1> HIDE DEF x
<1>4. q.records = Append(r.records, x)
  BY DEF x
<1>5. \A k \in DOMAIN q.records : q.records[k].stage # "complete"
  BY <1>1, <1>4, AppendProperties, LenProperties DEF RecordsFit
<1> QED BY <1>3, <1>5 DEF RecordsFit

(* What an attempt that has started is known to satisfy. *)
LEMMA Going ==
  ASSUME Inv, AllFit, NEW a \in Attempts, run[a].pc \notin {"unused", "start"} \cup Ended
  PROVE  LET r == run[a]
             c == CheckPlace[r.task]
             n == Len(Roles[r.task])
         IN /\ a \in Live /\ r \in Run /\ r.task \in Tasks /\ Selection[r.task].ok
            /\ PlaceFits(r) /\ RecordsFit(r) /\ WorkflowFits(r)
            /\ AloneFits(a) /\ DiffFits(a, r, dirty)
            /\ n \in 1 .. 4 /\ r.idx \in 1 .. n /\ c \in 2 .. n + 1
            /\ r.checked \in BOOLEAN /\ StagesDone(r) \in Nat
<1>1. /\ run[a] \in Run /\ run[a].task \in Tasks /\ Selection[run[a].task].ok
      /\ run[a].idx \in 1 .. Len(Roles[run[a].task])
  BY Begun
<1>2. /\ CheckPlace[run[a].task] \in 2 .. Len(Roles[run[a].task]) + 1
      /\ Len(Roles[run[a].task]) \in 1 .. 4
  BY <1>1, RolesShape, CheckPlaceIs
<1>3. run[a].checked \in BOOLEAN /\ a \in Live
  BY <1>1 DEF Run, Live
<1>4. StagesDone(run[a]) \in Nat
  BY <1>1, <1>2 DEF StagesDone
<1> QED BY <1>1, <1>2, <1>3, <1>4 DEF AllFit, Good

(* Between the stages of the pipeline nothing else changes. *)
LEMMA MidGood ==
  ASSUME NEW r, NEW q, PlaceFits(r), WorkflowFits(r), RecordsFit(q),
         SameWork(q, r), SameStage(q, r),
         r.pc \in {"stage", "helper", "agent"}, q.pc \in {"stage", "helper", "agent", "answered"}
  PROVE  Good(q)
<1>1. PlaceFits(q)
  BY DEF PlaceFits, SameWork, SameStage
<1>2. WorkflowFits(q)
  BY DEF WorkflowFits, SameWork, SameStage, Ended
<1> QED BY <1>1, <1>2 DEF Good

(* Configuration and selection. *)
LEMMA StartFits ==
  ASSUME Inv, AllFit, NEW a \in Attempts, Start(a)
  PROVE  AllFit'
<1> DEFINE r == run[a]
<1>1. /\ r.pc = "start" /\ a \in Live /\ r \in Run /\ r.task \in Tasks
      /\ PlaceFits(r) /\ RecordsFit(r) /\ WorkflowFits(r) /\ DiffFits(a, r, dirty)
  BY Begun DEF Start, At, Live, Ended, AllFit, Good
<1>2. r.idx = 1 /\ ~r.checked /\ r.records = <<>>
  BY <1>1 DEF PlaceFits, RecordsFit
<1>3. CASE FailsAt(a, "backend-selection")
  BY <1>1, <1>3, FailsFit
<1>4. CASE GoesTo(a, "err")
  BY <1>1, <1>4, GivesUpFits
<1>5. CASE GoesTo(a, "clean") /\ Selection[r.task].ok
  <2>1. PICK q : /\ run' = [run EXCEPT ![a] = q] /\ q.pc = "clean" /\ q.records = r.records
                 /\ SameWork(q, r) /\ SameStage(q, r)
    BY <1>5, Goes
  <2>2. PlaceFits(q) /\ WorkflowFits(q)
    BY <1>1, <1>2, <2>1 DEF PlaceFits, WorkflowFits, SameWork, SameStage, Ended
  <2>3. RecordsFit(q)
    <3>1. StagesDone(q) = 0 /\ q.records = <<>> /\ q.task = r.task
      BY <1>2, <2>1 DEF StagesDone, SameWork, SameStage
    <3> QED BY <1>1, <1>5, <3>1, TellsNothing DEF RecordsFit
  <2>4. HasBranch(q) /\ DiffFits(a, q, dirty')
    BY <1>1, <2>1 DEF HasBranch, DiffFits, Prepared, SameWork
  <2> QED BY <1>1, <2>1, <2>2, <2>3, <2>4, LiveStep DEF Good, SameWork
<1> QED BY <1>3, <1>4, <1>5 DEF Start

(* The check for a clean worktree. *)
LEMMA CleanFits ==
  ASSUME Inv, AllFit, NEW a \in Attempts, ensure_clean_worktree(a)
  PROVE  AllFit'
<1> DEFINE r == run[a]
<1>1. r.pc = "clean"
  BY DEF ensure_clean_worktree, At
<1>2. /\ a \in Live /\ r \in Run /\ r.task \in Tasks /\ Selection[r.task].ok
      /\ PlaceFits(r) /\ RecordsFit(r) /\ WorkflowFits(r) /\ DiffFits(a, r, dirty)
      /\ StagesDone(r) \in Nat
  BY <1>1, Going DEF Ended
<1>3. CASE FailsAt(a, "prepare")
  BY <1>2, <1>3, FailsFit
<1>4. CASE Records(a, "backend-selection", "ok", "branch")
  <2> DEFINE x == [stage |-> "backend-selection", status |-> "ok"]
  <2>0. "backend-selection" \in StageName /\ "ok" \in Status
    BY DEF StageName, Status
  <2>1. PICK q : /\ run' = [run EXCEPT ![a] = q] /\ q.pc = "branch"
                 /\ q.records = Append(r.records, x)
                 /\ SameWork(q, r) /\ SameStage(q, r)
    BY <1>4, <2>0, RecordsGo
  <2>2. PlaceFits(q) /\ WorkflowFits(q)
    BY <1>1, <1>2, <2>1 DEF PlaceFits, WorkflowFits, SameWork, SameStage, Ended
  <2>3. RecordsFit(q)
    <3>1. StagesDone(q) = StagesDone(r) /\ q.task = r.task
      BY <1>1, <2>1 DEF StagesDone, SameWork, SameStage
    <3>2. x \in Record /\ x.stage \notin RoleName \cup {"check", "complete"}
      BY DEF Record, StageName, Status, RoleName
    <3> HIDE DEF x
    <3> QED BY <1>1, <1>2, <2>1, <3>1, <3>2, OtherRecord DEF Ended
  <2>4. HasBranch(q) /\ DiffFits(a, q, dirty')
    BY <1>1, <1>2, <2>1 DEF HasBranch, DiffFits, Prepared, SameWork
  <2> QED BY <1>2, <2>1, <2>2, <2>3, <2>4, LiveStep DEF Good, SameWork
<1> QED BY <1>3, <1>4 DEF ensure_clean_worktree

(* The branch. *)
LEMMA PrepareFits ==
  ASSUME Inv, AllFit, NEW a \in Attempts, prepare(a)
  PROVE  AllFit'
<1> DEFINE r == run[a]
<1>1. r.pc = "branch"
  BY DEF prepare, At
<1>2. /\ a \in Live /\ r \in Run /\ r.task \in Tasks
      /\ PlaceFits(r) /\ RecordsFit(r) /\ WorkflowFits(r) /\ DiffFits(a, r, dirty)
  BY <1>1, Going DEF Ended
<1>3. CASE FailsAt(a, "prepare")
  BY <1>2, <1>3, FailsFit
<1>4. CASE GoesTo(a, "prepared") /\ (TakesBranch(r.task) => head' = r.task)
  <2>1. PICK q : /\ run' = [run EXCEPT ![a] = q] /\ q.pc = "prepared" /\ q.records = r.records
                 /\ SameWork(q, r) /\ SameStage(q, r)
    BY <1>4, Goes
  <2>2. PlaceFits(q) /\ WorkflowFits(q)
    BY <1>1, <1>2, <2>1 DEF PlaceFits, WorkflowFits, SameWork, SameStage, Ended
  <2>3. RecordsFit(q)
    <3>1. StagesDone(q) = StagesDone(r)
      BY <1>1, <2>1 DEF StagesDone, SameWork, SameStage
    <3> QED BY <1>1, <1>2, <2>1, <3>1 DEF RecordsFit, SameWork, Ended
  <2>4. HasBranch(q) /\ DiffFits(a, q, dirty')
    BY <1>1, <1>2, <1>4, <2>1 DEF HasBranch, DiffFits, Prepared, SameWork
  <2> QED BY <1>2, <2>1, <2>2, <2>3, <2>4, LiveStep DEF Good, SameWork
<1> QED BY <1>3, <1>4 DEF prepare

(* The record of the preparation. *)
LEMMA PersistFits ==
  ASSUME Inv, AllFit, NEW a \in Attempts, NEW saved \in BOOLEAN,
         persist_upstream_provenance(a, saved)
  PROVE  AllFit'
<1> DEFINE r == run[a]
           t == r.task
           x == [stage |-> "prepare", status |-> "ok"]
           y == [stage |-> "upstream-provenance", status |-> "ok"]
           first == Recorded(a, "prepare", "ok")
           records == IF Order[t].upstream /\ saved THEN Append(first, y) ELSE first
           p == [r EXCEPT !.records = first]
           q == [r EXCEPT !.pc = IF saved THEN "stage" ELSE "err", !.records = records]
<1>1. /\ r.pc = "prepared" /\ Persists(a, records) /\ run' = [run EXCEPT ![a] = q]
      /\ head' = head /\ dirty' = dirty
  BY DEF persist_upstream_provenance, At
<1>2. /\ a \in Live /\ r \in Run /\ t \in Tasks /\ Selection[t].ok
      /\ PlaceFits(r) /\ RecordsFit(r) /\ WorkflowFits(r) /\ DiffFits(a, r, dirty)
      /\ AloneFits(a) /\ StagesDone(r) \in Nat
  BY <1>1, Going DEF Ended
<1>3. CASE ~saved
  <2> HIDE DEF records
  <2>1. q.pc = "err" /\ SameWork(q, r)
    BY <1>2, <1>3 DEF Run, SameWork
  <2> HIDE DEF q
  <2> QED BY <1>1, <1>2, <2>1, StopStep DEF SameWork
<1>4. CASE saved
  <2>2. /\ x \in Record /\ x.stage \notin RoleName \cup {"check", "complete"}
        /\ y \in Record /\ y.stage \notin RoleName \cup {"check", "complete"}
    BY DEF Record, StageName, Status, RoleName
  <2>3. first = Append(r.records, x)
    BY DEF Recorded
  <2> HIDE DEF x, y
  <2>4. r.records \in Seq(Record)
    BY <1>2 DEF Run
  <2>5. first \in Seq(Record) /\ first # <<>>
    BY <2>2, <2>3, <2>4, AppendProperties
  <2> HIDE DEF first
  <2>6. records = first \/ records = Append(first, y)
    OBVIOUS
  <2>7. records \in Seq(Record) /\ records # <<>>
    BY <2>2, <2>5, <2>6, AppendProperties
  <2> HIDE DEF records
  <2>8. p \in Run /\ p.pc = r.pc /\ p.records = first /\ SameWork(p, r) /\ SameStage(p, r)
    BY <1>2, <2>5 DEF Run, SameWork, SameStage
  <2>9. q.pc = "stage" /\ q.records = records /\ SameWork(q, r) /\ SameStage(q, r)
    BY <1>2, <1>4, <2>7 DEF Run, SameWork, SameStage
  <2> HIDE DEF p, q
  <2>10. StagesDone(p) = StagesDone(r) /\ StagesDone(q) = StagesDone(r)
    BY <1>1, <2>8, <2>9 DEF StagesDone, SameWork, SameStage
  <2>11. RecordsFit(p)
    BY <1>1, <1>2, <2>2, <2>3, <2>8, <2>10, OtherRecord DEF Ended, SameWork
  <2>12. RecordsFit(q)
    <3>1. CASE records = first
      BY <1>1, <2>8, <2>9, <2>10, <2>11, <3>1 DEF RecordsFit, SameWork, Ended
    <3>2. CASE records = Append(first, y)
      BY <1>1, <1>2, <2>2, <2>8, <2>9, <2>10, <2>11, <3>2, OtherRecord DEF Ended, SameWork
    <3> QED BY <2>6, <3>1, <3>2
  <2>13. PlaceFits(q)
    <3>1. CheckPlace[t] \in 2 .. Len(Roles[t]) + 1 /\ Len(Roles[t]) \in 1 .. 4
      BY <1>1, Going DEF Ended
    <3>2. q.idx = 1 /\ ~q.checked /\ q.task = t
      BY <1>1, <1>2, <2>9 DEF PlaceFits, SameWork, SameStage
    <3>3. ~(1 >= CheckPlace[t])
      BY <3>1
    <3> QED BY <2>9, <3>2, <3>3 DEF PlaceFits
  <2>14. WorkflowFits(q)
    BY <1>1, <1>2, <2>9 DEF WorkflowFits, SameWork, SameStage, Ended
  <2>15. HasBranch(q)
    <3>1. file \in [Tasks -> Seq(Record)]
      BY DEF Inv, PlaceInv
    <3> QED BY <1>1, <1>2, <2>7, <2>9, <3>1 DEF HasBranch, AloneFits, SameWork, Persists
  <2>16. DiffFits(a, q, dirty')
    BY <1>1, <1>2, <2>9 DEF DiffFits, Prepared, SameWork
  <2> QED BY <1>1, <1>2, <2>9, <2>12, <2>13, <2>14, <2>15, <2>16, LiveStep DEF Good, SameWork
<1> QED BY <1>3, <1>4

(* A stage gets its row. *)
LEMMA SubmitStageFits ==
  ASSUME Inv, AllFit, NEW a \in Attempts, submit_stage(a)
  PROVE  AllFit'
<1> DEFINE r == run[a]
<1>1. r.pc = "stage"
  BY DEF submit_stage, At
<1>2. /\ a \in Live /\ r \in Run /\ PlaceFits(r) /\ RecordsFit(r) /\ WorkflowFits(r)
      /\ r.task \in Tasks /\ Role(a) \in StageName
  BY <1>1, Going, Begun DEF Ended
<1>3. CASE FailsAt(a, Role(a))
  BY <1>2, <1>3, FailsFit
<1>4. CASE GoesTo(a, "helper")
  <2>1. PICK q : /\ run' = [run EXCEPT ![a] = q] /\ q.pc = "helper" /\ q.records = r.records
                 /\ SameWork(q, r) /\ SameStage(q, r)
    BY <1>4, Goes
  <2>2. StagesDone(q) = StagesDone(r)
    BY <1>1, <2>1 DEF StagesDone, SameWork, SameStage
  <2>3. RecordsFit(q)
    BY <1>1, <1>2, <2>1, <2>2 DEF RecordsFit, SameWork, Ended
  <2>4. Good(q)
    BY <1>1, <1>2, <2>1, <2>3, MidGood
  <2>5. head' = head /\ dirty' = dirty /\ file' = file
    BY <1>4 DEF submit_stage, GoesTo
  <2> QED BY <1>1, <1>2, <2>1, <2>4, <2>5, PlainStep DEF Prepared, SameWork
<1> QED BY <1>3, <1>4 DEF submit_stage

(* The agent starts, after what the helpers did. *)
LEMMA AgentStartsFits ==
  ASSUME Inv, AllFit, NEW a \in Attempts, run[a].pc = "helper",
         NEW records \in Seq(Record), NEW before,
         run' = [run EXCEPT ![a].pc = "agent", ![a].records = records, ![a].before = before],
         \/ file' = file /\ records = run[a].records
         \/ \E status \in Status : records = Recorded(a, "helper", status) /\ Persists(a, records),
         head' = head, dirty \subseteq dirty'
  PROVE  AllFit'
<1> DEFINE r == run[a]
           q == [r EXCEPT !.pc = "agent", !.records = records, !.before = before]
<1>1. /\ a \in Live /\ r \in Run /\ PlaceFits(r) /\ RecordsFit(r) /\ WorkflowFits(r)
      /\ r.task \in Tasks /\ Selection[r.task].ok /\ StagesDone(r) \in Nat
  BY Going DEF Ended
<1>2. q.pc = "agent" /\ q.records = records /\ SameWork(q, r) /\ SameStage(q, r)
  BY <1>1 DEF Run, SameWork, SameStage
<1>3. run' = [run EXCEPT ![a] = q]
  OBVIOUS
<1> HIDE DEF q
<1>4. StagesDone(q) = StagesDone(r)
  BY <1>2 DEF StagesDone, SameWork, SameStage
<1>5. RecordsFit(q) /\ (records = r.records \/ records # <<>>)
  <2>1. CASE records = r.records
    BY <1>1, <1>2, <1>4, <2>1 DEF RecordsFit, SameWork, Ended
  <2>2. ASSUME NEW status \in Status, records = Recorded(a, "helper", status)
        PROVE  RecordsFit(q) /\ records # <<>>
    <3> DEFINE x == [stage |-> "helper", status |-> status]
    <3>1. x \in Record /\ x.stage \notin RoleName \cup {"check", "complete"}
      BY DEF Record, StageName, RoleName
    <3>2. q.records = Append(r.records, x)
      BY <1>2, <2>2 DEF Recorded
    <3> HIDE DEF x
    <3>3. records # <<>>
      <4>1. r.records \in Seq(Record)
        BY <1>1 DEF Run
      <4> QED BY <1>2, <3>1, <3>2, <4>1, AppendProperties
    <3> QED BY <1>1, <1>2, <1>4, <3>1, <3>2, <3>3, OtherRecord DEF Ended, SameWork
  <2> QED BY <2>1, <2>2
<1>6. Good(q)
  BY <1>1, <1>2, <1>5, MidGood
<1>7. \/ file' = file /\ q.records = r.records
      \/ Persists(a, q.records) /\ q.records # <<>>
  <2>1. CASE file' = file /\ records = r.records
    BY <1>2, <2>1
  <2>2. ASSUME NEW status \in Status, records = Recorded(a, "helper", status),
               Persists(a, records)
        PROVE  Persists(a, q.records) /\ q.records # <<>>
    <3>1. r.records \in Seq(Record) /\ [stage |-> "helper", status |-> status] \in Record
      BY <1>1 DEF Run, Record, StageName
    <3> QED BY <1>2, <2>2, <3>1, AppendProperties DEF Recorded
  <2> QED BY <2>1, <2>2
<1> QED BY <1>1, <1>2, <1>3, <1>6, <1>7, PlainStep DEF Prepared, SameWork

(* No helper is configured for the role. *)
LEMMA NoHelperFits ==
  ASSUME Inv, AllFit, NEW a \in Attempts, NoHelper(a)
  PROVE  AllFit'
<1> DEFINE before == Snapshots(a, dirty)
           records == run[a].records
<1>1. run[a].pc = "helper" /\ run[a] \in Run
  BY DEF NoHelper, At, Inv, RunInv
<1>2. run' = [run EXCEPT ![a].pc = "agent", ![a].records = records, ![a].before = before]
  <2>1. run' = [run EXCEPT ![a].pc = "agent", ![a].before = before]
    BY DEF NoHelper, AgentStarts
  <2>2. [run[a] EXCEPT !.pc = "agent", !.before = before]
          = [run[a] EXCEPT !.pc = "agent", !.records = records, !.before = before]
    BY <1>1 DEF Run
  <2> QED BY <2>1, <2>2
<1>3. records \in Seq(Record) /\ file' = file /\ head' = head /\ dirty' = dirty
  BY <1>1 DEF NoHelper, Run
<1> HIDE DEF before
<1> QED BY <1>1, <1>2, <1>3, AgentStartsFits

(* The helpers. *)
LEMMA HelperFits ==
  ASSUME Inv, AllFit, NEW a \in Attempts, NEW writes \in BOOLEAN, NEW ok \in BOOLEAN,
         Helper(a, writes, ok)
  PROVE  AllFit'
<1> DEFINE status == IF ok THEN "ok" ELSE "failed"
           records == Recorded(a, "helper", status)
           before == Snapshots(a, dirty')
<1>1. run[a].pc = "helper" /\ run[a] \in Run
  BY DEF Helper, At, Inv, RunInv
<1>2. "helper" \in StageName /\ status \in Status
  BY DEF StageName, Status
<1>3. head' = head /\ dirty \subseteq dirty' /\ Persists(a, records)
  BY DEF Helper
<1>4. CASE ~ok /\ HelperConfig.policy = "fail-fast"
  <2>1. FailsAt(a, "helper")
    BY <1>4 DEF Helper, FailsAt, Records
  <2> QED BY <1>1, <1>2, <2>1, FailsFit DEF Live, Ended
<1>5. CASE ~(~ok /\ HelperConfig.policy = "fail-fast")
  <2>1. run' = [run EXCEPT ![a].pc = "agent", ![a].records = records, ![a].before = before]
    BY <1>5 DEF Helper
  <2>2. records \in Seq(Record)
    BY <1>2, RecordedTyped
  <2> HIDE DEF before, status
  <2> QED BY <1>1, <1>2, <1>3, <2>1, <2>2, AgentStartsFits
<1> QED BY <1>4, <1>5

(* A sandboxed agent writes just where its work is committed from, and before
   the check. *)
LEMMA WriterUnchecked ==
  ASSUME Inv, AllFit, NEW a \in Attempts, run[a].pc = "agent", Sandboxed(run[a].task),
         Reach(Runtime[run[a].task], Role(a)) # "nowhere"
  PROVE  /\ Reach(Runtime[run[a].task], Role(a)) # "anywhere"
         /\ ~run[a].checked
<1> DEFINE r == run[a]
           c == CheckPlace[r.task]
           n == Len(Roles[r.task])
<1>1. /\ r.task \in Tasks /\ Selection[r.task].ok /\ PlaceFits(r)
      /\ n \in 1 .. 4 /\ r.idx \in 1 .. n /\ c \in 2 .. n + 1
  BY Going DEF Ended
<1>2. Role(a) \in {"coder", "test_writer"} /\ Reach(Runtime[r.task], Role(a)) = "directory"
  BY DEF Sandboxed, Reach, sandbox_for_role
<1>3. r.idx >= c => Role(a) \in {"reviewer", "tester"}
  BY <1>1, CheckPlaceIs DEF Role
<1>4. ~(r.idx >= c)
  BY <1>2, <1>3
<1>5. r.checked <=> r.idx >= c
  BY <1>1 DEF PlaceFits
<1> QED BY <1>2, <1>4, <1>5

(* The agent changes files. *)
LEMMA WritesFits ==
  ASSUME Inv, AllFit, NEW a \in Attempts, AgentWrites(a)
  PROVE  AllFit'
<1> DEFINE r == run[a]
<1>1. r.pc = "agent" /\ head' = head /\ file' = file
  BY DEF AgentWrites, At
<1>2. /\ a \in Live /\ r \in Run /\ r.task \in Tasks
      /\ PlaceFits(r) /\ RecordsFit(r) /\ WorkflowFits(r)
      /\ AloneFits(a) /\ DiffFits(a, r, dirty)
  BY <1>1, Going DEF Ended
<1>3. CASE /\ TakesBranch(r.task) \/ Reach(Runtime[r.task], Role(a)) = "anywhere"
           /\ dirty' = dirty \cup {a}
           /\ run' = [run EXCEPT ![a].wrote = TRUE]
  <2> DEFINE q == [r EXCEPT !.wrote = TRUE]
  <2>1. run' = [run EXCEPT ![a] = q]
    BY <1>3
  <2>2. /\ q.pc = r.pc /\ q.records = r.records /\ SameStage(q, r)
        /\ q.task = r.task /\ q.n = r.n /\ q.alone = r.alone
        /\ q.checked = r.checked /\ q.diff = r.diff
    BY <1>2 DEF Run, SameStage
  <2> HIDE DEF q
  <2>3. PlaceFits(q) /\ WorkflowFits(q)
    <3>1. q.pc = "agent"
      BY <1>1, <2>2
    <3>2. PlaceFits(q)
      BY <1>1, <1>2, <2>2, <3>1 DEF PlaceFits, SameStage
    <3>3. WorkflowFits(q)
      BY <1>1, <1>2, <2>2, <3>1 DEF WorkflowFits, SameStage, Ended
    <3> QED BY <3>2, <3>3
  <2>4. RecordsFit(q)
    <3>1. StagesDone(q) = StagesDone(r)
      BY <2>2 DEF StagesDone, SameStage
    <3> QED BY <1>1, <1>2, <2>2, <3>1 DEF RecordsFit
  <2>5. HasBranch(q)
    <3>1. q.pc = "agent" /\ q.task = r.task /\ q.records = r.records /\ q.alone = r.alone
      BY <1>1, <2>2
    <3> QED BY <1>1, <1>2, <3>1 DEF HasBranch, AloneFits, Prepared, Ended
  <2>6. DiffFits(a, q, dirty')
    <3>1. Reach(Runtime[r.task], Role(a)) # "nowhere"
      BY DEF AgentWrites
    <3>2. Sandboxed(r.task) => ~r.checked /\ TakesBranch(r.task)
      BY <1>1, <1>3, <3>1, WriterUnchecked
    <3> QED BY <1>1, <1>3, <2>2, <3>2 DEF DiffFits, Prepared
  <2> QED BY <1>1, <1>2, <2>1, <2>2, <2>3, <2>4, <2>5, <2>6, LiveStep DEF Good
<1>4. CASE run' = [run EXCEPT ![a].copy = TRUE] /\ UNCHANGED dirty
  <2> DEFINE q == [r EXCEPT !.copy = TRUE]
  <2>1. run' = [run EXCEPT ![a] = q]
    BY <1>4
  <2>2. q.pc = r.pc /\ q.records = r.records /\ SameWork(q, r) /\ SameStage(q, r)
    BY <1>2 DEF Run, SameWork, SameStage
  <2> HIDE DEF q
  <2>3. RecordsFit(q)
    <3>1. StagesDone(q) = StagesDone(r)
      BY <2>2 DEF StagesDone, SameWork, SameStage
    <3> QED BY <1>1, <1>2, <2>2, <3>1 DEF RecordsFit, SameWork
  <2>4. Good(q)
    BY <1>1, <1>2, <2>2, <2>3, MidGood
  <2> QED BY <1>1, <1>2, <1>4, <2>1, <2>2, <2>4, PlainStep DEF Prepared, SameWork
<1> QED BY <1>3, <1>4 DEF AgentWrites

(* The stage an agent has just done is the next one of the task. *)
LEMMA StageAfter ==
  ASSUME Inv, AllFit, NEW a \in Attempts, run[a].pc = "agent"
  PROVE  /\ StagesDone(run[a]) + 1 \in DOMAIN StagesOf[run[a].task]
         /\ Role(a) = StagesOf[run[a].task][StagesDone(run[a]) + 1]
<1> DEFINE r == run[a]
           t == r.task
           c == CheckPlace[t]
           n == Len(Roles[t])
<1>1. /\ t \in Tasks /\ Selection[t].ok /\ PlaceFits(r)
      /\ n \in 1 .. 4 /\ r.idx \in 1 .. n /\ c \in 2 .. n + 1
  BY Going DEF Ended
<1>2. /\ DOMAIN StagesOf[t] = 1 .. n + 1
      /\ \A i \in 1 .. n + 1 :
           StagesOf[t][i] = IF i < c THEN Roles[t][i]
                            ELSE IF i = c THEN "check" ELSE Roles[t][i - 1]
  BY <1>1, StagesShape
<1>3. r.checked <=> r.idx >= c
  BY <1>1 DEF PlaceFits
<1>4. StagesDone(r) = IF r.checked THEN r.idx ELSE r.idx - 1
  BY <1>1 DEF StagesDone
<1>5. Role(a) = Roles[t][r.idx]
  BY DEF Role
<1> HIDE DEF c, n
<1>6. CASE r.checked
  <2>1. StagesDone(r) + 1 = r.idx + 1 /\ r.idx + 1 \in 1 .. n + 1 /\ r.idx + 1 > c
    BY <1>1, <1>3, <1>4, <1>6
  <2>2. StagesOf[t][r.idx + 1] = Roles[t][r.idx + 1 - 1] /\ r.idx + 1 - 1 = r.idx
    BY <1>1, <1>2, <2>1
  <2> QED BY <1>2, <1>5, <2>1, <2>2
<1>7. CASE ~r.checked
  <2>1. StagesDone(r) + 1 = r.idx /\ r.idx \in 1 .. n + 1 /\ r.idx < c
    BY <1>1, <1>3, <1>4, <1>7
  <2> QED BY <1>2, <1>5, <2>1
<1> QED BY <1>6, <1>7

(* The agent has answered, or has not. *)
LEMMA ReturnsFits ==
  ASSUME Inv, AllFit, NEW a \in Attempts, NEW ok \in BOOLEAN, AgentReturns(a, ok)
  PROVE  AllFit'
<1> DEFINE r == run[a]
<1>1. r.pc = "agent" /\ head' = head /\ dirty' = dirty
  BY DEF AgentReturns, At
<1>2. /\ a \in Live /\ r \in Run /\ r.task \in Tasks /\ Selection[r.task].ok
      /\ PlaceFits(r) /\ RecordsFit(r) /\ WorkflowFits(r) /\ StagesDone(r) \in Nat
      /\ Role(a) \in StageName
  BY <1>1, Going, Begun DEF Ended
<1>3. CASE FailsAt(a, Role(a))
  BY <1>2, <1>3, FailsFit
<1>4. CASE Records(a, Role(a), "ok", "answered")
  <2>1. "ok" \in Status
    BY DEF Status
  <2>2. PICK q : /\ run' = [run EXCEPT ![a] = q] /\ q.pc = "answered"
                 /\ Persists(a, q.records) /\ q.records # <<>>
                 /\ q.records = Append(r.records, [stage |-> Role(a), status |-> "ok"])
                 /\ SameWork(q, r) /\ SameStage(q, r)
    BY <1>2, <1>4, <2>1, RecordsGo
  <2>3. StagesDone(q) = StagesDone(r) + 1
    <3>1. r.idx \in 1 .. 4 /\ r.checked \in BOOLEAN
      BY <1>2 DEF Run
    <3> QED BY <1>1, <2>2, <3>1 DEF StagesDone, SameWork, SameStage
  <2>4. RecordsFit(q)
    BY <1>1, <1>2, <2>2, <2>3, StageAfter, StageRecord DEF Ended, SameWork
  <2>5. Good(q)
    BY <1>1, <1>2, <2>2, <2>4, MidGood
  <2> QED BY <1>1, <1>2, <2>2, <2>5, PlainStep DEF Prepared, SameWork
<1> QED BY <1>3, <1>4 DEF AgentReturns

(* A path of the workflow, by its steps. *)
LEMMA AllowedTwo ==
  ASSUME NEW x, NEW y, x = y \/ transition_to(x, y)
  PROVE  Allowed(<<x, y>>)
BY DEF Allowed

(* The same for two steps. *)
LEMMA AllowedThree ==
  ASSUME NEW x, NEW y, NEW z, x = y \/ transition_to(x, y), y = z \/ transition_to(y, z)
  PROVE  Allowed(<<x, y, z>>)
<1>1. Len(<<x, y, z>>) - 1 = 2 /\ \A i \in 1 .. 2 : i = 1 \/ i = 2
  OBVIOUS
<1> QED BY <1>1 DEF Allowed

(* The next role, or the end of the pipeline. *)
LEMMA NextPlace ==
  ASSUME NEW r \in Run, r.idx \in 1 .. Len(Roles[r.task]), Len(Roles[r.task]) \in 1 .. 4
  PROVE  LET q == NextStage(r)
         IN /\ SameWork(q, r) /\ q.records = r.records
            /\ q.wf = r.wf /\ q.reviewed = r.reviewed
            /\ \/ r.idx < Len(Roles[r.task]) /\ q.pc = "stage" /\ q.idx = r.idx + 1
               \/ r.idx = Len(Roles[r.task]) /\ q.pc = "last" /\ q.idx = r.idx
<1>1. CASE r.idx < Len(Roles[r.task])
  BY <1>1 DEF NextStage, Run, SameWork
<1>2. CASE ~(r.idx < Len(Roles[r.task]))
  BY <1>2 DEF NextStage, Run, SameWork
<1> QED BY <1>1, <1>2

(* An answer moves the workflow on, and is never refused. *)
LEMMA AnswerFits ==
  ASSUME NEW r \in Run, NEW role, r.pc = "answered", WorkflowFits(r), role = "coder" => ~r.checked
  PROVE  LET path == AnswerPath(r.wf, role)
             q == Along(r, path)
         IN /\ Allowed(path)
            /\ SameWork(q, r) /\ q.records = r.records /\ q.idx = r.idx
            /\ IF r.checked THEN q.wf \in {"Checking", "Reviewed"}
               ELSE q.wf = IF role = "coder" THEN "Executing" ELSE "Planned"
            /\ q.reviewed => q.wf = "Reviewed"
<1> DEFINE planned == IF r.wf = "Created" THEN "Planned" ELSE r.wf
           last == CASE role = "coder" /\ planned = "Planned"     -> "Executing"
                     [] role = "reviewer" /\ planned = "Checking" -> "Reviewed"
                     [] OTHER                                     -> planned
           more == r.reviewed \/ (planned = "Checking" /\ last = "Reviewed")
           q == [r EXCEPT !.wf = last, !.reviewed = more]
<1>1. /\ IF r.checked THEN r.wf \in {"Checking", "Reviewed"} ELSE r.wf \in {"Created", "Planned"}
      /\ r.reviewed => r.wf = "Reviewed"
  BY DEF WorkflowFits, Ended
<1>2. AnswerPath(r.wf, role) = <<r.wf, planned, last>>
  BY DEF AnswerPath
<1>3. Along(r, <<r.wf, planned, last>>) = q
  BY DEF Along
<1>4. /\ r.wf = planned \/ transition_to(r.wf, planned)
      /\ planned = last \/ transition_to(planned, last)
  BY <1>1 DEF transition_to
<1>5. /\ IF r.checked THEN last \in {"Checking", "Reviewed"}
         ELSE last = IF role = "coder" THEN "Executing" ELSE "Planned"
      /\ more => last = "Reviewed"
  BY <1>1
<1>6. Allowed(<<r.wf, planned, last>>)
  BY <1>4, AllowedThree
<1> HIDE DEF planned, last, more
<1>7. /\ SameWork(q, r) /\ q.records = r.records /\ q.idx = r.idx
      /\ q.wf = last /\ q.reviewed = more
  BY DEF Run, SameWork
<1> HIDE DEF q
<1> QED BY <1>2, <1>3, <1>5, <1>6, <1>7

(* What the answer leads to. *)
LEMMA AnsweredFits ==
  ASSUME Inv, AllFit, NEW a \in Attempts, NEW asks \in BOOLEAN, Answered(a, asks)
  PROVE  AllFit'
<1> DEFINE r == run[a]
           c == CheckPlace[r.task]
           n == Len(Roles[r.task])
           next == Along(r, AnswerPath(r.wf, Role(a)))
           coded == [next EXCEPT !.pc = "check"]
           later == NextStage(next)
<1>1. /\ r.pc = "answered" /\ head' = head /\ dirty' = dirty /\ file' = file
  BY DEF Answered, At
<1>2. /\ a \in Live /\ r \in Run /\ r.task \in Tasks /\ Selection[r.task].ok
      /\ PlaceFits(r) /\ RecordsFit(r) /\ WorkflowFits(r)
      /\ n \in 1 .. 4 /\ r.idx \in 1 .. n /\ c \in 2 .. n + 1
      /\ r.checked \in BOOLEAN
  BY <1>1, Going DEF Ended
<1>3. /\ r.checked <=> r.idx >= c
      /\ Role(a) = "coder" => c = r.idx + 1
      /\ c <= n => Roles[r.task][c - 1] = "coder"
      /\ Role(a) = Roles[r.task][r.idx]
  BY <1>1, <1>2, CheckPlaceIs DEF PlaceFits, Role
<1>4. Role(a) = "coder" => ~r.checked
  <2> HIDE DEF c
  <2> QED BY <1>2, <1>3
<1>5. /\ Allowed(AnswerPath(r.wf, Role(a)))
      /\ SameWork(next, r) /\ next.records = r.records /\ next.idx = r.idx
      /\ IF r.checked THEN next.wf \in {"Checking", "Reviewed"}
         ELSE next.wf = IF Role(a) = "coder" THEN "Executing" ELSE "Planned"
      /\ next.reviewed => next.wf = "Reviewed"
  BY <1>1, <1>2, <1>4, AnswerFits
<1>6. next \in Run
  BY <1>2, AlongTyped
<1>7. \/ Role(a) = "coder" /\ run' = [run EXCEPT ![a] = coded]
      \/ Role(a) # "coder" /\ run' = [run EXCEPT ![a] = later]
  BY <1>5 DEF Answered, Becomes
<1> HIDE DEF next
<1>8. CASE Role(a) = "coder" /\ run' = [run EXCEPT ![a] = coded]
  <2>1. /\ coded.pc = "check" /\ SameWork(coded, r) /\ coded.records = r.records
        /\ coded.idx = r.idx /\ coded.wf = "Executing" /\ coded.reviewed = next.reviewed
    BY <1>4, <1>5, <1>6, <1>8 DEF Run, SameWork
  <2> HIDE DEF coded
  <2>2. PlaceFits(coded)
    <3>1. c = r.idx + 1 /\ coded.idx = r.idx /\ ~coded.checked /\ coded.task = r.task
      BY <1>3, <1>4, <1>8, <2>1 DEF SameWork
    <3>2. r.idx = c - 1
      <4> HIDE DEF c
      <4> QED BY <1>2, <3>1
    <3> QED BY <2>1, <3>1, <3>2 DEF PlaceFits
  <2>3. WorkflowFits(coded)
    BY <1>4, <1>5, <1>8, <2>1 DEF WorkflowFits, Ended
  <2>4. RecordsFit(coded)
    <3>1. StagesDone(coded) = StagesDone(r)
      BY <1>1, <2>1 DEF StagesDone, SameWork
    <3> QED BY <1>1, <1>2, <2>1, <3>1 DEF RecordsFit, SameWork, Ended
  <2> QED BY <1>1, <1>2, <1>8, <2>1, <2>2, <2>3, <2>4, PlainStep DEF Good, Prepared, SameWork
<1>9. CASE Role(a) # "coder" /\ run' = [run EXCEPT ![a] = later]
  <2>1. /\ SameWork(later, r) /\ later.records = r.records
        /\ later.wf = next.wf /\ later.reviewed = next.reviewed
        /\ \/ r.idx < n /\ later.pc = "stage" /\ later.idx = r.idx + 1
           \/ r.idx = n /\ later.pc = "last" /\ later.idx = r.idx
    BY <1>2, <1>5, <1>6, NextPlace DEF SameWork
  <2> HIDE DEF later
  <2>2. PlaceFits(later)
    <3>1. later.checked = r.checked /\ later.task = r.task
      BY <2>1 DEF SameWork
    <3>2. c # r.idx + 1 \/ c = n + 1
      <4>1. c \in 2 .. n \/ c = n + 1
        <5> HIDE DEF c, n
        <5> QED BY <1>2
      <4>2. CASE c \in 2 .. n
        <5>1. c <= n
          <6> HIDE DEF c, n
          <6> QED BY <1>2, <4>2
        <5>2. Roles[r.task][c - 1] # Roles[r.task][r.idx]
          BY <1>3, <1>9, <5>1
        <5>3. c - 1 # r.idx
          BY <5>2
        <5> HIDE DEF c, n
        <5> QED BY <1>2, <5>3
      <4> QED BY <4>1, <4>2
    <3>3. later.pc = "stage" => (later.checked <=> later.idx >= c)
      <4> HIDE DEF c, n
      <4> QED BY <1>2, <1>3, <2>1, <3>1, <3>2
    <3>4. later.pc = "last" => later.idx = n /\ (later.checked \/ c = n + 1)
      <4> HIDE DEF c, n
      <4> QED BY <1>2, <1>3, <2>1, <3>1, <3>2
    <3> QED BY <2>1, <3>1, <3>3, <3>4 DEF PlaceFits
  <2>3. WorkflowFits(later)
    BY <1>5, <1>9, <2>1 DEF WorkflowFits, SameWork, Ended
  <2>4. RecordsFit(later)
    <3>1. StagesDone(later) = StagesDone(r)
      <4> HIDE DEF n
      <4> QED BY <1>1, <1>2, <2>1 DEF StagesDone, SameWork
    <3> QED BY <1>1, <1>2, <2>1, <3>1 DEF RecordsFit, SameWork, Ended
  <2> QED BY <1>1, <1>2, <1>9, <2>1, <2>2, <2>3, <2>4, PlainStep DEF Good, Prepared, SameWork
<1> QED BY <1>7, <1>8, <1>9

(* The check: a stage of its own, and never refused. *)
LEMMA CheckFits ==
  ASSUME Inv, AllFit, NEW a \in Attempts, run_check_stage(a)
  PROVE  AllFit'
<1> DEFINE r == run[a]
           t == r.task
           c == CheckPlace[t]
           n == Len(Roles[t])
           records == Recorded(a, "check", "ok")
           next == [r EXCEPT !.records = records, !.checked = TRUE, !.wf = "Checking",
                             !.diff = dirty]
           later == NextStage(next)
<1>1. /\ r.pc = "check" \/ (r.pc = "last" /\ ~r.checked)
      /\ head' = head /\ dirty' = dirty /\ Persists(a, records)
  BY DEF run_check_stage, At
<1>2. /\ a \in Live /\ r \in Run /\ t \in Tasks /\ Selection[t].ok
      /\ PlaceFits(r) /\ RecordsFit(r) /\ WorkflowFits(r)
      /\ AloneFits(a) /\ DiffFits(a, r, dirty)
      /\ n \in 1 .. 4 /\ r.idx \in 1 .. n /\ c \in 2 .. n + 1
      /\ StagesDone(r) \in Nat
  BY <1>1, Going DEF Ended
<1>3. ~r.checked /\ r.idx = c - 1 /\ r.wf = IF r.pc = "check" THEN "Executing" ELSE "Planned"
  <2>1. CASE r.pc = "check"
    BY <1>2, <2>1 DEF PlaceFits, WorkflowFits, Ended
  <2>2. CASE r.pc = "last" /\ ~r.checked
    <3>1. r.idx = n /\ c = n + 1 /\ r.wf = "Planned"
      BY <1>2, <2>2 DEF PlaceFits, WorkflowFits, Ended
    <3> HIDE DEF c, n
    <3>2. r.idx = c - 1
      BY <1>2, <3>1
    <3> QED BY <2>2, <3>1, <3>2
  <2> QED BY <1>1, <2>1, <2>2
<1>4. StagesDone(r) = r.idx /\ r.idx + 1 = c
  <2> HIDE DEF c, n
  <2> QED BY <1>1, <1>2, <1>3 DEF StagesDone
<1>5. StagesDone(r) + 1 \in DOMAIN StagesOf[t] /\ "check" = StagesOf[t][StagesDone(r) + 1]
  <2>1. DOMAIN StagesOf[t] = 1 .. n + 1 /\ c \in 1 .. n + 1 /\ StagesOf[t][c] = "check"
    <3>1. /\ DOMAIN StagesOf[t] = 1 .. n + 1
          /\ \A i \in 1 .. n + 1 :
               StagesOf[t][i] = IF i < c THEN Roles[t][i]
                                ELSE IF i = c THEN "check" ELSE Roles[t][i - 1]
      BY <1>2, StagesShape
    <3> HIDE DEF c, n
    <3> QED BY <1>2, <3>1
  <2> QED BY <1>4, <2>1
<1>6. /\ records = Append(r.records, [stage |-> "check", status |-> "ok"])
      /\ records # <<>> /\ records \in Seq(Record)
  <2>1. r.records \in Seq(Record) /\ [stage |-> "check", status |-> "ok"] \in Record
    BY <1>2 DEF Run, Record, StageName, Status
  <2> QED BY <2>1, AppendProperties DEF Recorded
<1>7. dirty \in SUBSET Attempts
  BY DEF Inv, PlaceInv
<1> HIDE DEF records
<1>8. /\ next \in Run /\ next.pc = r.pc /\ next.task = t /\ next.n = r.n /\ next.alone = r.alone
      /\ next.wrote = r.wrote /\ next.checked /\ next.diff = dirty /\ next.records = records
      /\ next.idx = r.idx /\ next.wf = "Checking" /\ next.reviewed = r.reviewed
  BY <1>2, <1>6, <1>7 DEF Run
<1>9. ~r.reviewed
  BY <1>1, <1>2, <1>3 DEF WorkflowFits, Ended
<1>10. \/ r.pc = "check" /\ run' = [run EXCEPT ![a] = later]
       \/ r.pc = "last" /\ run' = [run EXCEPT ![a] = next]
  <2> DEFINE executing == IF r.pc = "last" /\ r.wf = "Planned" THEN "Executing" ELSE r.wf
  <2>1. Allowed(<<r.wf, executing, "Checking">>)
    BY <1>1, <1>3, AllowedThree DEF transition_to
  <2> QED BY <1>1, <2>1 DEF run_check_stage, At, Becomes, records
<1> HIDE DEF next
<1>11. ASSUME NEW q, run' = [run EXCEPT ![a] = q],
              SameWork(q, next), q.records = records, q.wf = "Checking", ~q.reviewed,
              \/ q.pc = "stage" /\ q.idx = c
              \/ q.pc = "last" /\ q.idx = n /\ q.idx = c - 1
       PROVE  AllFit'
  <2>1. /\ q.task = t /\ q.n = r.n /\ q.alone = r.alone /\ q.wrote = r.wrote
        /\ q.checked /\ q.diff = dirty
    BY <1>8, <1>11 DEF SameWork
  <2>2. PlaceFits(q)
    <3>1. q.pc = "stage" => q.idx >= c
      <4> HIDE DEF c, n
      <4> QED BY <1>2, <1>11
    <3> QED BY <1>11, <2>1, <3>1 DEF PlaceFits
  <2>3. WorkflowFits(q)
    BY <1>11, <2>1 DEF WorkflowFits, Ended
  <2>4. StagesDone(q) = StagesDone(r) + 1
    <3> HIDE DEF c, n
    <3> QED BY <1>2, <1>4, <1>11, <2>1 DEF StagesDone
  <2>5. RecordsFit(q)
    BY <1>1, <1>2, <1>5, <1>6, <1>11, <2>1, <2>4, StageRecord DEF Ended
  <2>6. HasBranch(q)
    <3>1. file \in [Tasks -> Seq(Record)]
      BY DEF Inv, PlaceInv
    <3> QED BY <1>1, <1>2, <1>6, <1>11, <2>1, <3>1 DEF HasBranch, AloneFits, Prepared, Persists
  <2>7. DiffFits(a, q, dirty')
    BY <1>1, <1>2, <1>3, <1>11, <2>1 DEF DiffFits, Prepared
  <2> QED BY <1>2, <1>11, <2>1, <2>2, <2>3, <2>5, <2>6, <2>7, LiveStep DEF Good
<1>12. CASE r.pc = "check" /\ run' = [run EXCEPT ![a] = later]
  <2>1. /\ SameWork(later, next) /\ later.records = records
        /\ later.wf = "Checking" /\ ~later.reviewed
        /\ \/ r.idx < n /\ later.pc = "stage" /\ later.idx = r.idx + 1
           \/ r.idx = n /\ later.pc = "last" /\ later.idx = r.idx
    BY <1>2, <1>8, <1>9, NextPlace
  <2> HIDE DEF later
  <2> QED BY <1>3, <1>4, <1>11, <1>12, <2>1
<1>13. CASE r.pc = "last" /\ run' = [run EXCEPT ![a] = next]
  <2>1. r.idx = n
    BY <1>2, <1>13 DEF PlaceFits
  <2>2. SameWork(next, next)
    BY DEF SameWork
  <2> QED BY <1>3, <1>8, <1>9, <1>11, <1>13, <2>1, <2>2
<1> QED BY <1>10, <1>12, <1>13

(* The end of the pipeline: the last transitions are never refused. *)
LEMMA FinishFits ==
  ASSUME Inv, AllFit, NEW a \in Attempts, NEW synced \in BOOLEAN, NEW saved \in BOOLEAN,
         Finish(a, synced, saved)
  PROVE  AllFit'
<1> DEFINE r == run[a]
           reviewed == IF ~r.reviewed /\ r.wf = "Checking" THEN "Reviewed" ELSE r.wf
           x == [stage |-> "github-project", status |-> "ok"]
           y == [stage |-> "complete", status |-> "ok"]
           project == IF Order[r.task].project THEN Recorded(a, "github-project", "ok")
                      ELSE r.records
           records == Append(project, y)
           q == [r EXCEPT !.pc = "ok", !.records = records, !.wf = "Completed"]
<1>1. r.pc = "last" /\ r.checked /\ head' = head /\ dirty' = dirty
  BY DEF Finish, At
<1>2. /\ a \in Live /\ r \in Run /\ r.task \in Tasks /\ Selection[r.task].ok
      /\ PlaceFits(r) /\ RecordsFit(r) /\ WorkflowFits(r) /\ DiffFits(a, r, dirty)
      /\ StagesDone(r) \in Nat
  BY <1>1, Going DEF Ended
<1>3. reviewed = "Reviewed" /\ (r.wf = reviewed \/ transition_to(r.wf, reviewed))
  BY <1>1, <1>2 DEF WorkflowFits, Ended, transition_to
<1>4. Allowed(<<r.wf, reviewed>>) /\ Allowed(<<reviewed, "Completed">>)
  BY <1>3, AllowedTwo DEF transition_to
<1>5. \/ FailsAt(a, "github-project")
      \/ run' = [run EXCEPT ![a].pc = "err", ![a].records = project]
      \/ run' = [run EXCEPT ![a].pc = "ok", ![a].records = records, ![a].wf = "Completed"]
  BY <1>4 DEF Finish
<1> HIDE DEF reviewed
<1>6. CASE FailsAt(a, "github-project")
  BY <1>2, <1>6, FailsFit
<1>7. CASE run' = [run EXCEPT ![a].pc = "ok", ![a].records = records, ![a].wf = "Completed"]
  <2>1. run' = [run EXCEPT ![a] = q]
    BY <1>7
  <2>2. /\ x \in Record /\ x.stage \notin RoleName \cup {"check"}
        /\ y \in Record /\ y.stage \notin RoleName \cup {"check"}
    BY DEF Record, StageName, Status, RoleName
  <2>3. r.records \in Seq(Record)
    BY <1>2 DEF Run
  <2>4. project = Append(r.records, x) \/ project = r.records
    BY DEF Recorded
  <2> HIDE DEF x, y
  <2>5. project \in Seq(Record)
    BY <2>2, <2>3, <2>4, AppendProperties
  <2>6. TellsOf(r.records, r.task, StagesDone(r))
    BY <1>1, <1>2 DEF RecordsFit
  <2>7. TellsOf(project, r.task, StagesDone(r))
    BY <1>2, <2>2, <2>3, <2>4, <2>6, TellsStill
  <2> HIDE DEF project
  <2>8. TellsOf(records, r.task, StagesDone(r)) /\ records \in Seq(Record)
    BY <1>2, <2>2, <2>5, <2>7, TellsStill, AppendProperties
  <2> HIDE DEF records
  <2>9. q.pc = "ok" /\ q.records = records /\ SameWork(q, r) /\ q.idx = r.idx
    BY <1>2, <2>8 DEF Run, SameWork
  <2> HIDE DEF q
  <2>10. PlaceFits(q) /\ WorkflowFits(q)
    BY <1>1, <1>2, <2>9 DEF PlaceFits, WorkflowFits, SameWork, Ended
  <2>11. RecordsFit(q)
    <3>1. StagesDone(q) = StagesDone(r)
      BY <1>1, <2>9 DEF StagesDone, SameWork
    <3> QED BY <2>8, <2>9, <3>1 DEF RecordsFit, SameWork, Ended
  <2>12. HasBranch(q) /\ DiffFits(a, q, dirty')
    BY <1>1, <1>2, <2>9 DEF HasBranch, DiffFits, Prepared, SameWork, Ended
  <2> QED BY <1>2, <2>1, <2>9, <2>10, <2>11, <2>12, LiveStep DEF Good, SameWork
<1>8. CASE run' = [run EXCEPT ![a].pc = "err", ![a].records = project]
  <2> DEFINE p == [r EXCEPT !.pc = "err", !.records = project]
  <2> HIDE DEF project
  <2>1. run' = [run EXCEPT ![a] = p]
    BY <1>8
  <2>2. p.pc = "err" /\ SameWork(p, r)
    BY <1>2 DEF Run, SameWork
  <2> HIDE DEF p
  <2> QED BY <1>2, <2>1, <2>2, StopStep DEF SameWork
<1> QED BY <1>5, <1>6, <1>7, <1>8

(* A call fails, and its stage is recorded as failed. *)
LEMMA CallFailsFits ==
  ASSUME Inv, AllFit, NEW a \in Attempts, CallFails(a)
  PROVE  AllFit'
<1>1. a \in Live
  BY DEF CallFails, At, Live, Ended
<1>2. \E stage : FailsAt(a, stage)
  BY DEF CallFails
<1> QED BY <1>1, <1>2, FailsFit

(* The run ends with an error and no record of it. *)
LEMMA UnrecordedFits ==
  ASSUME Inv, AllFit, NEW a \in Attempts, EndsUnrecorded(a)
  PROVE  AllFit'
BY GivesUpFits DEF EndsUnrecorded

(* The process dies. *)
LEMMA DiesFits ==
  ASSUME Inv, AllFit, NEW a \in Attempts, Dies(a)
  PROVE  AllFit'
<1> DEFINE q == [run[a] EXCEPT !.pc = "dead"]
<1>1. a \in Live /\ run' = [run EXCEPT ![a] = q] /\ run[a] \in Run
  BY DEF Dies, Inv, RunInv
<1>2. q.pc = "dead" /\ SameWork(q, run[a])
  BY <1>1 DEF Run, SameWork
<1> HIDE DEF q
<1> QED BY <1>1, <1>2, StopStep DEF SameWork

(* What an attempt that had the repository to itself has not had checked is not
   complete, and nobody commits it. *)
LEMMA CommittedFits ==
  ASSUME Inv, AllFit, Committed
  PROVE  AllFit'
<1>1. run' = run /\ head' = head /\ file' = file /\ Complete(file[head])
  BY DEF Committed
<1>2. Live' = Live
  BY <1>1 DEF Live
<1>3. ASSUME NEW a \in Attempts
      PROVE  Good(run'[a]) /\ AloneFits(a)' /\ NumberFits(a)'
  BY <1>1, <1>2 DEF AllFit, AloneFits, NumberFits
<1>4. ASSUME NEW a \in Attempts
      PROVE  DiffFits(a, run'[a], dirty')
  <2> DEFINE r == run[a]
  <2>1. SUFFICES ASSUME r.pc \notin {"unused", "err", "dead"}, r.alone, r.wrote, Sandboxed(r.task)
                 PROVE  TakesBranch(r.task) /\ Prepared(r) /\ r.checked /\ a \in r.diff
    BY <1>1 DEF DiffFits
  <2>2. TakesBranch(r.task) /\ Prepared(r) /\ (r.checked => a \in r.diff)
    BY <2>1 DEF AllFit, DiffFits
  <2>3. ASSUME ~r.checked
        PROVE  FALSE
    <3>1. r.pc # "ok"
      BY <2>3 DEF AllFit, Good, PlaceFits
    <3>2. r.pc \notin {"unused", "start"} \cup Ended
      BY <2>1, <2>2, <3>1 DEF Prepared, Ended
    <3>3. /\ r.records \in Seq(Record) /\ r.records # <<>>
          /\ \A k \in DOMAIN r.records : r.records[k].stage # "complete"
          /\ file[head] = r.records
      BY <2>1, <2>2, <3>2, Going DEF AloneFits, RecordsFit, Run
    <3>4. Last(r.records) \in Record /\ Last(r.records).stage # "complete"
      <4>1. Len(r.records) \in DOMAIN r.records /\ r.records[Len(r.records)] \in Record
        BY <3>3, EmptySeq, LenProperties, ElementOfSeq
      <4> QED BY <3>3, <4>1 DEF Last
    <3> QED BY <1>1, <3>3, <3>4 DEF Complete
  <2> QED BY <2>2, <2>3
<1> QED BY <1>3, <1>4 DEF AllFit

(* The used attempts of a task are those launched before. *)
LEMMA LaunchedBefore ==
  ASSUME Inv, AllFit, NEW a \in Attempts, NEW t \in Tasks, Launch(a, t)
  PROVE  /\ \A b \in Attempts : run[b].pc # "unused" <=> b < a
         /\ {b \in Attempts : ~At(b, "unused") /\ run[b].task = t}
              = {b \in 1 .. a - 1 : run[b].task = t}
<1>1. a \in Nat /\ Attempts \subseteq Nat /\ 1 .. a - 1 \subseteq Attempts
  BY OrderAssumption DEF Attempts
<1>2. run[a].pc = "unused" /\ \A b \in Attempts : b < a => run[b].pc # "unused"
  BY DEF Launch, At
<1>3. ASSUME NEW b \in Attempts, run[b].pc # "unused"
      PROVE  b < a
  <2>1. \A x \in Attempts : x < b => run[x].pc # "unused"
    BY <1>3 DEF AllFit, NumberFits
  <2>2. ~(a < b) /\ a # b
    BY <1>2, <1>3, <2>1
  <2> QED BY <1>1, <2>2
<1>4. \A b \in Attempts : b \in 1 .. a - 1 <=> b < a
  BY <1>1 DEF Attempts
<1> QED BY <1>1, <1>2, <1>3, <1>4 DEF At

(* One more attempt of a task. *)
LEMMA OneMore ==
  ASSUME NEW a \in Attempts, NEW S \in SUBSET (1 .. a - 1)
  PROVE  Cardinality(S \cup {a}) = Cardinality(S) + 1
<1>1. a \in Nat
  BY OrderAssumption DEF Attempts
<1>2. IsFiniteSet(1 .. a - 1)
  BY <1>1, FS_Interval
<1>3. IsFiniteSet(S)
  BY <1>2, FS_Subset
<1>4. a \notin 1 .. a - 1
  BY <1>1
<1> QED BY <1>3, <1>4, FS_AddElement

(* A launch: the new attempt is alone or no one is. *)
LEMMA LaunchFits ==
  ASSUME Inv, AllFit, NEW a \in Attempts, NEW t \in Tasks, Launch(a, t)
  PROVE  AllFit'
<1> DEFINE S == {b \in 1 .. a - 1 : run[b].task = t}
           n == Cardinality({b \in Attempts : ~At(b, "unused") /\ run[b].task = t}) + 1
           alone == Live = {}
           q == [Unused EXCEPT !.task = t, !.n = n, !.pc = "start", !.alone = alone]
<1>1. run' = [[b \in Attempts |-> IF b \in Live THEN [run[b] EXCEPT !.alone = FALSE] ELSE run[b]]
                EXCEPT ![a] = q]
  BY DEF Launch
<1>2. /\ \A b \in Attempts : run[b].pc # "unused" <=> b < a
      /\ n = Cardinality(S) + 1
  BY LaunchedBefore
<1>3. a \notin Live /\ head' = head /\ file' = file /\ dirty' = dirty
  BY DEF Launch, At, Live
<1>4. alone \in BOOLEAN /\ (alone <=> Live = {})
  OBVIOUS
<1> HIDE DEF n, alone
<1>5. /\ q.pc = "start" /\ q.idx = 1 /\ q.task = t /\ q.n = n /\ q.alone = alone
      /\ q.wf = "Created" /\ ~q.checked /\ ~q.reviewed /\ q.records = <<>> /\ ~q.wrote
  BY DEF Unused
<1> HIDE DEF q
<1>6. run'[a] = q
  BY <1>1
<1>7. ASSUME NEW b \in Attempts, b # a
      PROVE  /\ Good(run'[b]) /\ DiffFits(b, run'[b], dirty')
             /\ run'[b].pc = run[b].pc /\ run'[b].task = run[b].task /\ run'[b].n = run[b].n
             /\ run[b].pc \notin Ended \cup {"unused"} => ~run'[b].alone
  <2>1. Good(run[b]) /\ DiffFits(b, run[b], dirty)
    BY DEF AllFit
  <2>2. CASE b \in Live
    <3> DEFINE p == [run[b] EXCEPT !.alone = FALSE]
    <3>1. run'[b] = p
      BY <1>1, <1>7, <2>2
    <3>2. run[b] \in Run
      BY DEF Inv, RunInv
    <3>3. /\ p.pc = run[b].pc /\ p.task = run[b].task /\ p.n = run[b].n /\ p.idx = run[b].idx
          /\ p.wf = run[b].wf /\ p.checked = run[b].checked /\ p.reviewed = run[b].reviewed
          /\ p.records = run[b].records /\ ~p.alone
      BY <3>2 DEF Run
    <3> HIDE DEF p
    <3>4. StagesDone(p) = StagesDone(run[b])
      BY <3>3 DEF StagesDone
    <3>5. PlaceFits(p)
      BY <2>1, <3>3 DEF Good, PlaceFits
    <3>6. WorkflowFits(p) /\ RecordsFit(p)
      BY <2>1, <3>3, <3>4 DEF Good, WorkflowFits, RecordsFit
    <3>7. DiffFits(b, p, dirty')
      BY <3>3 DEF DiffFits
    <3> QED BY <3>1, <3>3, <3>5, <3>6, <3>7 DEF Good
  <2>3. CASE b \notin Live
    <3>1. run'[b] = run[b]
      BY <1>1, <1>7, <2>3
    <3> QED BY <1>3, <2>1, <2>3, <3>1 DEF Live
  <2> QED BY <2>2, <2>3
<1>8. Good(run'[a]) /\ DiffFits(a, run'[a], dirty')
  BY <1>5, <1>6 DEF Good, PlaceFits, RecordsFit, WorkflowFits, DiffFits, Ended
<1>9. Live' = Live \cup {a}
  BY <1>5, <1>6, <1>7 DEF Live, Ended
<1>10. ASSUME NEW b \in Attempts
       PROVE  AloneFits(b)'
  <2>1. CASE b = a
    BY <1>4, <1>5, <1>6, <1>9, <2>1 DEF AloneFits, Prepared
  <2>2. CASE b # a
    BY <1>7, <1>9, <2>2 DEF AloneFits, Live
  <2> QED BY <2>1, <2>2
<1>11. ASSUME NEW b \in Attempts
       PROVE  NumberFits(b)'
  <2>1. a \in Nat /\ b \in Nat /\ 1 .. a \subseteq Attempts /\ 1 .. b \subseteq Attempts
    BY OrderAssumption DEF Attempts
  <2>2. CASE b = a
    <3>1. {x \in 1 .. a : run'[x].task = t} = S \cup {a}
      <4>1. \A x \in 1 .. a : x \in Attempts /\ (x = a \/ (x # a /\ x \in 1 .. a - 1))
        BY <2>1
      <4>2. \A x \in 1 .. a - 1 : x \in 1 .. a /\ x # a
        BY <2>1
      <4>3. a \in 1 .. a /\ run'[a].task = t
        BY <1>5, <1>6, <2>1 DEF Attempts
      <4>4. \A x \in 1 .. a - 1 : run'[x].task = run[x].task
        BY <1>7, <4>1, <4>2
      <4> QED BY <4>1, <4>2, <4>3, <4>4
    <3>2. Cardinality(S \cup {a}) = n
      <4>1. S \in SUBSET (1 .. a - 1)
        OBVIOUS
      <4> HIDE DEF S
      <4> QED BY <1>2, <4>1, OneMore
    <3>3. \A x \in Attempts : x < a => run'[x].pc # "unused"
      BY <1>2, <1>7, <2>1
    <3> QED BY <1>5, <1>6, <2>2, <3>1, <3>2, <3>3 DEF NumberFits
  <2>3. CASE b # a /\ run[b].pc # "unused"
    <3>1. b < a /\ NumberFits(b)
      BY <1>2, <2>3 DEF AllFit
    <3>2. \A x \in 1 .. b : x # a
      BY <2>1, <3>1
    <3>3. {x \in 1 .. b : run'[x].task = run'[b].task} = {x \in 1 .. b : run[x].task = run[b].task}
      <4>1. run'[b].task = run[b].task /\ \A x \in 1 .. b : run'[x].task = run[x].task
        BY <1>7, <2>1, <2>3, <3>2
      <4> QED BY <4>1
    <3>4. \A x \in Attempts : x < b => run'[x].pc # "unused"
      <4> SUFFICES ASSUME NEW x \in Attempts, x < b PROVE run'[x].pc # "unused"
        OBVIOUS
      <4>1. x \in Nat /\ x < a /\ x # a
        BY <2>1, <3>1 DEF Attempts
      <4> QED BY <1>2, <1>7, <4>1
    <3> QED BY <1>7, <2>3, <3>1, <3>3, <3>4 DEF NumberFits
  <2>4. CASE b # a /\ run[b].pc = "unused"
    BY <1>7, <2>4 DEF NumberFits
  <2> QED BY <2>2, <2>3, <2>4
<1> QED BY <1>7, <1>8, <1>10, <1>11 DEF AllFit

-----------------------------------------------------------------------------
(* The invariant holds. *)

(* Nobody has been launched at first. *)
LEMMA InitFits == Init => AllFit
<1> SUFFICES ASSUME Init, NEW a \in Attempts
             PROVE  Good(run[a]) /\ AloneFits(a) /\ DiffFits(a, run[a], dirty) /\ NumberFits(a)
  BY DEF AllFit
<1>1. /\ run[a].pc = "unused" /\ run[a].wf = "Created" /\ ~run[a].checked /\ ~run[a].reviewed
      /\ a \notin Live
  BY DEF Init, Unused, Live
<1> QED BY <1>1 DEF Good, PlaceFits, RecordsFit, WorkflowFits, AloneFits, DiffFits,
                NumberFits, Ended

(* Every step keeps it. *)
LEMMA FitStep == Inv /\ AllFit /\ [Next]_vars => AllFit'
<1> SUFFICES ASSUME Inv, AllFit, [Next]_vars PROVE AllFit'
  OBVIOUS
<1>1. CASE Next
  <2>1. ASSUME NEW a \in Attempts, Proceeds(a)
        PROVE  AllFit'
    BY <2>1, StartFits, CleanFits, PrepareFits, PersistFits, SubmitStageFits, NoHelperFits, HelperFits,
       AnsweredFits, CheckFits, FinishFits DEF Proceeds
  <2> QED BY <1>1, <2>1, CommittedFits, LaunchFits, WritesFits, ReturnsFits, CallFailsFits,
         UnrecordedFits, DiesFits DEF Next
<1>2. CASE UNCHANGED vars
  <2>1. run' = run /\ head' = head /\ dirty' = dirty /\ file' = file /\ Live' = Live
    BY <1>2 DEF vars, Live
  <2> QED BY <2>1 DEF AllFit, AloneFits, NumberFits
<1> QED BY <1>1, <1>2

(* At all times. *)
LEMMA Fitting == Spec => [](Inv /\ AllFit)
BY InitInv, InvStep, InitFits, FitStep, PTL DEF Spec

(* What an attempt has recorded, the state of its workflow, its diff and its
   number fit its place in the pipeline, for any tasks, registry and number of
   overlapping or repeated attempts (submit.rs 45-346, workflow.rs 15-32). *)
THEOREM AttemptsFit == Spec => []AttemptInv
<1>1. AllFit => AttemptInv
  BY AllFitIs
<1> QED BY <1>1, Fitting, PTL

(* A completed run did every stage of its pipeline once and in order, the check
   among them, and the diff that is kept for the approval has what a sandboxed
   agent changed, if no other run overlapped (submit.rs 140-300, 494-559,
   codex.rs 342-348). *)
THEOREM CompletionIsEarned == Spec => []CompleteMeansChecked
<1>1. ASSUME Inv, AllFit
      PROVE  CompleteMeansChecked
  <2> SUFFICES ASSUME NEW a \in Attempts, run[a].pc = "ok"
               PROVE  LET r == run[a]
                      IN /\ TellsOf(r.records, r.task, Len(StagesOf[r.task]))
                         /\ r.alone /\ r.wrote /\ Sandboxed(r.task) => a \in r.diff
    BY DEF CompleteMeansChecked
  <2> DEFINE r == run[a]
  <2>1. r.idx = Len(Roles[r.task]) /\ r.checked /\ TellsOf(r.records, r.task, StagesDone(r))
    BY <1>1 DEF AllFit, Good, PlaceFits, RecordsFit
  <2>2. StagesDone(r) = Len(StagesOf[r.task])
    <3>1. r.task \in Tasks /\ r.idx \in 1 .. 4
      BY <1>1, Begun
    <3>2. Selection[r.task].ok
      <4> SUFFICES ASSUME ~Selection[r.task].ok PROVE FALSE
        OBVIOUS
      <4>1. Len(Roles[r.task]) = 0
        BY <3>1, SelectionOf
      <4>2. r.idx = Len(Roles[r.task])
        BY <2>1
      <4> QED BY <3>1, <4>1, <4>2
    <3>3. Len(StagesOf[r.task]) = Len(Roles[r.task]) + 1
      BY <3>1, <3>2, StagesShape
    <3> QED BY <2>1, <3>3 DEF StagesDone
  <2>3. r.alone /\ r.wrote /\ Sandboxed(r.task) => a \in r.diff
    BY <1>1, <2>1 DEF AllFit, DiffFits
  <2> QED BY <2>1, <2>2, <2>3
<1> QED BY <1>1, Fitting, PTL

-----------------------------------------------------------------------------
(* Records keep up with the work, and a read-only run that is alone with the
   changes it leaves. *)

\* RecordKeepsUp, for one attempt with the record r, and what it needs.
KeptUp(a, r, started) ==
  /\ r.pc = "unused" => \A w \in started : w[3] # a
  /\ r.pc = "agent" => <<r.task, r.idx, a>> \in started
  /\ r.pc # "unused" =>
       \A i \in DOMAIN Roles[r.task] :
         /\ <<r.task, i, a>> \in started =>
              \A j \in StagesBefore(r.task, i) : TellsOk(r.records, StagesOf[r.task][j])
         /\ TellsOk(r.records, Roles[r.task][i]) => <<r.task, i, a>> \in started

\* A read-only run that was never beside another has found no change, and its
\* snapshot has none: what is changed when it is compared is its own.
Untouched(a, r, uncommitted) ==
  r.alone /\ ~TakesBranch(r.task) /\ NoHelperFailed(r) =>
    /\ r.pc \in {"branch", "prepared", "stage", "helper"} => uncommitted = {}
    /\ r.pc = "agent" => r.before.dirty = {}
    /\ r.pc \in {"answered", "last", "ok"} => a \notin uncommitted

Kept == \A a \in Attempts : KeptUp(a, run[a], works) /\ Untouched(a, run[a], dirty)

\* The records of attempt a are continued, with no success of a role other than
\* the one its agent has.
Continues(a, records) ==
  /\ \A k \in DOMAIN run[a].records : k \in DOMAIN records /\ records[k] = run[a].records[k]
  /\ \A k \in DOMAIN records \ DOMAIN run[a].records :
       records[k].status = "ok" /\ records[k].stage \in RoleName =>
         run[a].pc = "agent" /\ records[k].stage = Role(a)

(* One more record of something that is no role's success, or the agent's. *)
LEMMA ContinuesMore ==
  ASSUME NEW a \in Attempts, NEW records \in Seq(Record), Continues(a, records), NEW x \in Record,
         x.status = "ok" /\ x.stage \in RoleName => run[a].pc = "agent" /\ x.stage = Role(a)
  PROVE  Continues(a, Append(records, x))
<1> DEFINE new == Append(records, x)
<1>1. /\ Len(records) \in Nat /\ DOMAIN records = 1 .. Len(records)
      /\ DOMAIN new = 1 .. Len(records) + 1
      /\ \A k \in 1 .. Len(records) : new[k] = records[k]
      /\ new[Len(records) + 1] = x
  BY AppendProperties, LenProperties
<1>2. DOMAIN records \subseteq DOMAIN new
  BY <1>1
<1>3. \A k \in DOMAIN new : k \in DOMAIN records \/ new[k] = x
  BY <1>1
<1> HIDE DEF new
<1>4. \A k \in DOMAIN run[a].records : k \in DOMAIN new /\ new[k] = run[a].records[k]
  BY <1>1, <1>2 DEF Continues
<1>5. ASSUME NEW k \in DOMAIN new \ DOMAIN run[a].records,
             new[k].status = "ok", new[k].stage \in RoleName
      PROVE  run[a].pc = "agent" /\ new[k].stage = Role(a)
  <2>1. CASE k \in DOMAIN records
    <3>1. new[k] = records[k]
      BY <1>1, <2>1
    <3> QED BY <1>5, <2>1, <3>1 DEF Continues
  <2>2. CASE new[k] = x
    BY <1>5, <2>2
  <2> QED BY <1>3, <2>1, <2>2
<1> QED BY <1>4, <1>5 DEF Continues, new

(* The records of a live attempt, with one more. *)
LEMMA ContinuesOne ==
  ASSUME Inv, NEW a \in Attempts, NEW stage \in StageName, NEW status \in Status,
         status = "ok" /\ stage \in RoleName => run[a].pc = "agent" /\ stage = Role(a)
  PROVE  Recorded(a, stage, status) \in Seq(Record) /\ Continues(a, Recorded(a, stage, status))
<1> DEFINE x == [stage |-> stage, status |-> status]
<1>1. run[a].records \in Seq(Record) /\ x \in Record
  BY DEF Inv, RunInv, Run, Record
<1>2. Continues(a, run[a].records)
  BY DEF Continues
<1>3. x.status = status /\ x.stage = stage
  OBVIOUS
<1> HIDE DEF x
<1>4. Continues(a, Append(run[a].records, x)) /\ Append(run[a].records, x) \in Seq(Record)
  BY <1>1, <1>2, <1>3, ContinuesMore, AppendProperties
<1> QED BY <1>4 DEF Recorded, x

(* What an agent that starts now has before it is recorded. *)
LEMMA StartedInTime ==
  ASSUME Inv, AllFit, NEW a \in Attempts, run[a].pc = "helper"
  PROVE  \A j \in StagesBefore(run[a].task, run[a].idx) :
           TellsOk(run[a].records, StagesOf[run[a].task][j])
<1> DEFINE r == run[a]
           c == CheckPlace[r.task]
<1>1. /\ PlaceFits(r) /\ RecordsFit(r) /\ r.idx \in 1 .. 4 /\ r.checked \in BOOLEAN /\ c \in Nat
  <2>1. c \in 2 .. Len(Roles[r.task]) + 1 /\ Len(Roles[r.task]) \in 1 .. 4
    BY Going DEF Ended
  <2>2. c \in Nat
    BY <2>1
  <2> QED BY <2>2, Going, Begun DEF Ended
<1>2. r.checked <=> r.idx >= c
  BY <1>1 DEF PlaceFits
<1>3. StagesDone(r) = IF r.idx < c THEN r.idx - 1 ELSE r.idx
  <2>1. StagesDone(r) = r.idx - 1 + (IF r.checked THEN 1 ELSE 0)
    BY DEF StagesDone
  <2> HIDE DEF c
  <2> QED BY <1>1, <1>2, <2>1
<1>4. StagesBefore(r.task, r.idx) = 1 .. StagesDone(r)
  BY <1>3 DEF StagesBefore
<1>5. TellsOf(r.records, r.task, StagesDone(r))
  BY <1>1 DEF RecordsFit, Ended
<1> QED BY <1>4, <1>5 DEF TellsOf, TellsOk

(* A step of a live attempt a to the record q. *)
LEMMA KeepsOn ==
  ASSUME Inv, AllFit, Kept, NEW a \in Live, NEW q, run' = [run EXCEPT ![a] = q],
         q.task = run[a].task, q.alone = run[a].alone, q.pc # "unused",
         Continues(a, q.records),
         \/ works' = works
         \/ run[a].pc = "helper" /\ works' = works \cup {<<run[a].task, run[a].idx, a>>},
         q.pc = "agent" => q.idx = run[a].idx /\ <<run[a].task, run[a].idx, a>> \in works',
         dirty' \subseteq dirty \cup {a}, Untouched(a, q, dirty')
  PROVE  Kept'
<1> DEFINE r == run[a]
           t == r.task
<1>1. /\ a \in Attempts /\ r.pc \notin Ended \cup {"unused"} /\ t \in Tasks
      /\ run'[a] = q /\ \A b \in Attempts \ {a} : run'[b] = run[b]
  BY Begun DEF Live, Inv, RunInv
<1>2. \A s : TellsOk(r.records, s) => TellsOk(q.records, s)
  BY DEF TellsOk, Continues
<1>3. KeptUp(a, r, works)
  BY <1>1 DEF Kept
<1>4. ASSUME NEW i \in DOMAIN Roles[t], <<t, i, a>> \in works', NEW j \in StagesBefore(t, i)
      PROVE  TellsOk(q.records, StagesOf[t][j])
  <2>1. CASE <<t, i, a>> \in works
    BY <1>1, <1>2, <1>3, <1>4, <2>1 DEF KeptUp
  <2>2. CASE <<t, i, a>> \notin works
    <3>1. r.pc = "helper" /\ i = r.idx
      BY <1>4, <2>2
    <3> QED BY <1>1, <1>2, <1>4, <3>1, StartedInTime
  <2> QED BY <2>1, <2>2
<1>5. ASSUME NEW i \in DOMAIN Roles[t], TellsOk(q.records, Roles[t][i])
      PROVE  <<t, i, a>> \in works'
  <2>1. Selection[t].ok /\ Roles[t] \in Seq(RoleName) /\ DOMAIN Roles[t] = 1 .. Len(Roles[t])
    <3>1. Selection[t].ok
      <4> SUFFICES ASSUME ~Selection[t].ok PROVE FALSE
        OBVIOUS
      <4>1. Roles[t] = <<>>
        BY <1>1, SelectionOf
      <4> QED BY <4>1
    <3> QED BY <1>1, <3>1, RolesShape
  <2>2. Roles[t][i] \in RoleName
    BY <2>1
  <2>3. CASE TellsOk(r.records, Roles[t][i])
    BY <1>1, <1>3, <2>3 DEF KeptUp
  <2>4. CASE ~TellsOk(r.records, Roles[t][i])
    <3>1. r.pc = "agent" /\ Roles[t][i] = Role(a)
      BY <1>5, <2>2, <2>4 DEF TellsOk, Continues
    <3>2. r.idx \in 1 .. Len(Roles[t])
      BY <1>1, <3>1, Begun DEF Ended
    <3>3. i = r.idx
      BY <1>1, <2>1, <3>1, <3>2, RolesOrder DEF Role
    <3> QED BY <1>3, <3>1, <3>3 DEF KeptUp
  <2> QED BY <2>3, <2>4
<1>6. KeptUp(a, q, works')
  BY <1>4, <1>5 DEF KeptUp
<1>7. ASSUME NEW b \in Attempts, b # a
      PROVE  KeptUp(b, run[b], works') /\ Untouched(b, run[b], dirty')
  <2>1. KeptUp(b, run[b], works) /\ Untouched(b, run[b], dirty)
    BY DEF Kept
  <2>2. KeptUp(b, run[b], works')
    BY <1>7, <2>1 DEF KeptUp
  <2>3. run[b].alone => b \notin Live
    BY <1>7 DEF AllFit, AloneFits
  <2>4. b \notin Live => run[b].pc \in {"unused", "ok", "err", "dead"}
    BY DEF Live, Ended
  <2>5. Untouched(b, run[b], dirty')
    BY <1>7, <2>1, <2>3, <2>4 DEF Untouched
  <2> QED BY <2>2, <2>5
<1> QED BY <1>1, <1>6, <1>7 DEF Kept

(* An attempt that ends without success. *)
LEMMA StopKeeps ==
  ASSUME Inv, AllFit, Kept, NEW a \in Live, NEW q, run' = [run EXCEPT ![a] = q],
         q.task = run[a].task, q.alone = run[a].alone, q.pc \in {"err", "dead"},
         Continues(a, q.records), works' = works, dirty' \subseteq dirty \cup {a}
  PROVE  Kept'
<1>1. Untouched(a, q, dirty')
  BY DEF Untouched
<1> QED BY <1>1, KeepsOn

(* A failure that is recorded. *)
LEMMA FailsKeep ==
  ASSUME Inv, AllFit, Kept, NEW a \in Live, NEW stage \in StageName, FailsAt(a, stage),
         works' = works, dirty' \subseteq dirty \cup {a}
  PROVE  Kept'
<1> DEFINE records == Recorded(a, stage, "failed")
           q == [run[a] EXCEPT !.pc = "err", !.records = records]
<1>1. a \in Attempts /\ run[a] \in Run /\ run' = [run EXCEPT ![a] = q]
  BY DEF Inv, RunInv, Live, FailsAt, Records
<1>2. Continues(a, records)
  BY <1>1, ContinuesOne DEF Status
<1> HIDE DEF records
<1>3. q.pc = "err" /\ q.task = run[a].task /\ q.alone = run[a].alone /\ q.records = records
  BY <1>1 DEF Run
<1> HIDE DEF q
<1> QED BY <1>1, <1>2, <1>3, StopKeeps

(* An end that is not recorded. *)
LEMMA GivesUpKeeps ==
  ASSUME Inv, AllFit, Kept, NEW a \in Live, NEW pc \in {"err", "dead"},
         run' = [run EXCEPT ![a].pc = pc], works' = works, dirty' \subseteq dirty \cup {a}
  PROVE  Kept'
<1> DEFINE q == [run[a] EXCEPT !.pc = pc]
<1>1. run[a] \in Run /\ run' = [run EXCEPT ![a] = q]
  BY DEF Inv, RunInv, Live
<1>2. q.pc = pc /\ q.task = run[a].task /\ q.alone = run[a].alone /\ q.records = run[a].records
  BY <1>1 DEF Run
<1> HIDE DEF q
<1>3. Continues(a, q.records)
  BY <1>2 DEF Continues
<1> QED BY <1>1, <1>2, <1>3, StopKeeps

(* A step without a record, to a place where as much is asked. *)
LEMMA GoesKeep ==
  ASSUME Inv, AllFit, Kept, NEW a \in Live, NEW pc \in Pc \ {"unused", "agent"}, GoesTo(a, pc),
         works' = works, dirty' = dirty,
         \/ pc = "clean"
         \/ {pc, run[a].pc} \subseteq {"branch", "prepared", "stage", "helper"}
  PROVE  Kept'
<1> DEFINE q == [run[a] EXCEPT !.pc = pc]
<1>1. run[a] \in Run /\ a \in Attempts /\ run' = [run EXCEPT ![a] = q]
  BY DEF Inv, RunInv, Live, GoesTo
<1>2. q.pc = pc /\ q.task = run[a].task /\ q.alone = run[a].alone /\ q.records = run[a].records
  BY <1>1 DEF Run
<1> HIDE DEF q
<1>3. Continues(a, q.records) /\ (NoHelperFailed(q) <=> NoHelperFailed(run[a]))
  BY <1>2 DEF Continues, NoHelperFailed
<1>4. Untouched(a, run[a], dirty)
  BY <1>1 DEF Kept
<1>5. Untouched(a, q, dirty')
  BY <1>2, <1>3, <1>4 DEF Untouched
<1> QED BY <1>1, <1>2, <1>3, <1>5, KeepsOn

(* The calls before a stage, and the row of its task. *)
LEMMA StartKeeps ==
  ASSUME Inv, AllFit, Kept, NEW a \in Attempts, Start(a)
  PROVE  Kept'
<1>1. a \in Live /\ works' = works /\ dirty' = dirty
  BY DEF Start, At, Live, Ended
<1>2. CASE GoesTo(a, "err")
  BY <1>1, <1>2, GivesUpKeeps DEF GoesTo
<1>3. CASE FailsAt(a, "backend-selection")
  BY <1>1, <1>3, FailsKeep DEF StageName
<1>4. CASE GoesTo(a, "clean")
  BY <1>1, <1>4, GoesKeep DEF Pc
<1> QED BY <1>2, <1>3, <1>4 DEF Start

(* The worktree is clean. *)
LEMMA CleanKeeps ==
  ASSUME Inv, AllFit, Kept, NEW a \in Attempts, ensure_clean_worktree(a)
  PROVE  Kept'
<1> DEFINE records == Recorded(a, "backend-selection", "ok")
           q == [run[a] EXCEPT !.pc = "branch", !.records = records]
<1>1. a \in Live /\ run[a] \in Run /\ works' = works /\ dirty' = dirty
  BY DEF ensure_clean_worktree, At, Live, Ended, Inv, RunInv
<1>2. CASE FailsAt(a, "prepare")
  BY <1>1, <1>2, FailsKeep DEF StageName
<1>3. CASE dirty = {} /\ Records(a, "backend-selection", "ok", "branch")
  <2>1. run' = [run EXCEPT ![a] = q]
    BY <1>3 DEF Records
  <2>2. Continues(a, records)
    BY ContinuesOne DEF StageName, Status, RoleName
  <2> HIDE DEF records
  <2>3. q.pc = "branch" /\ q.task = run[a].task /\ q.alone = run[a].alone /\ q.records = records
    BY <1>1 DEF Run
  <2> HIDE DEF q
  <2>4. Untouched(a, q, dirty')
    BY <1>1, <1>3, <2>3 DEF Untouched
  <2> QED BY <1>1, <2>1, <2>2, <2>3, <2>4, KeepsOn
<1> QED BY <1>2, <1>3 DEF ensure_clean_worktree

(* The branch. *)
LEMMA PrepareKeeps ==
  ASSUME Inv, AllFit, Kept, NEW a \in Attempts, prepare(a)
  PROVE  Kept'
<1>1. a \in Live /\ run[a].pc = "branch" /\ works' = works /\ dirty' = dirty
  BY DEF prepare, At, Live, Ended
<1>2. CASE FailsAt(a, "prepare")
  BY <1>1, <1>2, FailsKeep DEF StageName
<1>3. CASE GoesTo(a, "prepared")
  BY <1>1, <1>3, GoesKeep DEF Pc
<1> QED BY <1>2, <1>3 DEF prepare

(* The record of the preparation. *)
LEMMA PersistKeeps ==
  ASSUME Inv, AllFit, Kept, NEW a \in Attempts, NEW saved \in BOOLEAN,
         persist_upstream_provenance(a, saved)
  PROVE  Kept'
<1> DEFINE r == run[a]
           y == [stage |-> "upstream-provenance", status |-> "ok"]
           first == Recorded(a, "prepare", "ok")
           records == IF Order[r.task].upstream /\ saved THEN Append(first, y) ELSE first
           q == [r EXCEPT !.pc = IF saved THEN "stage" ELSE "err", !.records = records]
<1>1. /\ a \in Live /\ r \in Run /\ r.pc = "prepared" /\ works' = works /\ dirty' = dirty
      /\ run' = [run EXCEPT ![a] = q]
  BY DEF persist_upstream_provenance, At, Live, Ended, Inv, RunInv
<1>2. first \in Seq(Record) /\ Continues(a, first)
  BY ContinuesOne DEF StageName, Status, RoleName
<1>3. y \in Record /\ y.stage \notin RoleName
  BY DEF Record, StageName, Status, RoleName
<1> HIDE DEF first, y
<1>4. Continues(a, records)
  BY <1>2, <1>3, ContinuesMore
<1> HIDE DEF records
<1>5. /\ q.pc = (IF saved THEN "stage" ELSE "err")
      /\ q.task = r.task /\ q.alone = r.alone /\ q.records = records
  BY <1>1 DEF Run
<1> HIDE DEF q
<1>6. NoHelperFailed(q) => NoHelperFailed(r)
  BY <1>4, <1>5 DEF Continues, NoHelperFailed
<1>7. Untouched(a, q, dirty')
  BY <1>1, <1>5, <1>6 DEF Untouched, Kept
<1> QED BY <1>1, <1>4, <1>5, <1>7, KeepsOn

(* A stage gets its row. *)
LEMMA SubmitStageKeeps ==
  ASSUME Inv, AllFit, Kept, NEW a \in Attempts, submit_stage(a)
  PROVE  Kept'
<1>1. a \in Live /\ run[a].pc = "stage" /\ works' = works /\ dirty' = dirty
  BY DEF submit_stage, At, Live, Ended
<1>2. CASE FailsAt(a, Role(a))
  BY <1>1, <1>2, FailsKeep, Begun DEF Ended
<1>3. CASE GoesTo(a, "helper")
  BY <1>1, <1>3, GoesKeep DEF Pc
<1> QED BY <1>2, <1>3 DEF submit_stage

(* An agent is started. *)
LEMMA AgentStartsKeeps ==
  ASSUME Inv, AllFit, Kept, NEW a \in Attempts, run[a].pc = "helper",
         NEW records, Continues(a, records), NEW before,
         run' = [run EXCEPT ![a].pc = "agent", ![a].records = records, ![a].before = before],
         works' = works \cup {<<run[a].task, run[a].idx, a>>},
         dirty' \subseteq dirty \cup {a}, ~TakesBranch(run[a].task) => before.dirty = dirty',
         \/ dirty' = dirty
         \/ \E k \in DOMAIN records : records[k] = [stage |-> "helper", status |-> "failed"]
  PROVE  Kept'
<1> DEFINE r == run[a]
           q == [r EXCEPT !.pc = "agent", !.records = records, !.before = before]
<1>1. a \in Live /\ r \in Run /\ run' = [run EXCEPT ![a] = q]
  BY DEF Live, Ended, Inv, RunInv
<1>2. /\ q.pc = "agent" /\ q.task = r.task /\ q.alone = r.alone /\ q.records = records
      /\ q.idx = r.idx /\ q.before = before
  BY <1>1 DEF Run
<1> HIDE DEF q
<1>3. NoHelperFailed(q) => NoHelperFailed(r) /\ dirty' = dirty
  BY <1>2 DEF Continues, NoHelperFailed
<1>4. Untouched(a, q, dirty')
  BY <1>2, <1>3 DEF Untouched, Kept
<1> QED BY <1>1, <1>2, <1>4, KeepsOn

(* No helper is configured for the role. *)
LEMMA NoHelperKeeps ==
  ASSUME Inv, AllFit, Kept, NEW a \in Attempts, NoHelper(a)
  PROVE  Kept'
<1> DEFINE before == Snapshots(a, dirty)
           records == run[a].records
<1>1. run[a].pc = "helper" /\ run[a] \in Run /\ dirty' = dirty
  BY DEF NoHelper, At, Inv, RunInv
<1>2. run' = [run EXCEPT ![a].pc = "agent", ![a].records = records, ![a].before = before]
  <2>1. run' = [run EXCEPT ![a].pc = "agent", ![a].before = before]
    BY DEF NoHelper, AgentStarts
  <2>2. [run[a] EXCEPT !.pc = "agent", !.before = before]
          = [run[a] EXCEPT !.pc = "agent", !.records = records, !.before = before]
    BY <1>1 DEF Run
  <2> QED BY <2>1, <2>2
<1>3. works' = works \cup {<<run[a].task, run[a].idx, a>>}
  BY DEF NoHelper, AgentStarts
<1>4. ~TakesBranch(run[a].task) => before.dirty = dirty'
  BY <1>1 DEF Snapshots
<1>5. Continues(a, records)
  BY DEF Continues
<1> HIDE DEF before, records
<1> QED BY <1>1, <1>2, <1>3, <1>4, <1>5, AgentStartsKeeps

(* The helpers: one that wrote has failed. *)
LEMMA HelperKeeps ==
  ASSUME Inv, AllFit, Kept, NEW a \in Attempts, NEW writes \in BOOLEAN, NEW ok \in BOOLEAN,
         Helper(a, writes, ok)
  PROVE  Kept'
<1> DEFINE status == IF ok THEN "ok" ELSE "failed"
           x == [stage |-> "helper", status |-> status]
           records == Recorded(a, "helper", status)
           before == Snapshots(a, dirty')
<1>1. run[a].pc = "helper" /\ a \in Live /\ dirty' \subseteq dirty \cup {a}
  BY DEF Helper, At, Live, Ended
<1>2. Continues(a, records)
  BY ContinuesOne DEF StageName, Status, RoleName
<1>3. CASE ~ok /\ HelperConfig.policy = "fail-fast"
  <2>1. FailsAt(a, "helper") /\ works' = works
    BY <1>3 DEF Helper, FailsAt, Records
  <2> QED BY <1>1, <2>1, FailsKeep DEF StageName
<1>4. CASE ~(~ok /\ HelperConfig.policy = "fail-fast")
  <2>1. /\ run' = [run EXCEPT ![a].pc = "agent", ![a].records = records, ![a].before = before]
        /\ works' = works \cup {<<run[a].task, run[a].idx, a>>}
    BY <1>4 DEF Helper
  <2>2. ~TakesBranch(run[a].task) => before.dirty = dirty'
    BY DEF Snapshots
  <2>3. dirty' = dirty \/ status = "failed"
    BY DEF Helper
  <2>4. \E k \in DOMAIN records : records[k] = x
    <3>1. run[a].records \in Seq(Record)
      BY DEF Inv, RunInv, Run, Helper
    <3>2. x \in Record
      BY DEF Record, StageName, Status
    <3>3. records = Append(run[a].records, x)
      BY DEF Recorded
    <3> HIDE DEF x
    <3> QED BY <3>1, <3>2, <3>3, AppendProperties, LenProperties
  <2>5. status = "failed" => x = [stage |-> "helper", status |-> "failed"]
    OBVIOUS
  <2> HIDE DEF before, status, x, records
  <2> QED BY <1>1, <1>2, <2>1, <2>2, <2>3, <2>4, <2>5, AgentStartsKeeps
<1> QED BY <1>3, <1>4

(* The agent changes files. *)
LEMMA WritesKeep ==
  ASSUME Inv, AllFit, Kept, NEW a \in Attempts, AgentWrites(a)
  PROVE  Kept'
<1> DEFINE r == run[a]
<1>1. r.pc = "agent" /\ a \in Live /\ r \in Run /\ works' = works
  BY DEF AgentWrites, At, Live, Ended, Inv, RunInv
<1>2. KeptUp(a, r, works) /\ Untouched(a, r, dirty) /\ <<r.task, r.idx, a>> \in works
  BY <1>1 DEF Kept, KeptUp
<1>3. ASSUME NEW q, run' = [run EXCEPT ![a] = q], dirty' \subseteq dirty \cup {a},
             q.pc = r.pc, q.task = r.task, q.alone = r.alone, q.records = r.records,
             q.idx = r.idx, q.before = r.before
      PROVE  Kept'
  <2>1. Continues(a, q.records) /\ (NoHelperFailed(q) <=> NoHelperFailed(r))
    BY <1>3 DEF Continues, NoHelperFailed
  <2>2. Untouched(a, q, dirty')
    BY <1>1, <1>2, <1>3, <2>1 DEF Untouched
  <2> QED BY <1>1, <1>2, <1>3, <2>1, <2>2, KeepsOn
<1>4. CASE run' = [run EXCEPT ![a].wrote = TRUE] /\ dirty' = dirty \cup {a}
  <2> DEFINE q == [r EXCEPT !.wrote = TRUE]
  <2>1. /\ run' = [run EXCEPT ![a] = q] /\ q.pc = r.pc /\ q.task = r.task /\ q.alone = r.alone
        /\ q.records = r.records /\ q.idx = r.idx /\ q.before = r.before
    BY <1>1, <1>4 DEF Run
  <2> HIDE DEF q
  <2> QED BY <1>3, <1>4, <2>1
<1>5. CASE run' = [run EXCEPT ![a].copy = TRUE] /\ dirty' = dirty
  <2> DEFINE q == [r EXCEPT !.copy = TRUE]
  <2>1. /\ run' = [run EXCEPT ![a] = q] /\ q.pc = r.pc /\ q.task = r.task /\ q.alone = r.alone
        /\ q.records = r.records /\ q.idx = r.idx /\ q.before = r.before
    BY <1>1, <1>5 DEF Run
  <2> HIDE DEF q
  <2> QED BY <1>3, <1>5, <2>1
<1> QED BY <1>4, <1>5 DEF AgentWrites

(* The agent returns: what is changed since a clean snapshot is seen. *)
LEMMA ReturnsKeep ==
  ASSUME Inv, AllFit, Kept, NEW a \in Attempts, NEW ok \in BOOLEAN, AgentReturns(a, ok)
  PROVE  Kept'
<1> DEFINE r == run[a]
           records == Recorded(a, Role(a), "ok")
           q == [r EXCEPT !.pc = "answered", !.records = records]
<1>1. /\ r.pc = "agent" /\ a \in Live /\ r \in Run /\ Role(a) \in StageName
      /\ works' = works /\ dirty' = dirty
  BY Begun DEF AgentReturns, At, Live, Ended, Inv, RunInv
<1>2. CASE FailsAt(a, Role(a))
  BY <1>1, <1>2, FailsKeep
<1>3. CASE ok /\ Records(a, Role(a), "ok", "answered")
  <2>1. run' = [run EXCEPT ![a] = q]
    BY <1>3 DEF Records
  <2>2. Continues(a, records)
    BY <1>1, ContinuesOne DEF Status
  <2>3. TakesBranch(r.task) \/ FALSE \in MayDiffer(a)
    BY <1>3 DEF AgentReturns
  <2> HIDE DEF records
  <2>4. q.pc = "answered" /\ q.task = r.task /\ q.alone = r.alone /\ q.records = records
    BY <1>1 DEF Run
  <2> HIDE DEF q
  <2>5. NoHelperFailed(q) => NoHelperFailed(r)
    BY <2>2, <2>4 DEF Continues, NoHelperFailed
  <2>6. r.before.dirty = {} /\ ~TakesBranch(r.task) => dirty = {}
    BY <2>3, NothingChanged
  <2>7. Untouched(a, q, dirty')
    BY <1>1, <2>4, <2>5, <2>6 DEF Untouched, Kept
  <2> QED BY <1>1, <2>1, <2>2, <2>4, <2>7, KeepsOn
<1> QED BY <1>2, <1>3 DEF AgentReturns

(* A step with the same records, or the check's, after a stage. *)
LEMMA LaterKeeps ==
  ASSUME Inv, AllFit, Kept, NEW a \in Live, NEW q, run' = [run EXCEPT ![a] = q],
         q.task = run[a].task, q.alone = run[a].alone, Continues(a, q.records),
         q.pc \in {"stage", "check", "last", "ok", "err"},
         run[a].pc \in {"answered", "last"} \/ TakesBranch(run[a].task),
         ~TakesBranch(run[a].task) => q.pc \in {"last", "ok", "err"},
         works' = works, dirty' = dirty
  PROVE  Kept'
<1>1. NoHelperFailed(q) => NoHelperFailed(run[a])
  BY DEF Continues, NoHelperFailed
<1>2. Untouched(a, run[a], dirty)
  BY DEF Kept, Live
<1>3. Untouched(a, q, dirty')
  BY <1>1, <1>2 DEF Untouched
<1> QED BY <1>3, KeepsOn

(* What the answer leads to: a read-only run has one stage, and it is no
   coder's. *)
LEMMA AnsweredKeeps ==
  ASSUME Inv, AllFit, Kept, NEW a \in Attempts, NEW asks \in BOOLEAN, Answered(a, asks)
  PROVE  Kept'
<1> DEFINE r == run[a]
           next == Along(r, AnswerPath(r.wf, Role(a)))
           coded == [next EXCEPT !.pc = "check"]
           failed == [r EXCEPT !.pc = "err"]
<1>1. r.pc = "answered" /\ works' = works /\ dirty' = dirty
  BY DEF Answered, At
<1>2. /\ a \in Live /\ r \in Run /\ r.task \in Tasks /\ Selection[r.task].ok
      /\ Len(Roles[r.task]) \in 1 .. 4 /\ r.idx \in 1 .. Len(Roles[r.task])
  BY <1>1, Going DEF Ended
<1>3. ~TakesBranch(r.task) => Len(Roles[r.task]) = 1 /\ Role(a) # "coder" /\ r.idx = 1
  <2> SUFFICES ASSUME ~TakesBranch(r.task)
               PROVE  Len(Roles[r.task]) = 1 /\ Role(a) # "coder" /\ r.idx = 1
    OBVIOUS
  <2>1. Len(Roles[r.task]) = 1 /\ Roles[r.task][1] # "coder"
    BY <1>2, RolesShape
  <2>2. r.idx = 1
    BY <1>2, <2>1
  <2> QED BY <2>1, <2>2 DEF Role
<1>4. \/ run' = [run EXCEPT ![a] = failed]
      \/ Role(a) = "coder" /\ run' = [run EXCEPT ![a] = coded]
      \/ run' = [run EXCEPT ![a] = NextStage(next)]
  BY DEF Answered, Becomes
<1>5. next \in Run /\ next.task = r.task
  BY <1>2, AlongTyped
<1>6. next.alone = r.alone /\ next.records = r.records /\ next.idx = r.idx
  BY <1>2 DEF Along, Run
<1>7. Continues(a, r.records)
  BY DEF Continues
<1> HIDE DEF next
<1>8. /\ failed.task = r.task /\ failed.alone = r.alone /\ failed.records = r.records
      /\ failed.pc = "err"
      /\ coded.task = r.task /\ coded.alone = r.alone /\ coded.records = r.records
      /\ coded.pc = "check"
  BY <1>2, <1>5, <1>6 DEF Run
<1> HIDE DEF failed, coded
<1>9. CASE run' = [run EXCEPT ![a] = failed]
  BY <1>1, <1>2, <1>7, <1>8, <1>9, LaterKeeps
<1>10. CASE Role(a) = "coder" /\ run' = [run EXCEPT ![a] = coded]
  BY <1>1, <1>2, <1>3, <1>7, <1>8, <1>10, LaterKeeps
<1>11. CASE run' = [run EXCEPT ![a] = NextStage(next)]
  <2> DEFINE q == NextStage(next)
  <2>1. run' = [run EXCEPT ![a] = q]
    BY <1>11
  <2>2. /\ SameWork(q, next) /\ q.records = next.records
        /\ \/ r.idx < Len(Roles[r.task]) /\ q.pc = "stage"
           \/ r.idx = Len(Roles[r.task]) /\ q.pc = "last"
    BY <1>2, <1>5, <1>6, NextPlace
  <2> HIDE DEF q
  <2>3. ASSUME ~TakesBranch(r.task)
        PROVE  q.pc = "last"
    <3>1. Len(Roles[r.task]) = 1 /\ r.idx = 1
      BY <1>3, <2>3
    <3>2. ~(r.idx < Len(Roles[r.task]))
      BY <1>2, <3>1
    <3> QED BY <2>2, <3>2
  <2>4. q.task = r.task /\ q.alone = r.alone /\ q.records = r.records
    BY <1>5, <1>6, <2>2 DEF SameWork
  <2> QED BY <1>1, <1>2, <1>7, <2>1, <2>2, <2>3, <2>4, LaterKeeps
<1> QED BY <1>4, <1>9, <1>10, <1>11

(* The check. *)
LEMMA CheckKeeps ==
  ASSUME Inv, AllFit, Kept, NEW a \in Attempts, run_check_stage(a)
  PROVE  Kept'
<1> DEFINE r == run[a]
           records == Recorded(a, "check", "ok")
           next == [r EXCEPT !.records = records, !.checked = TRUE, !.wf = "Checking",
                             !.diff = dirty]
           failed == [r EXCEPT !.pc = "err", !.records = records]
<1>1. r.pc \in {"check", "last"} /\ works' = works /\ dirty' = dirty
  BY DEF run_check_stage, At
<1>2. /\ a \in Live /\ r \in Run /\ r.task \in Tasks /\ Selection[r.task].ok
      /\ Len(Roles[r.task]) \in 1 .. 4 /\ r.idx \in 1 .. Len(Roles[r.task])
  BY <1>1, Going DEF Ended
<1>3. ~TakesBranch(r.task) => r.pc = "last"
  BY <1>1 DEF Inv, RunInv, Fits, Ended
<1>4. \/ run' = [run EXCEPT ![a] = failed]
      \/ r.pc = "check" /\ run' = [run EXCEPT ![a] = NextStage(next)]
      \/ r.pc = "last" /\ run' = [run EXCEPT ![a] = next]
  BY <1>1 DEF run_check_stage, Becomes, At
<1>5. records \in Seq(Record) /\ Continues(a, records)
  BY ContinuesOne DEF StageName, Status, RoleName
<1>6. dirty \in SUBSET Attempts
  BY DEF Inv, PlaceInv
<1> HIDE DEF records
<1>7. /\ next \in Run /\ next.task = r.task /\ next.alone = r.alone /\ next.records = records
      /\ next.pc = r.pc /\ next.idx = r.idx
      /\ failed.task = r.task /\ failed.alone = r.alone /\ failed.records = records
      /\ failed.pc = "err"
  BY <1>2, <1>5, <1>6 DEF Run
<1> HIDE DEF next, failed
<1>8. CASE run' = [run EXCEPT ![a] = failed]
  BY <1>1, <1>2, <1>5, <1>7, <1>8, StopKeeps
<1>9. CASE r.pc = "check" /\ run' = [run EXCEPT ![a] = NextStage(next)]
  <2> DEFINE q == NextStage(next)
  <2>1. run' = [run EXCEPT ![a] = q]
    BY <1>9
  <2>2. SameWork(q, next) /\ q.records = next.records /\ q.pc \in {"stage", "last"}
    BY <1>2, <1>7, NextPlace
  <2> HIDE DEF q
  <2>3. q.task = r.task /\ q.alone = r.alone /\ q.records = records /\ TakesBranch(r.task)
    BY <1>3, <1>7, <1>9, <2>2 DEF SameWork
  <2> QED BY <1>1, <1>2, <1>5, <2>1, <2>2, <2>3, LaterKeeps
<1>10. CASE r.pc = "last" /\ run' = [run EXCEPT ![a] = next]
  BY <1>1, <1>2, <1>5, <1>7, <1>10, LaterKeeps
<1> QED BY <1>4, <1>8, <1>9, <1>10

(* The end of the pipeline. *)
LEMMA FinishKeeps ==
  ASSUME Inv, AllFit, Kept, NEW a \in Attempts, NEW synced \in BOOLEAN, NEW saved \in BOOLEAN,
         Finish(a, synced, saved)
  PROVE  Kept'
<1> DEFINE r == run[a]
           y == [stage |-> "complete", status |-> "ok"]
           project == IF Order[r.task].project THEN Recorded(a, "github-project", "ok")
                      ELSE r.records
           records == Append(project, y)
           q == [r EXCEPT !.pc = "ok", !.records = records, !.wf = "Completed"]
           p == [r EXCEPT !.pc = "err", !.records = project]
<1>1. r.pc = "last" /\ a \in Live /\ r \in Run /\ works' = works /\ dirty' = dirty
  BY DEF Finish, At, Live, Ended, Inv, RunInv
<1>2. \/ GoesTo(a, "err") \/ FailsAt(a, "github-project")
      \/ run' = [run EXCEPT ![a] = p] \/ run' = [run EXCEPT ![a] = q]
  BY DEF Finish
<1>3. project \in Seq(Record) /\ Continues(a, project)
  <2>1. /\ Recorded(a, "github-project", "ok") \in Seq(Record)
        /\ Continues(a, Recorded(a, "github-project", "ok"))
    BY ContinuesOne DEF StageName, Status, RoleName
  <2>2. r.records \in Seq(Record) /\ Continues(a, r.records)
    BY <1>1 DEF Run, Continues
  <2> QED BY <2>1, <2>2
<1>4. y \in Record /\ y.stage \notin RoleName
  BY DEF Record, StageName, Status, RoleName
<1> HIDE DEF project, y
<1>5. Continues(a, records)
  BY <1>3, <1>4, ContinuesMore
<1> HIDE DEF records
<1>6. /\ q.pc = "ok" /\ q.task = r.task /\ q.alone = r.alone /\ q.records = records
      /\ p.pc = "err" /\ p.task = r.task /\ p.alone = r.alone /\ p.records = project
  BY <1>1 DEF Run
<1> HIDE DEF p, q
<1>7. CASE GoesTo(a, "err")
  BY <1>1, <1>7, GivesUpKeeps DEF GoesTo
<1>8. CASE FailsAt(a, "github-project")
  BY <1>1, <1>8, FailsKeep DEF StageName
<1>9. CASE run' = [run EXCEPT ![a] = p]
  BY <1>1, <1>3, <1>6, <1>9, StopKeeps
<1>10. CASE run' = [run EXCEPT ![a] = q]
  BY <1>1, <1>5, <1>6, <1>10, LaterKeeps
<1> QED BY <1>2, <1>7, <1>8, <1>9, <1>10

(* A failed call, an end without a record, and a kill. *)
LEMMA FailuresKeep ==
  ASSUME Inv, AllFit, Kept, NEW a \in Attempts, CallFails(a) \/ EndsUnrecorded(a) \/ Dies(a)
  PROVE  Kept'
<1>1. CASE CallFails(a)
  <2>1. a \in Live /\ works' = works /\ dirty' = dirty
    BY <1>1 DEF CallFails, At, Live, Ended
  <2>2. \E stage \in StageName : FailsAt(a, stage)
    <3>1. At(a, "stage") => Role(a) \in StageName
      BY Begun DEF At, Ended
    <3> QED BY <1>1, <3>1 DEF CallFails, StageName
  <2> QED BY <2>1, <2>2, FailsKeep
<1>2. CASE EndsUnrecorded(a)
  <2>1. a \in Live /\ works' = works /\ dirty' \subseteq dirty \cup {a}
    BY <1>2 DEF EndsUnrecorded
  <2> QED BY <1>2, <2>1, GivesUpKeeps DEF EndsUnrecorded, GoesTo
<1>3. CASE Dies(a)
  BY <1>3, GivesUpKeeps DEF Dies
<1> QED BY <1>1, <1>2, <1>3

(* A launch, which ends that others are alone. *)
LEMMA LaunchKeeps ==
  ASSUME Inv, AllFit, Kept, NEW a \in Attempts, NEW t \in Tasks, Launch(a, t)
  PROVE  Kept'
<1> DEFINE n == Cardinality({b \in Attempts : ~At(b, "unused") /\ run[b].task = t}) + 1
           alone == Live = {}
           q == [Unused EXCEPT !.task = t, !.n = n, !.pc = "start", !.alone = alone]
<1>1. /\ run' = [[b \in Attempts |-> IF b \in Live THEN [run[b] EXCEPT !.alone = FALSE] ELSE run[b]]
                   EXCEPT ![a] = q]
      /\ run[a].pc = "unused" /\ works' = works /\ dirty' = dirty
  BY DEF Launch, At
<1> HIDE DEF n, alone
<1>2. q.pc = "start" /\ q.task = t /\ q.records = <<>>
  BY DEF Unused
<1> HIDE DEF q
<1>3. ASSUME NEW b \in Attempts
      PROVE  KeptUp(b, run'[b], works') /\ Untouched(b, run'[b], dirty')
  <2>1. KeptUp(b, run[b], works) /\ Untouched(b, run[b], dirty)
    BY DEF Kept
  <2>2. CASE b = a
    <3>1. run'[b] = q
      BY <1>1, <2>2
    <3>2. \A s : ~TellsOk(q.records, s)
      BY <1>2 DEF TellsOk
    <3>3. \A i : <<t, i, a>> \notin works
      BY <1>1, <2>1, <2>2 DEF KeptUp
    <3> QED BY <1>1, <1>2, <2>2, <3>1, <3>2, <3>3 DEF KeptUp, Untouched
  <2>3. CASE b # a /\ b \in Live
    <3> DEFINE p == [run[b] EXCEPT !.alone = FALSE]
    <3>1. run'[b] = p /\ run[b] \in Run
      BY <1>1, <2>3 DEF Inv, RunInv
    <3>2. /\ p.pc = run[b].pc /\ p.task = run[b].task /\ p.idx = run[b].idx
          /\ p.records = run[b].records /\ ~p.alone
      BY <3>1 DEF Run
    <3> HIDE DEF p
    <3>3. KeptUp(b, p, works)
      BY <2>1, <3>2 DEF KeptUp
    <3> QED BY <1>1, <3>1, <3>2, <3>3 DEF Untouched
  <2>4. CASE b # a /\ b \notin Live
    <3>1. run'[b] = run[b]
      BY <1>1, <2>4
    <3> QED BY <1>1, <2>1, <3>1
  <2> QED BY <2>2, <2>3, <2>4
<1> QED BY <1>3 DEF Kept

(* Every step. *)
LEMMA KeptStep == Inv /\ AllFit /\ Kept /\ [Next]_vars => Kept'
<1> SUFFICES ASSUME Inv, AllFit, Kept, [Next]_vars PROVE Kept'
  OBVIOUS
<1>1. ASSUME NEW a \in Attempts, Proceeds(a)
      PROVE  Kept'
  BY <1>1, StartKeeps, CleanKeeps, PrepareKeeps, PersistKeeps, SubmitStageKeeps, NoHelperKeeps,
     HelperKeeps, AnsweredKeeps, CheckKeeps, FinishKeeps DEF Proceeds
<1>2. CASE Committed \/ UNCHANGED vars
  <2>1. run' = run /\ works' = works /\ (dirty' = dirty \/ dirty' = {})
    BY <1>2 DEF Committed, vars
  <2> QED BY <2>1 DEF Kept, Untouched
<1> QED BY <1>1, <1>2, LaunchKeeps, WritesKeep, ReturnsKeep, FailuresKeep DEF Next

(* At all times. *)
LEMMA Keeping == Spec => [](Inv /\ AllFit /\ Kept)
<1>1. Init => Kept
  <2> SUFFICES ASSUME Init, NEW a \in Attempts
               PROVE  KeptUp(a, run[a], works) /\ Untouched(a, run[a], dirty)
    BY DEF Kept
  <2>1. run[a].pc = "unused" /\ works = {}
    BY DEF Init, Unused
  <2> QED BY <2>1 DEF KeptUp, Untouched
<1> QED BY <1>1, InitInv, InvStep, InitFits, FitStep, KeptStep, PTL DEF Spec

(* Whatever ends a run, a kill or an error that no record tells of included, its
   record has kept up with its work: an agent is started only when all that
   comes before it is recorded, the check of a coder's work included, and no
   agent's success is recorded that was not started; for any tasks, registry,
   number of overlapping attempts and of failures (submit.rs 112-221). *)
THEOREM RecordsKeepUp == Spec => []RecordKeepsUp
<1>1. Kept => RecordKeepsUp
  BY DEF Kept, KeptUp, RecordKeepsUp
<1> QED BY <1>1, Keeping, PTL

(* A read-only run that was not failed has left no uncommitted change, whatever
   its agent may do, if it had the repository to itself from its launch and no
   helper of it failed, or if its agent was started in a clean repository; for
   any tasks, registry and number of attempts (submit.rs 166-203, 724-853). *)
THEOREM ReadOnlyIsHarmless == Spec => []ReadOnlyLeavesNoTrace
<1>1. Inv /\ Kept => ReadOnlyLeavesNoTrace
  <2> SUFFICES ASSUME Inv, Kept, NEW a \in Attempts,
                      run[a].pc \in {"answered", "last", "ok"}, ~TakesBranch(run[a].task),
                      run[a].before.dirty = {} \/ (run[a].alone /\ NoHelperFailed(run[a]))
               PROVE  a \notin dirty
    BY DEF ReadOnlyLeavesNoTrace
  <2>1. NoTrace(run[a], a, dirty) /\ Untouched(a, run[a], dirty)
    BY DEF Inv, RunInv, Kept
  <2> QED BY <2>1 DEF NoTrace, Untouched
<1> QED BY <1>1, Keeping, PTL

-----------------------------------------------------------------------------
(* The attempts are the processes of CanopusAgent. *)

\* The process of CanopusAgent that an attempt with the record r is.
Proc(r) ==
  [task |-> r.task, run |-> r.n,
   phase |-> IF r.pc \in {"start", "clean", "branch"} THEN "preparing" ELSE "working"]

Procs == {Proc(run[a]) : a \in Live}

Launched ==
  [t \in Tasks |-> Cardinality({a \in Attempts : run[a].pc # "unused" /\ run[a].task = t})]

\* The live attempt a takes a step, and stays the process it is.
Moves(a) ==
  /\ a \in Live
  /\ \A b \in Attempts : b # a => run'[b] = run[b]
  /\ run'[a].task = run[a].task /\ run'[a].n = run[a].n

\* The two ways to go on, and the two ways out of its phase.
GoesOn(a) ==
  /\ Moves(a) /\ branches' = branches
  /\ run'[a].pc \notin Ended \cup {"unused"} /\ Proc(run'[a]) = Proc(run[a])

Prepares(a) ==
  /\ Moves(a) /\ run[a].pc = "branch" /\ run'[a].pc = "prepared"
  /\ IF TakesBranch(run[a].task)
     THEN run[a].task \notin branches /\ branches' = branches \cup {run[a].task}
     ELSE branches' = branches

Exits(a) == Moves(a) /\ branches' = branches /\ run'[a].pc \in Ended

(* A launched attempt has a number of its own among those of its task. *)
LEMMA NumbersDiffer ==
  ASSUME Inv, AllFit, NEW a \in Attempts, NEW b \in Attempts,
         run[a].pc # "unused", run[b].pc # "unused",
         run[a].task = run[b].task, run[a].n = run[b].n
  PROVE  a = b
<1> DEFINE S(x) == {y \in 1 .. x : run[y].task = run[a].task}
<1>1. a \in Nat /\ b \in Nat /\ a >= 1 /\ b >= 1
  BY OrderAssumption DEF Attempts
<1>2. Cardinality(S(a)) = Cardinality(S(b))
  BY DEF AllFit, NumberFits
<1>3. a \in S(a) /\ b \in S(b)
  BY <1>1
<1>4. IsFiniteSet(S(a)) /\ IsFiniteSet(S(b))
  <2>1. IsFiniteSet(1 .. a) /\ IsFiniteSet(1 .. b)
    BY <1>1, FS_Interval
  <2> QED BY <2>1, FS_Subset
<1>5. CASE a <= b
  <2>1. S(a) \in SUBSET S(b)
    BY <1>1, <1>5
  <2> HIDE DEF S
  <2>2. S(b) = S(a)
    BY <1>2, <1>4, <2>1, FS_Subset
  <2>3. b \in S(a)
    BY <1>3, <2>2
  <2> QED BY <1>1, <1>5, <2>3 DEF S
<1>6. CASE b <= a
  <2>1. S(b) \in SUBSET S(a)
    BY <1>1, <1>6
  <2> HIDE DEF S
  <2>2. S(a) = S(b)
    BY <1>2, <1>4, <2>1, FS_Subset
  <2>3. a \in S(b)
    BY <1>3, <2>2
  <2> QED BY <1>1, <1>6, <2>3 DEF S
<1> QED BY <1>1, <1>5, <1>6

(* What a step of one attempt does to the processes and their counts. *)
LEMMA ProcsAfter ==
  ASSUME Inv, AllFit, NEW a \in Attempts, Moves(a), run'[a].pc # "unused"
  PROVE  /\ Launched' = Launched /\ Proc(run[a]) \in Procs /\ run[a].task \in Tasks
         /\ Procs' = (Procs \ {Proc(run[a])})
                       \cup {x \in {Proc(run'[a])} : run'[a].pc \notin Ended}
<1>1. run[a].pc \notin Ended \cup {"unused"} /\ run[a].task \in Tasks
  BY Begun DEF Moves, Live
<1>2. \A b \in Attempts : /\ run'[b].pc # "unused" <=> run[b].pc # "unused"
                          /\ run'[b].task = run[b].task
  BY <1>1 DEF Moves
<1>3. Launched' = Launched
  <2>1. \A t \in Tasks : {b \in Attempts : run'[b].pc # "unused" /\ run'[b].task = t}
                           = {b \in Attempts : run[b].pc # "unused" /\ run[b].task = t}
    BY <1>2
  <2> QED BY <2>1 DEF Launched
<1>4. ASSUME NEW b \in Live, b # a
      PROVE  Proc(run[b]) # Proc(run[a])
  <2>1. b \in Attempts /\ run[b].pc # "unused"
    BY DEF Live
  <2>2. run[b].task # run[a].task \/ run[b].n # run[a].n
    BY <1>1, <1>4, <2>1, NumbersDiffer
  <2> QED BY <2>2 DEF Proc
<1>5. Live' = (Live \ {a}) \cup {b \in {a} : run'[b].pc \notin Ended}
  BY <1>1 DEF Live, Moves
<1>6. Procs' = {Proc(run[b]) : b \in Live \ {a}}
                 \cup {x \in {Proc(run'[a])} : run'[a].pc \notin Ended}
  <2>1. Procs' = {Proc(run'[b]) : b \in Live'}
    BY DEF Procs
  <2>2. \A b \in Live \ {a} : run'[b] = run[b]
    BY DEF Moves, Live
  <2> QED BY <1>5, <2>1, <2>2
<1>7. {Proc(run[b]) : b \in Live \ {a}} = Procs \ {Proc(run[a])}
  BY <1>4 DEF Procs
<1> QED BY <1>1, <1>3, <1>6, <1>7 DEF Procs, Moves

(* The variables and steps of CanopusAgent, with the attempts for processes. *)
LEMMA AgentStutters ==
  ASSUME Procs' = Procs, branches' = branches, Launched' = Launched
  PROVE  UNCHANGED Agent!agentVars
BY DEF Agent!agentVars, Procs, Proc, Launched

(* An attempt goes on. *)
LEMMA GoesOnAsAgent ==
  ASSUME Inv, AllFit, NEW a \in Attempts, GoesOn(a)
  PROVE  UNCHANGED Agent!agentVars
<1>1. Moves(a) /\ run'[a].pc # "unused" /\ run'[a].pc \notin Ended
      /\ Proc(run'[a]) = Proc(run[a]) /\ branches' = branches
  BY DEF GoesOn
<1>2. Launched' = Launched /\ Procs' = Procs
  BY <1>1, ProcsAfter
<1> QED BY <1>1, <1>2, AgentStutters

(* An attempt exits. *)
LEMMA ExitsAsAgent ==
  ASSUME Inv, AllFit, NEW a \in Attempts, Exits(a)
  PROVE  AgentNext
<1> DEFINE p == Proc(run[a])
<1>1. Moves(a) /\ run'[a].pc # "unused" /\ run'[a].pc \in Ended /\ branches' = branches
  BY DEF Exits, Ended
<1>2. Launched' = Launched /\ p \in Procs /\ Procs' = Procs \ {p}
  BY <1>1, ProcsAfter
<1>3. Agent!AgentExits(p, "err")
  BY <1>1, <1>2 DEF Agent!AgentExits, Procs, Proc, Launched
<1>4. p \in {Preparing(a), Working(a)}
  BY DEF Proc, Preparing, Working
<1>5. a \in Live
  BY <1>1 DEF Moves
<1> HIDE DEF p
<1> QED BY <1>1, <1>3, <1>4, <1>5 DEF AgentNext

(* An attempt has its branch, or its copy. *)
LEMMA PreparesAsAgent ==
  ASSUME Inv, AllFit, NEW a \in Attempts, Prepares(a)
  PROVE  AgentNext
<1> DEFINE p == Preparing(a)
<1>1. Moves(a) /\ run'[a].pc = "prepared" /\ run[a].pc = "branch"
  BY DEF Prepares
<1>2. p = Proc(run[a]) /\ Proc(run'[a]) = [p EXCEPT !.phase = "working"] /\ p.phase = "preparing"
      /\ p.task = run[a].task
  BY <1>1 DEF Proc, Moves, Preparing
<1> HIDE DEF p
<1>3. /\ Launched' = Launched /\ p \in Procs /\ run[a].task \in Tasks
      /\ Procs' = (Procs \ {p}) \cup {[p EXCEPT !.phase = "working"]}
  BY <1>1, <1>2, ProcsAfter DEF Ended
<1>4. Agent!TakeBranch(run[a].task)
  BY <1>3 DEF Prepares, Agent!TakeBranch
<1>5. Agent!AgentPrepares(p)
  BY <1>2, <1>3, <1>4 DEF Agent!AgentPrepares, Procs, Proc, Launched
<1> QED BY <1>1, <1>5 DEF AgentNext, At, p

(* A launch. *)
LEMMA LaunchAsAgent ==
  ASSUME Inv, AllFit, NEW a \in Attempts, NEW t \in Tasks, Launch(a, t)
  PROVE  AgentNext
<1> DEFINE Of(u) == {b \in Attempts : ~At(b, "unused") /\ run[b].task = u}
           n == Cardinality(Of(t)) + 1
           alone == Live = {}
           q == [Unused EXCEPT !.task = t, !.n = n, !.pc = "start", !.alone = alone]
<1>1. run' = [[b \in Attempts |-> IF b \in Live THEN [run[b] EXCEPT !.alone = FALSE] ELSE run[b]]
                EXCEPT ![a] = q]
  BY DEF Launch
<1>2. a \notin Live /\ branches' = branches /\ run[a].pc = "unused"
  BY DEF Launch, At, Live
<1>3. n = Launched[t] + 1
  BY DEF Launched, At
<1> HIDE DEF n, alone
<1>4. q.pc = "start" /\ q.task = t /\ q.n = n
  BY DEF Unused
<1> HIDE DEF q
<1>5. run'[a] = q
  BY <1>1
<1>6. ASSUME NEW b \in Attempts, b # a
      PROVE  run'[b].pc = run[b].pc /\ run'[b].task = run[b].task /\ run'[b].n = run[b].n
  <2>1. CASE b \in Live
    <3>1. run[b] \in Run /\ run'[b] = [run[b] EXCEPT !.alone = FALSE]
      BY <1>1, <1>6, <2>1 DEF Inv, RunInv
    <3> QED BY <3>1 DEF Run
  <2>2. CASE b \notin Live
    BY <1>1, <1>6, <2>2
  <2> QED BY <2>1, <2>2
<1>7. Live' = Live \cup {a}
  BY <1>4, <1>5, <1>6 DEF Live, Ended
<1>8. Procs' = Procs \cup {[task |-> t, run |-> Launched[t] + 1, phase |-> "preparing"]}
  <2>1. \A b \in Live : Proc(run'[b]) = Proc(run[b])
    BY <1>2, <1>6 DEF Proc, Live
  <2>2. Proc(run'[a]) = [task |-> t, run |-> Launched[t] + 1, phase |-> "preparing"]
    BY <1>3, <1>4, <1>5 DEF Proc
  <2>3. Procs' = {Proc(run'[b]) : b \in Live'}
    BY DEF Procs
  <2> HIDE DEF Of
  <2> QED BY <1>7, <2>1, <2>2, <2>3 DEF Procs
<1>9. Launched' = [Launched EXCEPT ![t] = @ + 1]
  <2> DEFINE After(u) == {b \in Attempts : run'[b].pc # "unused" /\ run'[b].task = u}
  <2>1. \A u \in Tasks : Launched[u] = Cardinality(Of(u))
    BY DEF Launched, At
  <2>2. After(t) = Of(t) \cup {a} /\ \A u \in Tasks : u # t => After(u) = Of(u)
    BY <1>2, <1>4, <1>5, <1>6 DEF At
  <2>3. a \notin Of(t) /\ IsFiniteSet(Of(t))
    <3>1. IsFiniteSet(Attempts)
      BY OrderAssumption, FS_Interval DEF Attempts
    <3> QED BY <1>2, <3>1, FS_Subset DEF At
  <2>4. Launched' = [u \in Tasks |-> Cardinality(After(u))]
    BY DEF Launched
  <2>5. Launched = [u \in Tasks |-> Launched[u]]
    BY DEF Launched
  <2> HIDE DEF Of, After
  <2>6. Cardinality(After(t)) = Launched[t] + 1
    BY <2>1, <2>2, <2>3, FS_AddElement
  <2> HIDE DEF Launched
  <2> QED BY <2>1, <2>2, <2>4, <2>5, <2>6
<1>10. Agent!Launch(t)
  BY <1>2, <1>8, <1>9 DEF Agent!Launch, Procs, Proc, Launched
<1>11. At(a, "unused") /\ run'[a].pc = "start" /\ t = run'[a].task
  BY <1>2, <1>4, <1>5 DEF At
<1>12. Agent!Launch(run'[a].task)
  BY <1>10, <1>11 DEF Agent!Launch
<1> QED BY <1>11, <1>12 DEF AgentNext

(* A step between the stages, or to the end. *)
LEMMA WorksAsAgent ==
  ASSUME Inv, NEW a \in Attempts, NEW q, run' = [run EXCEPT ![a] = q], branches' = branches,
         run[a].pc \notin {"unused", "start", "clean", "branch"} \cup Ended,
         q.pc \notin {"unused", "start", "clean", "branch"},
         q.task = run[a].task, q.n = run[a].n
  PROVE  GoesOn(a) \/ Exits(a)
<1>1. run'[a] = q /\ \A b \in Attempts : b # a => run'[b] = run[b]
  BY DEF Inv, RunInv
<1>2. Moves(a)
  BY <1>1 DEF Moves, Live
<1> QED BY <1>1, <1>2 DEF GoesOn, Exits, Proc

(* The other steps. *)
LEMMA StepsAsAgent ==
  ASSUME Inv, AllFit, NEW a \in Attempts,
         \/ Proceeds(a) \/ AgentWrites(a) \/ \E ok \in BOOLEAN : AgentReturns(a, ok)
         \/ CallFails(a) \/ EndsUnrecorded(a) \/ Dies(a)
  PROVE  GoesOn(a) \/ Prepares(a) \/ Exits(a)
<1>1. run \in [Attempts -> Run] /\ run[a] \in Run
  BY DEF Inv, RunInv
<1>2. ASSUME Start(a)
      PROVE  GoesOn(a) \/ Exits(a)
  BY <1>1, <1>2 DEF Start, At, GoesTo, FailsAt, Records, GoesOn, Exits, Moves, Live, Ended, Proc, Run
<1>3. ASSUME ensure_clean_worktree(a)
      PROVE  GoesOn(a) \/ Exits(a)
  BY <1>1, <1>3
     DEF ensure_clean_worktree, At, FailsAt, Records, GoesOn, Exits, Moves, Live, Ended, Proc, Run
<1>4. ASSUME prepare(a)
      PROVE  Prepares(a) \/ Exits(a)
  BY <1>1, <1>4 DEF prepare, At, FailsAt, Records, GoesTo, Prepares, Exits, Moves, Live, Ended, Run
<1>5. ASSUME submit_stage(a)
      PROVE  GoesOn(a) \/ Exits(a)
  <2>1. run[a].pc = "stage" /\ branches' = branches
    BY <1>5 DEF submit_stage, At
  <2>2. CASE FailsAt(a, Role(a))
    BY <1>1, <2>1, <2>2 DEF FailsAt, Records, Exits, Moves, Live, Ended, Run
  <2>3. CASE GoesTo(a, "helper")
    BY <1>1, <2>1, <2>3 DEF GoesTo, GoesOn, Moves, Live, Ended, Proc, Run
  <2> QED BY <1>5, <2>2, <2>3 DEF submit_stage
<1>6. ASSUME NoHelper(a)
      PROVE  GoesOn(a)
  BY <1>1, <1>6 DEF NoHelper, AgentStarts, At, GoesOn, Moves, Live, Ended, Proc, Run
<1>7. ASSUME NEW writes \in BOOLEAN, NEW ok \in BOOLEAN, Helper(a, writes, ok)
      PROVE  GoesOn(a) \/ Exits(a)
  BY <1>1, <1>7 DEF Helper, At, GoesOn, Exits, Moves, Live, Ended, Proc, Run
<1>8. ASSUME AgentWrites(a)
      PROVE  GoesOn(a)
  <2>1. run[a].pc = "agent" /\ branches' = branches
    BY <1>8 DEF AgentWrites, At
  <2>2. CASE run' = [run EXCEPT ![a].wrote = TRUE]
    BY <1>1, <2>1, <2>2 DEF GoesOn, Moves, Live, Ended, Proc, Run
  <2>3. CASE run' = [run EXCEPT ![a].copy = TRUE]
    BY <1>1, <2>1, <2>3 DEF GoesOn, Moves, Live, Ended, Proc, Run
  <2> QED BY <1>8, <2>2, <2>3 DEF AgentWrites
<1>9. ASSUME NEW ok \in BOOLEAN, AgentReturns(a, ok)
      PROVE  GoesOn(a) \/ Exits(a)
  BY <1>1, <1>9
     DEF AgentReturns, At, FailsAt, Records, GoesOn, Exits, Moves, Live, Ended, Proc, Run
<1>10. ASSUME NEW asks \in BOOLEAN, Answered(a, asks)
       PROVE  GoesOn(a) \/ Exits(a)
  <2> DEFINE next == Along(run[a], AnswerPath(run[a].wf, Role(a)))
             coded == [next EXCEPT !.pc = "check"]
             failed == [run[a] EXCEPT !.pc = "err"]
  <2>1. run[a].pc = "answered" /\ branches' = branches
    BY <1>10 DEF Answered, At
  <2>2. \/ run' = [run EXCEPT ![a] = failed]
        \/ run' = [run EXCEPT ![a] = coded]
        \/ run' = [run EXCEPT ![a] = NextStage(next)]
    BY <1>10 DEF Answered, Becomes
  <2>3. next.task = run[a].task /\ next \in Run
    BY <1>1, AlongTyped
  <2>4. next.n = run[a].n
    BY <1>1 DEF Along, Run
  <2> HIDE DEF next
  <2>5. NextStage(next).task = next.task /\ NextStage(next).n = next.n
        /\ NextStage(next).pc \in {"stage", "last"}
    BY <2>3 DEF NextStage, Run
  <2>6. /\ failed.task = run[a].task /\ failed.n = run[a].n /\ failed.pc = "err"
        /\ coded.task = next.task /\ coded.n = next.n /\ coded.pc = "check"
    BY <1>1, <2>3 DEF Run
  <2> HIDE DEF failed, coded
  <2> QED BY <2>1, <2>2, <2>3, <2>4, <2>5, <2>6, WorksAsAgent DEF Ended
<1>11. ASSUME run_check_stage(a)
       PROVE  GoesOn(a) \/ Exits(a)
  <2> DEFINE records == Recorded(a, "check", "ok")
             next == [run[a] EXCEPT !.records = records, !.checked = TRUE, !.wf = "Checking",
                                    !.diff = dirty]
             failed == [run[a] EXCEPT !.pc = "err", !.records = records]
  <2>1. run[a].pc \in {"check", "last"} /\ branches' = branches
    BY <1>11 DEF run_check_stage, At
  <2>2. \/ run' = [run EXCEPT ![a] = failed]
        \/ run' = [run EXCEPT ![a] = next]
        \/ run' = [run EXCEPT ![a] = NextStage(next)]
    BY <1>11 DEF run_check_stage, Becomes
  <2> HIDE DEF records
  <2>3. /\ failed.task = run[a].task /\ failed.n = run[a].n /\ failed.pc = "err"
        /\ next.task = run[a].task /\ next.n = run[a].n /\ next.pc = run[a].pc
    BY <1>1 DEF Run
  <2>4. NextStage(next).task = next.task /\ NextStage(next).n = next.n
        /\ NextStage(next).pc \in {"stage", "last"}
    BY <1>1 DEF NextStage, Run
  <2> HIDE DEF failed, next
  <2> QED BY <2>1, <2>2, <2>3, <2>4, WorksAsAgent DEF Ended
<1>12. ASSUME NEW synced \in BOOLEAN, NEW saved \in BOOLEAN, Finish(a, synced, saved)
       PROVE  Exits(a)
  BY <1>1, <1>12 DEF Finish, At, GoesTo, FailsAt, Records, Exits, Moves, Live, Ended, Run
<1>13. ASSUME Dies(a)
       PROVE  Exits(a)
  BY <1>1, <1>13 DEF Dies, Exits, Moves, Live, Ended, Run
<1>14. ASSUME NEW saved \in BOOLEAN, persist_upstream_provenance(a, saved)
       PROVE  GoesOn(a) \/ Exits(a)
  <2> DEFINE prepared == Recorded(a, "prepare", "ok")
             records == IF Order[run[a].task].upstream /\ saved
                        THEN Append(prepared, [stage |-> "upstream-provenance", status |-> "ok"])
                        ELSE prepared
             q == [run[a] EXCEPT !.pc = IF saved THEN "stage" ELSE "err", !.records = records]
  <2>1. run[a].pc = "prepared" /\ branches' = branches /\ run' = [run EXCEPT ![a] = q]
    BY <1>14 DEF persist_upstream_provenance, At
  <2> HIDE DEF records
  <2>2. q.task = run[a].task /\ q.n = run[a].n /\ q.pc \in {"stage", "err"}
    BY <1>1 DEF Run
  <2> HIDE DEF q
  <2> QED BY <2>1, <2>2, WorksAsAgent DEF Ended
<1>15. ASSUME CallFails(a)
       PROVE  Exits(a)
  <2>1. PICK stage : FailsAt(a, stage)
    BY <1>15 DEF CallFails
  <2>2. a \in Live /\ branches' = branches
    BY <1>15 DEF CallFails, At, Live, Ended
  <2> QED BY <1>1, <2>1, <2>2 DEF FailsAt, Records, Exits, Moves, Ended, Run
<1>16. ASSUME EndsUnrecorded(a)
       PROVE  Exits(a)
  BY <1>1, <1>16 DEF EndsUnrecorded, GoesTo, Exits, Moves, Ended, Run
<1> QED BY <1>2, <1>3, <1>4, <1>5, <1>6, <1>7, <1>8, <1>9, <1>10, <1>11, <1>12, <1>13, <1>14,
           <1>15, <1>16
        DEF Proceeds

(* The attempts behave as the processes that CanopusAgent describes to the
   pipeline, for any tasks, registry and number of attempts: a run that
   implements takes its branch before it works, a branch is taken once, and a
   process keeps its name until it exits (submit.rs 97-138). *)
THEOREM AttemptsAreAgents == Spec => ImplementsAgent
<1>1. ASSUME Init
      PROVE  Agent!AgentInit
  <2>1. Live = {} /\ branches = {} /\ \A a \in Attempts : run[a].pc = "unused"
    BY <1>1 DEF Init, Live, Unused
  <2>2. \A t \in Tasks : {a \in Attempts : run[a].pc # "unused" /\ run[a].task = t} = {}
    BY <2>1
  <2>3. Cardinality({}) = 0
    BY FS_EmptySet
  <2> QED BY <2>1, <2>2, <2>3 DEF Agent!AgentInit, Agent!TaskIds
<1>2. ASSUME Inv, AllFit, [Next]_vars
      PROVE  [AgentNext]_(Agent!agentVars)
  <2>1. ASSUME NEW a \in Attempts, GoesOn(a) \/ Prepares(a) \/ Exits(a)
        PROVE  [AgentNext]_(Agent!agentVars)
    BY <1>2, <2>1, GoesOnAsAgent, PreparesAsAgent, ExitsAsAgent
  <2>2. ASSUME NEW a \in Attempts, NEW t \in Tasks, Launch(a, t)
        PROVE  AgentNext
    BY <1>2, <2>2, LaunchAsAgent
  <2>3. CASE Committed \/ UNCHANGED vars
    <3>1. run' = run /\ branches' = branches
      BY <2>3 DEF Committed, vars
    <3>2. Live' = Live
      BY <3>1 DEF Live
    <3>3. Procs' = Procs /\ Launched' = Launched
      BY <3>1, <3>2 DEF Procs, Launched
    <3> QED BY <3>1, <3>3, AgentStutters
  <2>4. ASSUME NEW a \in Attempts,
               \/ Proceeds(a) \/ AgentWrites(a) \/ \E ok \in BOOLEAN : AgentReturns(a, ok)
               \/ CallFails(a) \/ EndsUnrecorded(a) \/ Dies(a)
        PROVE  [AgentNext]_(Agent!agentVars)
    BY <1>2, <2>1, <2>4, StepsAsAgent
  <2> QED BY <1>2, <2>2, <2>3, <2>4 DEF Next
<1> QED BY <1>1, <1>2, Fitting, PTL DEF Spec, ImplementsAgent
=============================================================================
