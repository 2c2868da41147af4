---------------------------- MODULE RunIdentity ----------------------------
(***************************************************************************)
(* The name of a run.  Canopus derives it from an agenda id and a task id  *)
(* when it submits, and again when it finalizes; Europa predicts it when   *)
(* it writes the task.  Branch, run file and artifact directory all carry  *)
(* this name, so the three programs have to compute the same one.          *)
(*                                                                         *)
(* A text is a sequence of characters.  A run of letters and digits counts *)
(* as one character, a word; <<>> stands for an absent text as well as for *)
(* an empty one, except in a payload, where an absent key has no value.    *)
(***************************************************************************)
EXTENDS SequencesExt

CONSTANTS
  Characters,   \* what texts are made of
  Lowercase,    \* the words of ASCII letters and digits, each with its lower case
  ClockText     \* canopus-<time>, the name of a run that nothing identifies

Space == " "   \* any white space
Separators == {"-", "_", ".", "/", ":", Space}

ASSUME LowercaseAssumption ==
  /\ Separators \cup {"gh", "ghp", "agenda"} \subseteq Characters
  /\ \A w \in DOMAIN Lowercase :
       w \in Characters \ Separators /\ Lowercase[w] \in DOMAIN Lowercase
  /\ "gh" \in DOMAIN Lowercase

Text == Seq(Characters)

\* A function with one key, and f's values over those of g.
Only(key, value) == [k \in {key} |-> value]
Over(f, g) == [x \in DOMAIN f \cup DOMAIN g |-> IF x \in DOMAIN f THEN f[x] ELSE g[x]]

IsBlank(text) == \A i \in DOMAIN text : text[i] = Space

\* str::trim and str.strip.
Trim(text) ==
  LET kept == {i \in DOMAIN text : text[i] # Space}
  IN IF kept = {} THEN <<>> ELSE SubSeq(text, Min(kept), Max(kept))

\* One character of sanitize_run_identity: a separator becomes a dash, unless
\* it is the first or follows another; any other character is dropped.
PushCharacter(id, ch) ==
  CASE ch \in DOMAIN Lowercase                                  -> Append(id, Lowercase[ch])
    [] ch \in Separators /\ id # <<>> /\ Last(id) # "-"          -> Append(id, "-")
    [] OTHER                                                    -> id

\* The name after each character.
Pushed(text) ==
  LET id[i \in 0 .. Len(text)] ==
        IF i = 0 THEN <<>> ELSE PushCharacter(id[i - 1], text[i])
  IN id

WithoutDash(id) == IF id # <<>> /\ Last(id) = "-" THEN Front(id) ELSE id

\* canopus; <<>> is the error "must contain at least one ASCII letter or digit".
sanitize_run_identity(raw) == WithoutDash(Pushed(Trim(raw))[Len(Trim(raw))])

\* europa's mirror of it, which carries the flag last_was_dash along.
MirrorCharacter(s, ch) ==
  CASE ch \in DOMAIN Lowercase ->
         [out |-> Append(s.out, Lowercase[ch]), dash |-> FALSE]
    [] ch \in Separators /\ s.out # <<>> /\ ~s.dash ->
         [out |-> Append(s.out, "-"), dash |-> TRUE]
    [] OTHER -> s

Mirrored(text) ==
  LET s[i \in 0 .. Len(text)] ==
        IF i = 0 THEN [out |-> <<>>, dash |-> FALSE] ELSE MirrorCharacter(s[i - 1], text[i])
  IN s

_sanitize_run_identity(raw) == WithoutDash(Mirrored(Trim(raw))[Len(Trim(raw))].out)

-----------------------------------------------------------------------------

derive_run_identity(agenda, task) ==
  sanitize_run_identity(
    CASE ~IsBlank(agenda) /\ ~IsBlank(task) -> agenda \o <<"-">> \o task
      [] ~IsBlank(agenda) /\ IsBlank(task)  -> agenda
      [] IsBlank(agenda) /\ ~IsBlank(task)  -> task
      [] OTHER                              -> ClockText)

\* Agenda::from_github_issue and from_github_project.
deterministic_agenda_id_for_github_issue(owner, repo, number) ==
  derive_run_identity(<<"gh", "-">> \o owner \o <<"-">> \o repo \o <<"-">> \o number, <<>>)

deterministic_agenda_id_for_github_project(url, item) ==
  derive_run_identity(<<"ghp", "-">> \o url \o <<"-">> \o item, <<>>)

-----------------------------------------------------------------------------

Field(record, key) == IF key \in DOMAIN record THEN record[key] ELSE <<>>

\* The first of the keys that a record has, if it has one.
NoKey == ""

FirstKey(record, keys) ==
  LET present == {i \in DOMAIN keys : keys[i] \in DOMAIN record}
  IN IF present = {} THEN NoKey ELSE keys[Min(present)]

FirstField(records, key) ==
  LET having == {i \in DOMAIN records : Field(records[i], key) # <<>>}
  IN IF having = {} THEN <<>> ELSE Field(records[Min(having)], key)

Or(value, default) == IF value # <<>> THEN value ELSE default

\* A variable of the environment, as both programs read it.
Setting(env, name) == Trim(Field(env, name))

\* europa: the Issue that the intake or the project names, else the
\* configured owner and repository; the number never has a default.
github_issue_identity(env, sources) ==
  [owner  |-> Or(FirstField(sources, "github_owner"), Setting(env, "GITHUB_OWNER")),
   repo   |-> Or(FirstField(sources, "github_repo"), Setting(env, "GITHUB_REPO")),
   number |-> FirstField(sources, "github_issue_number")]

resolve_agenda_id(env, task, sources) ==
  LET issue == github_issue_identity(env, sources)
  IN IF <<>> \in {issue.owner, issue.repo, issue.number}
     THEN <<"agenda", "-">> \o task
     ELSE _sanitize_run_identity(<<"gh", "-">> \o issue.owner \o <<"-">> \o issue.repo
                                   \o <<"-">> \o issue.number)

canopus_run_id_for_task(agenda, task) ==
  _sanitize_run_identity(agenda \o <<"-">> \o task)

-----------------------------------------------------------------------------

\* finalize: the agenda of an approved task.  A key that is present but blank
\* is not passed over for the next one.
ApprovedAgenda(payload, task) ==
  LET agenda == Field(payload, FirstKey(payload, <<"agenda_id", "canopus_agenda_id", "run_id">>))
  IN IF IsBlank(agenda) THEN task ELSE agenda

\* Mutant: the run is named after the agenda alone.
RunIdOfAgenda(payload, task) ==
  derive_run_identity(ApprovedAgenda(payload, task), <<>>)

\* A recorded run id is the last word on the name.
derive_approved_run_id(payload, task) ==
  LET recorded == Trim(Field(payload, "run_id"))
  IN IF recorded # <<>>
     THEN derive_run_identity(recorded, <<>>)
     ELSE derive_run_identity(ApprovedAgenda(payload, task), task)

=============================================================================
