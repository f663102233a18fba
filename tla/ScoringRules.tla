---------------------------- MODULE ScoringRules ----------------------------
(***************************************************************************)
(* The questions and the rules a record is bound to while HR changes both: *)
(* services/scoring_scheme.py, services/indicator_framework.py, their      *)
(* routers, and the scoring steps of evaluations.py and me.py.             *)
(*                                                                         *)
(* A request is one transaction.  Where it locks nothing it takes a step   *)
(* for what it reads and one for its commit; the steps that lock the       *)
(* record (saving scores, submitting, self-assessment) are atomic.  What a *)
(* set of rules computes is the matter of ScoreResult.                     *)
(***************************************************************************)
EXTENDS Naturals, Sequences, SequencesExt, Serving

CONSTANTS Indicators, Installed,   \* identities of indicators, those there at the start
          Forms,        \* records of evaluation
          People,       \* the accounts that hold manage_scoring
          MaxSchemes    \* bound of the versions of scoring schemes

Seed == "seed"   \* created_by_user_id is NULL in the version the migration writes

ScoringRulesAssumption ==
  /\ Installed \subseteq Indicators /\ Seed \notin People /\ MaxSchemes \in Nat \ {0}

VARIABLES schemes,     \* rows of scoring_schemes by version: status and creator
          indicators,  \* each indicator: "none", "active", "inactive" or "deleted"
          frameworks,  \* member_ids of indicator_frameworks by version
          forms        \* the records

rulesVars == <<schemes, indicators, frameworks, forms, serving>>

NoForm == [open |-> FALSE, scheme |-> 0, framework |-> 0, scored |-> {}, answered |-> {}, result |-> {}, done |-> FALSE]
Active == {i \in Indicators : indicators[i] = "active"}
Rows == {i \in Indicators : indicators[i] \in {"active", "inactive"}}
NewestFramework == frameworks[Len(frameworks)]
Versions == DOMAIN schemes

\* active_scheme: its version, 0 when there is none.
ActiveScheme ==
  IF \E v \in Versions : schemes[v].status = "active"
    THEN CHOOSE v \in Versions : schemes[v].status = "active" ELSE 0

\* The migration writes the first scheme and the first framework, the latter
\* before any indicator when the indicators are seeded afterwards.
RulesInit ==
  /\ schemes = <<[status |-> "active", by |-> Seed]>>
  /\ indicators = [i \in Indicators |-> IF i \in Installed THEN "active" ELSE "none"]
  /\ frameworks \in {<<Installed>>, <<{}>>}
  /\ forms = [f \in Forms |-> NoForm]
  /\ serving = Unserved

(***************************************************************************)
(* Scoring schemes.                                                        *)
(***************************************************************************)
\* create_scheme: next_version, then a row whose version is unique.
CreateScheme(w, u) ==
  /\ Idle(w) /\ Len(schemes) < MaxSchemes
  /\ schemes' = Append(schemes, [status |-> "draft", by |-> u])
  /\ Done(w)
  /\ UNCHANGED <<indicators, frameworks, forms>>

\* activate_scheme and delete_draft fetch the row and test what they fetched.
ReadDraft(w, u, v, then) ==
  /\ Idle(w) /\ v \in Versions /\ schemes[v].status = "draft"
  /\ then = "previous" => schemes[v].by # u
  /\ Goto(w, [at |-> then, scheme |-> v])
  /\ UNCHANGED <<schemes, indicators, frameworks, forms>>

\* activate looks for the scheme in force.
ReadPrevious(w) ==
  /\ serving[w].at = "previous"
  /\ Goto(w, [at |-> "activate", scheme |-> serving[w].scheme, previous |-> ActiveScheme])
  /\ UNCHANGED <<schemes, indicators, frameworks, forms>>

\* The rows are there to be updated, and uq_single_active_scheme leaves room.
MayActivate(v, p) ==
  /\ schemes[v].status # "gone" /\ (p # 0 => schemes[p].status # "gone")
  /\ ActiveScheme \in {0, p, v}

\* The previous version retires and the draft takes its place, or the
\* transaction fails; the status of the row is not looked at again.
Activate(w) ==
  /\ serving[w].at = "activate"
  /\ LET v == serving[w].scheme  p == serving[w].previous
         retire == IF p \in {0, v} THEN {} ELSE {p}
     IN IF MayActivate(v, p)
          THEN /\ schemes' = [x \in Versions |->
                    IF x = v THEN [schemes[x] EXCEPT !.status = "active"]
                    ELSE IF x \in retire THEN [schemes[x] EXCEPT !.status = "retired"] ELSE schemes[x]]
          ELSE UNCHANGED schemes
  /\ Done(w)
  /\ UNCHANGED <<indicators, frameworks, forms>>

\* No record is stamped with the version (a foreign key).
Unreferenced(v) == \A f \in Forms : forms[f].scheme # v

\* delete_draft: DELETE by identity, whatever the status has become.
DeleteDraft(w) ==
  /\ serving[w].at = "delete"
  /\ LET v == serving[w].scheme
     IN schemes' = IF Unreferenced(v) THEN [schemes EXCEPT ![v].status = "gone"] ELSE schemes
  /\ Done(w)
  /\ UNCHANGED <<indicators, frameworks, forms>>

(***************************************************************************)
(* Indicators and the versions of their framework.                         *)
(***************************************************************************)
Scored(i) == \E f \in Forms : i \in forms[f].scored \cup UNION forms[f].answered

\* What create_indicator, update_indicator (is_active), delete_indicator and
\* replace_indicator do to the indicators; a scored one is not deleted.
Edits ==
  LET new == {i \in Indicators : indicators[i] = "none"}
  IN {i :> "active" : i \in new \cup (Rows \ Active)}
       \cup {i :> "inactive" : i \in Active}
       \cup {i :> "deleted" : i \in {j \in Rows : ~Scored(j)}}
       \cup {(i :> "inactive") @@ (j :> "active") : i \in Active, j \in new}

\* Uncommitted: the indicators a transaction has written, and the transaction
\* that has inserted a framework.
Written(w) == IF serving[w].at \in {"publish", "rebind"} THEN DOMAIN serving[w].edit ELSE {}
Inserting == \E w \in Workers :
  serving[w].at = "rebind" \/ (serving[w].at = "open" /\ serving[w].seed # {})

\* The edit is flushed; bump reads the latest version, then the active members.
EditIndicators(w) ==
  /\ Idle(w)
  /\ \E e \in Edits :
       /\ \A v \in Workers : Written(v) \cap DOMAIN e = {}
       /\ Goto(w, [at |-> "publish", edit |-> e, version |-> Len(frameworks) + 1,
                   members |-> {i \in Indicators : (e @@ indicators)[i] = "active"}])
  /\ UNCHANGED <<schemes, indicators, frameworks, forms>>

\* Fault: the version of a framework is not unique.
FreshVersion_Any(version) == TRUE

FreshVersion(version) == version > Len(frameworks)

\* _is_untouched: neither the scorer nor the person wrote anything.
Untouched(f) == forms[f].scored = {} /\ forms[f].answered = {}

\* bump inserts the version, waiting for another's insertion, and fails when it
\* is taken; rebind_untouched_open_records then selects the records to move.
Publish(w) ==
  /\ serving[w].at = "publish" /\ ~Inserting
  /\ IF FreshVersion(serving[w].version)
       THEN Goto(w, [at |-> "rebind", edit |-> serving[w].edit, members |-> serving[w].members,
                     moving |-> {f \in Forms : forms[f].open /\ Untouched(f)}])
       ELSE Done(w)
  /\ UNCHANGED <<schemes, indicators, frameworks, forms>>

\* The selected records move, whatever was written in them since.
Rebind(w) ==
  /\ serving[w].at = "rebind"
  /\ indicators' = serving[w].edit @@ indicators
  /\ frameworks' = Append(frameworks, serving[w].members)
  /\ forms' = [f \in Forms |-> IF f \in serving[w].moving
                 THEN [forms[f] EXCEPT !.framework = Len(frameworks) + 1] ELSE forms[f]]
  /\ Done(w)
  /\ UNCHANGED schemes

\* framework_impact, through ensure_framework, writes a version nobody wrote.
SeedFramework(w) ==
  /\ Idle(w) /\ ~Inserting /\ NewestFramework # Active
  /\ frameworks' = Append(frameworks, Active)
  /\ Done(w)
  /\ UNCHANGED <<schemes, indicators, forms>>

(***************************************************************************)
(* A record: opened under the rules in force, then scored.                 *)
(***************************************************************************)
\* create_evaluation reads the active scheme, then ensure_framework.
ReadRules(w, f) ==
  /\ Idle(w) /\ ~forms[f].open
  /\ \A v \in Workers : serving[v].at = "open" => serving[v].form # f
  /\ LET behind == NewestFramework # Active
     IN /\ behind => ~Inserting
        /\ Goto(w, [at |-> "open", form |-> f, scheme |-> ActiveScheme,
                    framework |-> Len(frameworks) + (IF behind THEN 1 ELSE 0),
                    seed |-> IF behind THEN Active ELSE {}])
  /\ UNCHANGED <<schemes, indicators, frameworks, forms>>

\* The record is written, unless the scheme it is to be stamped with is gone.
OpenForm(w) ==
  /\ serving[w].at = "open"
  /\ LET s == serving[w]
     IN IF s.scheme # 0 /\ schemes[s.scheme].status = "gone"
          THEN UNCHANGED <<forms, frameworks>>
          ELSE /\ forms' = [forms EXCEPT ![s.form] =
                    [NoForm EXCEPT !.open = TRUE, !.scheme = s.scheme, !.framework = s.framework]]
               /\ frameworks' = IF s.seed = {} THEN frameworks ELSE Append(frameworks, s.seed)
  /\ Done(w)
  /\ UNCHANGED <<schemes, indicators>>

\* indicator_ids_for_record and indicators_for_record: the questions of the
\* version on the record, and those of them whose row exists.
Asked(f) == frameworks[forms[f].framework]
Form(f) == Asked(f) \cap Rows
Locked(S) == \E w \in Workers : Written(w) \cap S # {}

\* upsert_scores replaces the whole set of scores.
Score(f, S) ==
  /\ forms[f].open /\ ~forms[f].done
  /\ S \subseteq Form(f) /\ S # forms[f].scored /\ ~Locked(S \ forms[f].scored)
  /\ forms' = [forms EXCEPT ![f].scored = S]
  /\ UNCHANGED <<schemes, indicators, frameworks, serving>>

\* submit_self_assessment: every question asked, once, before scoring is over.
CanSelfAssess(f) == forms[f].open /\ ~forms[f].done /\ forms[f].answered = {} /\ Asked(f) \subseteq Rows
SelfAssess(f) ==
  /\ CanSelfAssess(f) /\ ~Locked(Asked(f))
  /\ forms' = [forms EXCEPT ![f].answered = {Asked(f)}]
  /\ UNCHANGED <<schemes, indicators, frameworks, serving>>

\* rules_for_record: the scheme on the record, else the one in force.
RulesOf(f) == IF forms[f].scheme # 0 THEN forms[f].scheme ELSE ActiveScheme

\* finalize_scoring: complete by the record's own questions, computed by its
\* own rules.  A return for correction opens the scores again.
Submit(f) ==
  /\ forms[f].open /\ ~forms[f].done /\ forms[f].scored = Form(f)
  /\ forms' = [forms EXCEPT ![f].done = TRUE, ![f].result = @ \cup {RulesOf(f)}]
  /\ UNCHANGED <<schemes, indicators, frameworks, serving>>

Return(f) ==
  /\ forms[f].done
  /\ forms' = [forms EXCEPT ![f].done = FALSE]
  /\ UNCHANGED <<schemes, indicators, frameworks, serving>>

SchemeNext(w) ==
  \/ \E u \in People : CreateScheme(w, u)
  \/ \E u \in People, v \in Versions, then \in {"previous", "delete"} : ReadDraft(w, u, v, then)
  \/ ReadPrevious(w) \/ Activate(w) \/ DeleteDraft(w)

FrameworkNext(w) == EditIndicators(w) \/ Publish(w) \/ Rebind(w) \/ SeedFramework(w)

FormNext(f) ==
  \/ \E w \in Workers : ReadRules(w, f)
  \/ \E S \in SUBSET Indicators : Score(f, S)
  \/ SelfAssess(f) \/ Submit(f) \/ Return(f)

RulesNext ==
  \/ \E w \in Workers : SchemeNext(w) \/ FrameworkNext(w) \/ OpenForm(w)
  \/ \E f \in Forms : FormNext(f)

RulesSpec == RulesInit /\ [][RulesNext]_rulesVars

(***************************************************************************)
(* Properties.                                                             *)
(***************************************************************************)
\* Whoever edits the indicators, and however many at once, the newest version
\* of the framework lists exactly the active ones (indicators._publish: forget
\* it and the questions of open records go wrong through an unwatched door).
NewestFollows == frameworks' # frameworks \/ Active' # Active => NewestFramework' = Active'
NewestIsActiveSet == [][NewestFollows]_rulesVars

=============================================================================
