----------------------------- MODULE Directory -----------------------------
(***************************************************************************)
(* Who is on file: persons created one by one or from an Excel file        *)
(* (services/personnel_import.py, api/routers/personnel.py), the file      *)
(* staged in a conversation (services/ai/tools/uploads.py) and the         *)
(* catalogue of units (api/routers/org_units.py).                          *)
(*                                                                         *)
(* A cell is what parsing makes of it: a code, a user, Blank, or Unknown   *)
(* for a name nobody or more than one bears; a row whose required cells    *)
(* cannot be read is broken.  A request that reads and later writes takes  *)
(* two steps, as nothing is locked; unique constraints decide at the       *)
(* second.                                                                 *)
(***************************************************************************)
EXTENDS Naturals, Sequences, FiniteSets, Serving

CONSTANTS Codes, Evaluators, Usernames,   \* codes of persons, accounts, names for new accounts
          EvaluatorRole(_), \* role of an evaluator
          File,         \* the rows of the file
          Sites, Names, \* cells of a unit
          MaxUnits      \* bound of the catalogue

Blank == "blank"
Unknown == "unknown"
Stages == {"unit_supervisor", "deputy", "ceo"}

DirectoryAssumption ==
  /\ MaxUnits \in Nat /\ Usernames \cap Evaluators = {}
  /\ \A u \in Evaluators : EvaluatorRole(u) \in Stages
  /\ DOMAIN File \subseteq Nat
  /\ \A r \in DOMAIN File : File[r].code \in Codes /\ File[r].username \in Usernames \cup {Blank}

VARIABLES people,   \* the rows of personnel, by code
          activeEvaluators,   \* evaluators whose account is active
          taken,    \* usernames in use
          units,    \* rows of org_units: site, name, is_hr_unit; <<>> once deleted
          upload    \* structure_json of the staged file

directoryVars == <<people, activeEvaluators, taken, units, upload, serving>>

NoChain == [s \in Stages |-> Blank]
NoPerson == [here |-> FALSE, unit |-> <<>>, chain |-> NoChain, account |-> Blank]
OnFile == {c \in Codes : people[c].here}
RowsOf == DOMAIN File

DirectoryInit ==
  /\ people = [c \in Codes |-> NoPerson]
  /\ activeEvaluators = Evaluators
  /\ taken = {}
  /\ units = <<>>
  /\ upload = [staged |-> FALSE, fixed |-> {}, committed |-> FALSE]
  /\ serving = Unserved

(***************************************************************************)
(* Reading a file: parse_workbook.                                         *)
(***************************************************************************)
Level(role) == CASE role = "unit_supervisor" -> 1 [] role = "deputy" -> 2 [] OTHER -> 3
MayStandAt(u, stage) == Level(EvaluatorRole(u)) >= Level(stage)

\* A cell of the chain names an active account that may sit there.
Resolves(row, stage) ==
  row.chain[stage] # Blank =>
    row.chain[stage] \in activeEvaluators /\ MayStandAt(row.chain[stage], stage)

\* _resolve_chain: the only CEO fills an empty cell, a manager has no supervisor.
SeatsOfRow(row) ==
  LET ceos == {u \in activeEvaluators : EvaluatorRole(u) = "ceo"}
  IN [s \in Stages |->
       IF s = "ceo" /\ row.chain[s] = Blank /\ Cardinality(ceos) = 1 THEN CHOOSE u \in ceos : TRUE
       ELSE IF s = "unit_supervisor" /\ row.manager THEN Blank
       ELSE row.chain[s]]

RedundantIn(seats) ==
  seats["deputy"] # Blank /\ seats["deputy"] \in {seats["unit_supervisor"], seats["ceo"]}

\* has_chain: somebody to close the record and somebody to score.
HasChain(seats) ==
  seats["ceo"] # Blank /\ (seats["unit_supervisor"] # Blank \/ seats["deputy"] # Blank)

\* A code or username that is on file, or stands in an earlier row.
Repeated(r) ==
  \/ File[r].code \in OnFile \/ File[r].username \in taken
  \/ \E q \in RowsOf : q < r /\ (File[q].code = File[r].code
                                 \/ (File[r].username # Blank /\ File[q].username = File[r].username))

\* ImportPreview.valid, with the cells the conversation has corrected.
ValidRows(fixed) ==
  {r \in RowsOf : /\ File[r].broken => r \in fixed
                  /\ ~Repeated(r)
                  /\ \A s \in Stages : Resolves(File[r], s)
                  /\ ~RedundantIn(SeatsOfRow(File[r]))}

\* commit_personnel_import (a file sent by hand) and execute_import (the staged
\* one, unless it is marked as imported) validate from nothing.
Parse(w, staged) ==
  /\ Idle(w)
  /\ staged => upload.staged /\ ~upload.committed
  /\ LET rows == ValidRows(IF staged THEN upload.fixed ELSE {})
     IN /\ staged => rows # {}
        /\ Goto(w, [at |-> "insert", staged |-> staged, rows |-> rows, fixed |-> upload.fixed,
                    seats |-> [r \in rows |-> SeatsOfRow(File[r])]])
  /\ UNCHANGED <<people, activeEvaluators, taken, units, upload>>

(***************************************************************************)
(* Writing it: commit_import, one transaction.                             *)
(***************************************************************************)
\* Fault: the code and the username are not unique.
Collides_Never(rows) == FALSE

Collides(rows) ==
  \E r \in rows : File[r].code \in OnFile \/ File[r].username \in taken

\* Every valid row becomes a person, a chain when it has one, and an account
\* when it names one; a row that collides takes the whole file with it.
Insert(w) ==
  /\ serving[w].at = "insert"
  /\ LET s == serving[w]
         of(c) == {r \in s.rows : File[r].code = c}
     IN IF Collides(s.rows)
          THEN Done(w) /\ UNCHANGED <<people, taken>>
          ELSE /\ people' = [c \in Codes |->
                    IF of(c) = {} THEN people[c]
                    ELSE LET r == CHOOSE r \in of(c) : TRUE
                         IN [here |-> TRUE, unit |-> File[r].unit, account |-> File[r].username,
                             chain |-> IF HasChain(s.seats[r]) THEN s.seats[r] ELSE NoChain]]
               /\ taken' = taken \cup ({File[r].username : r \in s.rows} \ {Blank})
               /\ Goto(w, [s EXCEPT !.at = IF s.staged THEN "mark" ELSE "imported"])
  /\ UNCHANGED <<activeEvaluators, units, upload>>

\* execute_import then marks the staged file, in a transaction of its own that
\* writes back the structure it read.
MarkCommitted(w) ==
  /\ serving[w].at = "mark"
  /\ upload' = [upload EXCEPT !.fixed = serving[w].fixed, !.committed = TRUE]
  /\ Goto(w, [serving[w] EXCEPT !.at = "imported"])
  /\ UNCHANGED <<people, activeEvaluators, taken, units>>

\* The process dies between the two.
Crash(w) ==
  /\ serving[w].at = "mark"
  /\ Goto(w, [serving[w] EXCEPT !.at = "imported"])
  /\ UNCHANGED <<people, activeEvaluators, taken, units, upload>>

\* stage_upload keeps the file; patch_upload_rows corrects rows of it, writing
\* the whole structure it read.
StageUpload(w) ==
  /\ Idle(w) /\ ~upload.staged
  /\ upload' = [upload EXCEPT !.staged = TRUE]
  /\ Done(w)
  /\ UNCHANGED <<people, activeEvaluators, taken, units>>

ReadPatch(w) ==
  /\ Idle(w) /\ upload.staged /\ ~upload.committed
  /\ \E R \in SUBSET {r \in RowsOf : File[r].broken} \ {{}} :
       Goto(w, [at |-> "patch", fixed |-> upload.fixed \cup R])
  /\ UNCHANGED <<people, activeEvaluators, taken, units, upload>>

WritePatch(w) ==
  /\ serving[w].at = "patch"
  /\ upload' = [upload EXCEPT !.fixed = serving[w].fixed, !.committed = FALSE]
  /\ Done(w)
  /\ UNCHANGED <<people, activeEvaluators, taken, units>>

(***************************************************************************)
(* One person, one account, one unit.                                      *)
(***************************************************************************)
CreatePersonnel(w, c, name, unit) ==
  /\ Idle(w) /\ c \notin OnFile /\ name \notin taken
  /\ people' = [people EXCEPT ![c] = [NoPerson EXCEPT !.here = TRUE, !.unit = unit, !.account = name]]
  /\ taken' = taken \cup ({name} \ {Blank})
  /\ Done(w)
  /\ UNCHANGED <<activeEvaluators, units, upload>>

\* Disabling an account; nobody here holds a seat of an open record.
Disable(u) ==
  /\ u \in activeEvaluators
  /\ activeEvaluators' = activeEvaluators \ {u}
  /\ UNCHANGED <<people, taken, units, upload, serving>>

\* full_name: join_site of the two cells.
FullName(unit) == IF unit.site = Blank THEN <<unit.name>> ELSE <<unit.site, unit.name>>
Listed == {i \in DOMAIN units : units[i].live}

\* uq_org_unit_site_name; to PostgreSQL one absent site differs from another.
Clash(site, name, others) ==
  site # Blank /\ \E i \in others : units[i].site = site /\ units[i].name = name

CreateUnit(w, site, name) ==
  /\ Idle(w) /\ Len(units) < MaxUnits /\ ~Clash(site, name, Listed)
  /\ units' = Append(units, [site |-> site, name |-> name, live |-> TRUE, hr |-> FALSE])
  /\ Done(w)
  /\ UNCHANGED <<people, activeEvaluators, taken, upload>>

\* update_org_unit: the persons on file under the old name follow the new one.
UpdateUnit(w, i, site, name, hr) ==
  /\ Idle(w) /\ i \in Listed /\ ~Clash(site, name, Listed \ {i})
  /\ LET new == [units[i] EXCEPT !.site = site, !.name = name, !.hr = hr]
     IN /\ units' = [units EXCEPT ![i] = new]
        /\ people' = [c \in Codes |-> IF people[c].unit = FullName(units[i])
                        THEN [people[c] EXCEPT !.unit = FullName(new)] ELSE people[c]]
  /\ Done(w)
  /\ UNCHANGED <<activeEvaluators, taken, upload>>

\* delete_org_unit: only an empty unit, as counted before the deletion.
CountMembers(w, i) ==
  /\ Idle(w) /\ i \in Listed /\ \A c \in OnFile : people[c].unit # FullName(units[i])
  /\ Goto(w, [at |-> "unlist", unit |-> i])
  /\ UNCHANGED <<people, activeEvaluators, taken, units, upload>>

DeleteUnit(w) ==
  /\ serving[w].at = "unlist"
  /\ units' = [units EXCEPT ![serving[w].unit].live = FALSE]
  /\ Done(w)
  /\ UNCHANGED <<people, activeEvaluators, taken, upload>>

ImportNext(w) ==
  \/ \E staged \in BOOLEAN : Parse(w, staged)
  \/ Insert(w) \/ MarkCommitted(w) \/ Crash(w)
  \/ StageUpload(w) \/ ReadPatch(w) \/ WritePatch(w)

UnitNext(w) ==
  \/ \E s \in Sites \cup {Blank}, n \in Names : CreateUnit(w, s, n)
  \/ \E i \in DOMAIN units, s \in Sites \cup {Blank}, n \in Names, hr \in BOOLEAN : UpdateUnit(w, i, s, n, hr)
  \/ \E i \in DOMAIN units : CountMembers(w, i)
  \/ DeleteUnit(w)

DirectoryNext ==
  \/ \E w \in Workers : ImportNext(w) \/ UnitNext(w)
  \/ \E w \in Workers, c \in Codes, n \in Usernames \cup {Blank}, u \in Names : CreatePersonnel(w, c, n, <<u>>)
  \/ \E u \in Evaluators : Disable(u)

DirectorySpec == DirectoryInit /\ [][DirectoryNext]_directoryVars

(***************************************************************************)
(* Properties.                                                             *)
(***************************************************************************)
Reported(w) == IF serving[w].at \in {"mark", "imported"} THEN serving[w].rows ELSE {}

\* Two imports of one file, by hand and in the conversation, never both report
\* a row as created, and each row reported is on file with its own account
\* (commit_import: the rows are inserted in one transaction).
NobodyImportedTwice ==
  \A w \in Workers : \A r \in Reported(w) :
    /\ people[File[r].code].here /\ people[File[r].code].account = File[r].username
    /\ \A v \in Workers \ {w} : \A q \in Reported(v) : File[q].code # File[r].code

=============================================================================
