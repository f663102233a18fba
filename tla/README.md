# NexaHR in TLA+

A verification development for NexaHR, the personnel evaluation system of this
repository (FastAPI and PostgreSQL under `src/backend/app`, React under
`src/frontend`).  It holds TLA+ modules translated from the code, TLC
configurations that check them on small instances, and TLAPS proofs for every
instance.  Paths below are relative to `src/backend/app` unless they start with
`src/`.

## 1. The system

A person is evaluated by a *chain* of at most three people (unit supervisor,
deputy, CEO) with the HR unit between the scorer and the approvers.  HR writes
the chain on an *access row*; the scorer opens a *record*, which copies the
chain; scores are given, submitted, reviewed, approved, sent back, cancelled,
and at the end sealed in a document that is hashed and printed.  While a record
is under way, administrators change the accounts, the personnel files and the
access rows it was built from.

| Part | Code | State it keeps | Operations | What is hard |
|---|---|---|---|---|
| Evaluation workflow | `services/workflow.py`, `api/routers/evaluations.py`, `models/chain.py`, `models/evaluation.py`, `services/self_evaluation.py` | `evaluation_records`, `evaluation_scores` | create, score, bonus, submit, HR approve/claim/hand over/comment, deputy approve, finalize, return, cancel, extend, reassign | 23 transitions over four shapes of chain times "is it the HR unit"; seats that change hands between two stages; several seats held by one person |
| Submission window | `services/evaluation_window.py` | `submission_extended_until` | extend, check | day boundaries, an extension replaced by another |
| Accounts, personnel, access | `api/routers/users.py`, `personnel.py`, `evaluation_access.py`, `services/evaluation.py` | `users`, `personnel`, `evaluation_access` | role, link, disable/enable, depart, rejoin, move unit, manager flag, access row | every check reads other tables than the ones it writes, while records are in flight |
| Final document | `services/snapshot.py`, `documents.py`, `pdf.py`, `api/routers/verify.py` | `final_snapshot`, hash, number | seal, print, verify | what is read at sealing time has moved since the stages were performed |
| Response of the person | `api/routers/me.py`, `services/self_assessment.py`, objections in `evaluations.py` | acknowledgement, objection, self-assessment | self-assess, acknowledge, object, resolve | the person who must answer, the deadlines, modules switched off in the middle |
| Periods and bulk creation | `api/routers/periods.py`, `services/bulk_evaluation.py` | `evaluation_periods`, records | plan, execute with a savepoint per row | a plan made stale by concurrent creations |
| Scoring schemes, indicators | `services/scoring_scheme.py`, `indicator_framework.py`, their routers | schemes, framework versions | publish, freeze, score | a version published while drafts are being scored |
| Sessions | `services/sessions.py`, `api/routers/auth.py`, `api/deps.py` | refresh tokens, `token_version` | login, refresh with rotation, logout, revoke all | reuse detection against two tabs that refresh together |
| Login guard, rate limit | `services/login_guard.py`, `core/rate_limit.py` | attempt counters | count, lock, unlock | counters at their limit, clock |
| Authorization and modules | `services/authorization.py`, `core/modules.py` | scopes, switched modules | visibility filters | a module switched off while its data is in flight |
| Notifications and delivery | `services/notifications.py`, `delivery.py`, `services/channels/*` | `notifications`, delivery state of each row | enqueue, sweep, send, retry, give up | a send whose commit is lost, a row that fails for ever, the head of the queue |
| Scheduled sweeps | `services/scheduled.py`, `scheduler_lock.py` | an advisory lock | elect, sweep | two workers, a connection that dies with the lock |
| Audit log | `services/audit.py`, `api/routers/audit_log.py` | a hash chain, anchors | append, verify, anchor | the chain lock taken among the row locks |
| AI copilot | `services/ai/*`, `api/routers/ai.py` | conversations, pending actions, usage | converse, summarise, propose, confirm, reject, execute | a tool run once and only once across double clicks, expiry and crashes; a turn that fails half-way; 41 tools that must not do more than the screens |
| Improvement plans | `api/routers/improvement_plans.py` | plans, items | open, follow up, close | small state machine on a finalized record |
| Organisation units | `api/routers/org_units.py` | a catalogue of site, department and unit | create, change, delete | a change that makes who belongs to the HR unit another question |
| Import, export | `services/personnel_import.py`, `excel.py` | none of its own | parse, preview, apply | pure data conversion |
| Reports, dashboards, analytics | `api/routers/reports.py`, `dashboard.py`, `analytics.py`, `services/stage_stats.py` | none | read only | wide reads, no state |
| Platform | `core/*`, `db/*`, `main.py`, `src/backend/alembic` | configuration, schema | start, migrate | start-up and migrations |
| Front end, tools | `src/frontend`, `src/tools`, `src/deploy`, `src/e2e` | view state | calls the API | decides nothing that the API does not decide again |

Interaction: the parts share one database.  An endpoint runs in one transaction,
appends to the audit log and to the notifications in it and commits once.  The
endpoints of a record take its row `FOR UPDATE` before they look at it.  Those of
accounts, personnel and access rows (`users.py`, `personnel.py`,
`evaluation_access.py`) take no row before their checks, which read tables that
others are writing.  Sessions do not flush by themselves (`autoflush=False` in
`db/session.py`): what an endpoint has changed goes to the database at its next
`flush` or commit, in most endpoints inside `log_event`, after that has the lock of
the audit chain (`services/audit.py:87`, `:109`), and so under that lock.  Where an
endpoint flushes earlier, something else can be committed between the flush and the
lock.

### What makes each part correct

* **Workflow.** One evaluation of a person at a time; no stage of the chain is
  skipped; what the approvers approve is what the scorer gave; the sealed
  document is the result that was reviewed and never changes again; nobody, and
  no unit, decides about itself, not even when a race has seated somebody in their
  own chain; an open record is always on somebody's desk
  and somebody can always close it; what the queries say of a record, the pages
  and the transitions say too.
* **Response.** Acknowledgement, objection and answer follow each other, inside
  the deadline, once, and the answer comes from somebody who is not a party.
* **Opening and closing as transactions.** The checks read without a lock, so
  the partial unique index, the row lock and the lock of the audit chain have
  to make up for it, without a deadlock that hits the wrong request.
* **Delivery.** Everything queued is sent or given up; nothing is sent twice
  without a cause; the head of the queue does not starve the tail.
* **Assistant.** A confirmed change is made at most once, a rejected one never,
  and the event log says what happened.
* **Sessions, login guard.** A refresh token has one successor; a failure is never
  lost, whatever locks, unlocks and windows come between.
* **Permissions.** What somebody may do beyond their role was given by somebody
  else; the assistant is no way around a screen.
* **Scoring rules.** The newest framework lists what is active; a record is scored
  by the rules it was opened with; a better mark never lowers a result.
* **Directory.** No person is imported twice, and what an import reports is on file.
* **Conversation.** A failed turn leaves its cost, once, and nothing else; it takes
  nothing of anybody else's that was there when it looked.  The tests say that the
  ledger stays whatever breaks, which is not so (section 5).
* **Plans, documents, reminders, audit.** A closed plan stays as it was closed; every
  finalized record that can be printed gets its document, as long as no rendering
  raises; every stalled stage is
  told to whoever must act; a verification says what is true of the rows.

## 2. Modules

| Module | Models | Composition |
|---|---|---|
| `Chain` | `models/chain.py`, the `TRANSITIONS` table and the helpers of `services/workflow.py`: the shapes of a chain, the 23 transitions with their guards, the signatories. No state. | |
| `EvaluationWorkflow` | the endpoints of a record and the administration around it, one action each; two for the endpoints that flush before they wait for the audit chain (access row, opening) | extends `Chain` |
| `WorkflowProperties` | what the workflow promises | extends `EvaluationWorkflow` |
| `EvaluationPromise` | the abstract specification: an evaluation without seats, roles or stages | instantiated by `WorkflowProperties` |
| `ResultResponse` | self-assessment, acknowledgement, objection, answer, module switches | composed with every step of `EvaluationWorkflow` |
| `RecordTransactions` | the requests that open and close records, statement by statement, with the unique index, row locks, the audit chain's lock, deadlock detection and crashes | beside `EvaluationWorkflow`, whose `InsertRecord`, `Create`, `Depart`, `CeoFinalize` and `Disable` it takes apart |
| `DeliverySweep`, `DeliveryProperties` | outbox, leader lock, sweep, channels' settings | stands alone; fed by any workflow transaction (`Enqueue`) |
| `PendingAction` | one proposal of the assistant | stands alone |
| `WorkQueues` | lists, page, export, PDF, comments (`evaluations.py`), own pages (`me.py`), `dashboard.py`, `stage_stats.py`, the searches of the assistant: who is shown which record and whose turn it is | extends `WorkflowProperties`; queries only, checked in every state of the workflow |
| `SignIn` | `services/sessions.py`, `login_guard.py`, `api/routers/auth.py`, passwords in `users.py`: one account, its sessions and its count of failures, statement by statement | stands alone |
| `Administration` | `api/routers/administration.py`, `services/authorization.py`, `bootstrap_admin.py`, accounts in `users.py`: permissions, roles, who gave what | stands alone |
| `AssistantTools` | `services/ai/tools/*`: what each tool asks before it runs, beside what the router of the same operation asks | extends `Chain` |
| `Serving` | the step a request stands at, and what it has read | extended by `Directory` and `ScoringRules` |
| `ScoringRules` | `services/scoring_scheme.py`, `indicator_framework.py`, their routers, the scoring steps of `evaluations.py` and `me.py` | stands alone; `ScoreResult` is what its rules compute |
| `ScoreResult` | the checks of `SchemeInput`, `validate_evidence`, `validate_bonus`, `compute_result`, with their roundings | |
| `Directory` | `api/routers/personnel.py` (creation), `org_units.py`, `services/personnel_import.py`, `services/ai/tools/uploads.py` | stands alone |
| `Conversation` | `api/routers/ai.py` (chat), `services/ai/orchestrator.py`, `summary.py`, `usage.py` | its cards are those of `PendingAction` |
| `ImprovementPlans` | `api/routers/improvement_plans.py` | stands alone |
| `AuditTrail` | `services/audit.py`, the verification of `services/scheduled.py`, `api/routers/audit_log.py` | its chain is that of `RecordTransactions` |
| `DocumentArchive` | `services/documents.py`, the task, the download and the backfill sweep | follows a finalization |
| `Reminders` | the reminder sweeps of `services/scheduled.py`, `services/notifications.py` | feeds `DeliverySweep` |
| `MCWorkflow`, `MCResponse`, `MCTransactions` | small instances | |
| `MCStaff` | three settings of `WorkflowProperties` in one instance | |
| `MCOnce` | `PendingAction`, `DocumentArchive` and `DeliverySweep`: what is to be done once | |
| `MCAccess` | small instances of signing in, of permissions and of the tools | extends `SignIn`, `Administration` and `AssistantTools` |
| `MCOffice` | small instance of the work around an evaluation; the conversation twice, with uploads and with decisions on cards | extends `ScoringRules`, `Directory`, `Conversation`, `ImprovementPlans`, `Reminders`, `ScoreResult`, `AuditTrail` and `MCAccess` |
| `WorkflowSafety_proofs`, `WorkflowStages_proofs` | theorems of the workflow, its queues, its promise and the responses | the second extends the first, `WorkQueues` and `ResultResponse` |
| `RecordTransactions_proofs`, `Conversation_proofs` | theorems of the module each is named after | |
| `Once_proofs` | theorems of the confirmation point and of the sweep | extends `PendingAction` and `DeliveryProperties` |
| `Access_proofs` | theorems of accounts, sessions and the assistant's tools | extends `SignIn`, `Administration` and `AssistantTools` |
| `Office_proofs` | theorems of the work around an evaluation | extends `ImprovementPlans`, `Directory`, `ScoringRules` and `Reminders` |
| `ResultAndTrail_proofs` | theorems of the result of a form and of the audit log | extends `ScoreResult` and `AuditTrail` |

A definition whose comment begins with `Fault:` is a plausible mistake in the
definition below it.  Nothing uses it; it records what each property is there
to notice.

### State and code

`EvaluationWorkflow` has one variable per column that any guard reads, as a
function of users, people or records.  `status = "none"` is a row that does not
exist.  `chain[r]` is the three seats copied from the access row plus the stamp
`hr_review_skipped`.  `sheet` stands for the whole score form: a member of
`CompleteSheets` scores every indicator of the framework.  `result` is the pair
of sheet and bonus it was computed from, so "the result is stale" is visible.
`doc` is what `build_final_snapshot` freezes.  `done` is a history variable, read
by no guard: who performed each stage that still counts, as the audit log has it
(returns rewind it).

An endpoint of a record is one action because it locks the record's row before it
looks and commits once; a guard stands for each `raise`, in the code's order where
order is visible.  `UpsertAccess` and `InsertRecord` end with the flush: the row is
written (`flushed`, `inserted`), its trigger has run, and nobody sees it until
`CommitAccess` and `Create`, which ask nothing again.  `LinkAccount` and `Reassign` are
one step although they check without a lock: what they write is sent, and its trigger
run, inside `log_event` under the lock of the audit chain that is held to the commit, and
so the trigger repeats the check on everything committed until then
(`c3e8b1a76d94`); a row that is written and not committed is what it cannot see.
`Permitted` holds the trigger of `evaluation_records`, which runs at every UPDATE of a
record.  Where the code decides by the first match of a list (returns), so does
the action.  What endpoints read from *other* tables without a lock is what
`RecordTransactions` is for.

`RecordTransactions` names a record by the request that inserted it.  `pc` is the
next statement.  What a request has written stays in `inserted` and `target` until
`Commit` moves it to `record`; `InsertWaitsFor` is PostgreSQL's wait on a
unique key held by an open transaction, `AbortDeadlock` its deadlock detector (any
member of a cycle may be the victim).  A request is in a cycle when whoever it
waits for, and they wait for, and so on, include itself (`InCycle`).  The names by which a cohort is ordered are
taken to be different; the code orders by `full_name` alone
(`services/bulk_evaluation.py:130`), so two namesakes in one cohort are outside
the model.

`WorkQueues` has no state.  Every query is an operator over the tables of the
workflow and is asked in every state the workflow reaches, `Listed` and the pages
by the account that looks, `StageHolder` by the statistics.  Where the code asks a
role and where it asks a seat is kept apart (`InScope` against `CanView`), since
an account may sit in a seat that its role does not name.

`DeliverySweep` keeps the committed rows apart from what the session of a
sweep will write (`draft`), because everything between the first send and the
commit can be lost.  `batch[w]` is the rows a sweep has yet to handle, as it read them;
the oldest is next.  `configured[w]` is each process's own copy of the
settings.  The replies of a service are external; "transient" includes a message
that was accepted while its acknowledgement was lost.

The composed instances `MCStaff`, `MCOnce` and `MCOffice` hold parts
that share no state.  A variable `part` (or `setting`) is chosen at the start and
never changes: every behaviour is a behaviour of one part, and a property of a
part is asked of that part only.  It spares runs, not states.  Where the parts do
meet in the code, the meeting is inside a module (`AssistantTools` and the
transitions of `Chain`, `Reminders` and the stages of a record, `SignIn` and the
disabling of an account).

`SignIn`, `Administration`, `ScoringRules`, `Directory`, `ImprovementPlans` and
`AuditTrail` follow a request by what it reads and what it writes: a step that
reads (and takes a lock where the code does), a step that commits.  That is the
grain at which two requests of FastAPI's thread pool interleave under READ
COMMITTED.  Row locks are guards (`Free`, `CountLocked`, `SessionLocked`,
`MayAppend`), unique constraints decide at the commit (`FreshVersion`, `Collides`).
A change of password sends the UPDATE of the sessions before that of the account,
since nothing is flushed by itself: `LookForSessions` is the start of that statement,
`RevokeRows` the point at which it has every row, `CommitPassword` the rest.

`Conversation` follows a turn through its awaits: while it waits for the provider
other turns, uploads and deletions of the same conversation run.  What the turn
has only flushed dies with a rollback, what it has committed (after a tool, not
before the first one) does not.  The provider is external and may do anything it
can do to the loop: answer, call tools, be cut off, refuse the tool protocol,
fail.  The handler of a failure is two steps, because the count of the messages
(`CountOthers`) and the deletion of the conversation (`FailTurn`) are two
statements, and the deletion takes with it, by the cascade of the foreign keys,
what came in between.  The ledger is a sequence per turn, so that a row too many or
too few shows.

`DocumentArchive` tells three kinds of record apart: those that render, those whose
rendering is a `RuntimeError`, which is caught, and those whose rendering raises
something else (`Raising`).  One of the last kind in the batch of a sweep undoes the
run (`SweepRaises`): what the run had made before is lost, and the next one begins with
the same batch.  The reminders and the delivery of that run are lost with it;
`DeliverySweep` and `Reminders` know this as one of their own failed sweeps.

`AssistantTools` gives every tool that changes something two predicates, what the
registry and the tool's body ask (`IsAllowed`, `MayAdvance`, the guards of the
endpoint) and what the route asks (`RouteAdmits`), and lets the user's role,
capabilities, modules and the record change between the card and its
confirmation.

`AuditTrail` keeps the log as a set of rows, which every query orders by their ids;
a hash is the pair of what was hashed.  Each row remembers, as history, the row it was
written after, and that is what a verdict is compared with.  A verification reads the
last row first and goes on holding it as it read it, whatever happens to the row
meanwhile (`AsRead`, the identity map of the session); a row its entry refers to is
kept by the foreign key.

`ScoreResult` computes in tenths of a percent and hundredths of a bonus point,
with the two roundings of the code.  The weights of the sections are checked in
millionths, as `SchemeInput` rounds their sum, and kept in thousandths (`Stored`), so
that weights which made one when they were submitted may miss it by a thousandth on
the record.

`PendingAction` follows `confirm` statement by statement: check, claim, run,
finish or fail.  A tool is `plain` (commits nothing), `committing` (commits by
itself, as the group import does) or `retired` (no longer registered).

## 3. Runs

| Run | Instance and bounds | What it shows |
|---|---|---|
| Shapes | one person, two records, all four shapes of chain, in and out of the HR unit, two sheets, two bonuses, two days with the end of the period between them | the transition table and its endpoints: `ResultIsCurrent`, `SealedDocumentIsComplete`, `NoLimbo`, `NoStageIsJumped`, `HolderMovesItOn`, `FinalizedIsSealed`, `HrStaysOutOfItsUnit`, and the refinement `PromiseKept` |
| Staff | setting *accounts*: one record, two shapes, promotions, four relinkings, a second access row, access rows and openings that wait for their commit; setting *moving*: a move into and out of HR, the manager flag, two relinkings, one chain; setting *leaving*: two people, one the other's evaluator, both leaving and returning, two records | `SidesStayApart`, `SeatedSubjectStopsTheRecord`, `RescueExists`, `ShownCanBeOpened` |
| Responses | one record of an HR user, two shapes, three module switches, relinking of the subject, a period of one day, extensions to days 2 and 3, a calendar of four days | `AnswerStaysWithItsObjection`, `JudgeIsNotParty` |
| Races | two people; five concurrent requests of five kinds, or four with two bulk openings; one crash | `OneOpenPerPerson`, `ClosedStaysClosed`, `ChainIsLinear`, `BulkReportIsTrue`, `OpeningNeverDeadlocks`, `EveryRequestEnds` |
| OnceOnly | three confirmations, one rejection, three kinds of tool, two mishaps; four finalized records, one unprintable, one whose rendering raises, two that render and are alike, a batch of two, one download, one restart or failed sweep; two processes, two rows on two channels, every reply, a batch of two, two attempts, one failure | `ExecutedAtMostOnce`, `EventsAreTrue`, `FailureLeavesNothing`, `ExecutionEnds`; `EveryDocumentArrives`; `DuplicateHasACause`, `EveryRowSettles` |
| Office | two versions of a scheme, three indicators, one form, three requests; three questions and seven sets of rules, of which one has weights that thousandths do not keep and three are refused; a file of three rows committed by three requests; two turns in an old and a new conversation with one call and two iterations each, once with an upload and once with cards that are decided; two requests on one plan by three accounts; two writers, four rows, two verifications, one row tampered with; a record of two or three stages, three accounts, two changes; five mixes of up to four requests over one account, two failures allowed, two sessions alive, a clock of four grace periods; four accounts, two requests, two process starts, two permissions; one user of six kinds, two chains, one switched module | `NewestIsActiveSet`; `BetterIsNeverWorse`; `NobodyImportedTwice`; `FailureLeavesOnlyItsCost`, `FailureTakesOnlyItsOwn`; `ClosedPlanKeepsItsGoals`; `VerdictIsTrue`; `EveryStallIsHeard`; `FailuresAreCounted`, `OneHeirPerToken`; `RightsComeFromOthers`; `NoWiderThanTheScreen` |
| Signers, Departed, Seated, Unarchived, LostCost, LateMessage | the smallest instance with the case, or the instance of the passing run it belongs to | the six disagreements of section 5 |

Why the bounds suffice.  The guards of a record read that record, its subject and
its actors; records interact only through the person ("one open record") and
through the accounts, so two records and one spare account per role meet every
pair the code compares.  Two sheets and two bonuses are what a stale result
needs.  Four days are one day each for: inside the period, on the extension, past
it, and past the objection's deadline.  Two rows in a batch of two are
the head and the tail of a queue; two attempts put a retry between the first and
the cap; more mishaps only add duplicates of known cause (`DuplicateHasACause`
counts them).  Two people are what two bulk requests need to block each other in
opposite orders, and a third confirmation finds a card both claimed and settled.
One account is enough for sessions, which never read another account's; three
refreshes are the rotation, the reuse inside the grace period and the reuse
after it.  One form is enough for the rules, since forms meet only in the tables of
schemes and indicators.  A file with one username twice and one code twice,
imported twice beside a creation, is every collision the unique constraints
know.  Two turns are one that fails and one that writes meanwhile.  Three rows
before a verification and one after it are an anchor with something on both
sides, and a row removed from the end of the log is seen by nobody (the code
cannot see it either), which `VerdictIsTrue` allows for.

`today` stops at `MaxDay`, `attempts` of a row that nothing abandons stops
counting at `MaxAttempts + 1` (`Counted`), crashes and the like at `MaxCrashes` or
`MaxMishaps`, failures of the outbox at `MaxFailures`.  The clock of `SignIn`
stops at `MaxTime`, schemes at `MaxSchemes`, units at `MaxUnits`, a turn at the
code's own `MaxIterations` (made small), rows and verifications of the audit at
`MaxRows` and `MaxChecks`, changes from outside at `MaxTampering`, and
reassignments at `MaxChanges`; requests named in a constant are served once each.
Ages in `Reminders` are kept as far as somebody compares them. There is no other
bound.  Deadlock is not checked where the system may stop: requests of
`MCOffice` are served once and then there is nothing to do; every request of
`RecordTransactions` is made once, and a workflow whose only records are closed
and whose administration is switched off has nothing to do.  It is checked in
`MCOnce`, where something outside always can move.  (`ArchiveRests` is the stutter
of an archive with nothing to make.)

Symmetry is not used: the instances are small and their users differ by role.

### Fairness

* `EvaluationWorkflow` and `ResultResponse` state none: people act when they
  like.  Their properties are safety, and `RescueExists` says that the exit
  exists, not that it is taken.
* `RecordTransactions`: weak fairness of *some* statement being executed.  A
  request is finite and a process that has begun one goes on; the database
  detects every deadlock, which is a statement as well (`AbortDeadlock`).
* `DeliverySweep`: some process's scheduler comes round again (`while True` with
  a sleep in `core/scheduler.py`), a sweep that has begun goes on, a back-off
  elapses.  Nothing is assumed of requests, settings or failures.
* `PendingAction`: a decision that has begun goes on unless its process dies.
* `DocumentArchive`: the sweep, which the scheduler starts again and again, and
  nothing else: no task has to survive, nobody has to ask for a document.
* The other modules state none; their properties are safety.  That a reminder is
  *delivered* is `EveryRowSettles`.

## 4. Proofs

All theorems hold for every value of the constants that meets the named
assumptions of the modules, which TLC evaluates on every run: any number of
users, people, records, requests and processes.  What is assumed of them:

* `ConstantsAssumption`: the sheets and the days are what their names say; nobody is
  no account, and no document is not a document.
* `RequestsAssumption`: a request is of one kind and about people; a single opening, a
  departure and a finalization are about one.
* `CardAssumption`, `TurnAssumption`: the identities of requests, uploads and
  conversations differ; limits are natural numbers.
* `SignInAssumption`: finitely many requests; limits and times are natural numbers.
* `AdministrationAssumption`: nobody is no account; what HR holds by default does not
  include giving permissions.
* `PlanAssumption`: nobody is no account; a low score is one of a record.
* `DirectoryAssumption`: the rows of a file are numbered; the names for new accounts are
  not those of evaluators.
* `ScoringRulesAssumption`: the indicators installed are indicators; the migration is nobody.
* `ReminderAssumption`: an evaluation begins in a stage, with a CEO (the column is not
  nullable) and with accounts in its seats.  Nothing is assumed of the order of
  `sla_reminder_days` and `notification_dedup_days`, which `core/config.py:135` and
  `:145` do not compare.
* `ScoreResultAssumption`: finitely many questions, each of one of the two sections; marks
  from 1 to 5; the fields of a submitted set of rules have the types of `SchemeInput`.
  Which of them are accepted is `Valid`, and what the columns make of them `Stored`;
  neither is an assumption.
* `DeliveryAssumption`: finitely many processes, batches and attempts of at least one, a channel
  for each row.

### The workflow (`WorkflowSafety_proofs`)

**`TypeCorrect`.**  `TypeOK` is inductive.  The argument has one lemma per group of
endpoints and two facts about the table: every transition ends in a status of the
enumeration (`TransitionTo`), and each endpoint picks a row of it (`SubmitActionIsOne`,
`HrActionIsOne`).

**`SealedForever`** proves `FinalizedIsSealed` from `TypeOK` alone.  Every transition
starts from an open status (`TransitionFrom`), every tool asks for one, hence every chain
step writes a record that is open or not yet made (`ChainStepActsOnOpen`) and no other
(`ChainStepActsOnOne`); the administration writes only the status of open records
(`StaffStepOnRecords`).

**`HrOutOfItsUnit`** proves `HrStaysOutOfItsUnit`.  It is not inductive by itself:
a record is stamped when it is opened, and nothing in the property says that a
row not yet opened has no owner.  `HrInv` adds that.  The step uses that no
transition bound to the HR seat is open to a stamped record
(`HrSeatNeedsHrStage`), and that claim, handover and comment pass the shield
(`HrHandlesOthers`).

**`NobodyTakesBothSides`** proves `SidesStayApart`.  The two guards of
`self_evaluation.py` each look at one side: writing a seat looks at the link,
writing a link looks at all seats, of access rows and of records in any status.
`SubjectHoldsNoSeat` does not follow, because neither sees a row that is not
committed (run Seated); what does is said of steps, with `Waiting` for the rows that
were written before the link.  `SubjectInv` adds that an opened record is about a
person, without which an account cut loose (`link = Nobody`) could be taken for its
subject.

**`SeatedSubjectDecidesNothing`** proves `SeatedSubjectStopsTheRecord`: what limits the
harm of that race.  Every step that writes the stage, the owner or the result of a
record asks the trigger of its table (`ChainStepAsksTheTrigger`), and a departure asks it
for every record it closes.

### The course of a record (`WorkflowStages_proofs`)

One invariant carries most of it.  `CourseInv` says, of each record, what its status
implies: of its chain (`ShapeAt`), of its scores (`ResultAt`), of the stages behind it
(`StagesAt`) and of its document (`DocumentAt`).  None of the four properties of the runs
is inductive without the others: that a finalized document names an HR signatory rests on
an owner of the HR stage, which rests on the chain having one, which a stamp made
at opening decides.  Each endpoint is first summed up by the statuses it joins and
what its guards say of the chain (a lemma each); `CourseInvStep` then follows
from the summaries.

* **`ResultStaysCurrent`, `SealedDocumentComplete`, `StagesAllPassed`** are parts of the
  invariant.
* **`NobodyWaitsInLimbo`** and **`HolderIsNamed`** follow from it with the table: for every
  shape of chain and every open status there is a row of the table that accepts it, and
  of the rows that do, only the seat the statistics name may take one.
* **`WhatIsShownOpens`** needs nothing of the state: every scope of a list lies within the
  guard of the page, except for the person evaluated, whom a list may show a record in
  whose chain they came to sit.
* **`LateOnlyByExtension`**, **`SomebodyCanClose`** (`RescueExists`) hold of each step, and of
  each typed state.  A record whose subject came to sit in its chain cannot be cancelled
  before the seat is given to somebody else (the trigger refuses the UPDATE), and
  `RescueExists` says so.
* **`WorkflowKeepsItsPromise`** is the refinement.  The initial state maps to an initial
  state; each endpoint opens, submits, sends back, seals or drops one evaluation, or changes
  nothing the promise sees (`Unseen`).  That a seal has the verdict that was under
  review is `ResultAt`; that it is the only evaluation of its person is `OneUnderWay`, which counts
  the record that is inserted and not committed: it holds its place in the index.
* **`ResponsesKeepTheWorkflow`**: `ResultResponse` composed with the workflow implements the
  workflow, so every theorem above holds of the composition
  (`LateOnlyByExtensionThroughout` states one of them there).
* **`AnswersAreFinal`, `JudgesAreNotParty`** rest on `VoiceInv`: an answer has an objection and an
  objection a closed record, which is about a person (`SubjectInv`).  That nobody answers
  to their own evaluation is asked of whoever answers (`AnsweredByAnother`), whatever seat
  they hold.

### Racing requests

**`OneRecordPerPerson`, `ClosedRecordsStayClosed`, `AuditLogIsLinear`,
`BulkAnswersWhatItDid`** (`RecordTransactions_proofs`).  `TransactionsInv` has a part for
each guard of the database.  `KeyInv`: an uncommitted row is the only one of its person,
and no open one is beside it (the unique index and the wait on it).  `LockInv`: a row
that is held is open and is held by one request, so what was found open is still open when it
is written.  `ChainInv`: whoever is between `log_event` and its commit holds the lock of the
chain, and the log has not grown since it read the last row.  `OwnInv`: a request
has rows on disk only when it is over, which is what makes its report true.

**`OpeningsAreNoVictims`** (`RecordTransactions_proofs`) proves `OpeningNeverDeadlocks`.  To
show that a request is in no cycle it is enough to name a set that contains whoever
it waits for, does not contain the request, and is left by no wait.  A
request that waits for a key of the unique index holds keys of people who come before
that one in the order of the names (`OrderInv`), and whoever it waits for either goes on or
waits for a key that comes later: the set is the requests that insert later people, and
those that log, who wait only for the holder of the chain (`InsertersAreInNoCycle`,
`LoggersAreInNoCycle`).  `KindsInv` keeps apart the requests that wait on rows, who are
the departures and finalizations.  The order is that of the cohort as it is read
(`CohortsAreSorted`).

**`EveryFailureCounts`, `TokensHaveOneHeir`** (`Access_proofs`).  The same kind of argument
about the row of attempts (`CountInv`: at most one request is counting, and it has
read the count as it is) and about the row of a session (`HeirInv`: whoever rotates has
read it as not rotated).  The clock stands still between reading and writing,
which is the one abstraction the argument leans on: the code reads the time once per
request.

**`NobodyPromotesThemselves`** (`Access_proofs`).  `RightsComeFromOthers` speaks of rows;
the invariant also has to speak of what a request has decided and not yet written
(`DecidedForOthers`), because the two lie in different statements.

**`ToolsGoNoFurtherThanTheScreen`** (`Access_proofs`) holds of the assistant because `execute_tool` asks again at
confirmation what it asked at the proposal; `CardOfATool` is all the invariant has to add.

**`EachCopyHasItsFailure`** (`Once_proofs`) proves `DuplicateHasACause`, which is far from
inductive: it counts failures, and says nothing of what a sweep has in hand.  The invariant
`Balance` keeps an account of each row.  Three things are added up: the sends that were
acknowledged; the sweeps that go on after they lost the lock and may still send the row, or
overwrite "sent" by "failed" (`Lost`); and what the row is good for to the holder of the lock
or to a sweep to come (`Due`, which is two when the holder has read the row, another row of its
batch is gone, and the commit will therefore forget the send).  No step adds to the sum but a
failure, which adds one to the bound as well.  The lemma `Balanced` reduces every step to the
change of `Due` and to at most one member of `Lost`; there is a lemma for each kind of step.

### Around an evaluation (`Office_proofs`)

**`ClosedPlansAreSettled`.**  `LockInv`: the plan of whoever holds a lock
is open, and two requests never hold the same one.

**`ImportsOnce`** proves `NobodyImportedTwice`.  `RowsDiffer` adds that the rows a request
is about to write have different codes, which the parsing of the file sees to
(`ValidRowsDiffer`).  The insertion finds none of them on file, what another request has
reported is on file, and nothing takes a person off (`StayOnFile`).

**`NewestListsTheActive`** proves `NewestIsActiveSet`.  The members of a version are read before
the version is inserted.  `UpToDate` says that they are still right, unless the version is
taken, and then the insertion fails (`FreshVersion`); from the insertion to the commit every other
one waits, so that two transactions never stand there at once.

**`StallsAreNeverSilenced`** proves `EveryStallIsHeard`.  The window of a reminder of a stall is the
time after which a stage has stalled, so a notice that silences one is younger than the visit; the
invariant adds types, and that whoever has to act is an account (`OwnersAreAccounts`).  Ages are
kept up to `Forgotten`, past the longer of the two settings (`ForgottenIsNat`), so it does not
matter which that is.

### Results and the audit log (`ResultAndTrail_proofs`)

Both rest on an induction, which is made of a least counterexample: a set of numbers has
a least one (`LeastNumber`), a family of subsets of a finite set a smallest one (`SmallestSet`).  The
library's induction theorems take the formula to be proved as an operator and
cannot be used, but these two follow from its well-founded orders.

**`ResultsRise`** proves `BetterIsNeverWorse`, for any set of rules the schema accepts, in the
units of `ScoreResult`, and as the columns keep it (`RulesKept`): the weights need not
make one any more, and the argument does not use that they do.  A section is a fold over its questions; that the fold adds up the terms, one at a time, is
`AddsExists` and `TotalAdds`, that it keeps the order and the bound of its terms
`TotalBounds`.  Rounding to the nearest with ties to even never reverses an order
(`RoundDivRises`) nor passes the whole (`RoundDivCap`), and the chain of roundings, section, mean,
bonus and cap, is one of such steps (`SectionRises`, `BaseRises`, `FinalRises`, `StepRises`).  A section
without questions and sections that weigh nothing are cases of `BaseRises`.

**`WalksAreBelieved`** proves `VerdictIsTrue`.  A verdict compares hashes; what is true is
said of which row was written after which.  The two agree because of the place of a hash in
the chain: every hash has one depth (`DepthIsOne`), the rows lie in the
order of their ids at strictly growing depths, and an earlier row that is not the one
a row was written after lies more than one below it (`Chained`).  So a row names the hash
of the row before it and of no other that may have come into its place
(`SecondToLast`), and a walk is green just when no row lost the one before it or its
content (`WalkTellsTheTruth`), from the beginning as from an anchor.  `RowsInv` is kept by an append
because the lock lets nobody else have rows that are not committed (`AppendKeepsRows`), by everything
else because nothing writes rows.  `VouchedInv` says that the row of an anchor is there with
the hash the anchor keeps, `UntouchedInv` that without tampering every row still has the
one before it, so that no alarm is false.

### The assistant

**`FailedTurnsLeaveTheirCost`, `FailedTurnsTakeTheirOwn`** (`Conversation_proofs`).  `TurnInv`: until
a turn ends, all that is committed of it is its question (`OnlyTheQuestion`), under an
identity nothing else bears (`OwnIdentity`), and its ledger is empty; a turn that
has failed left one row with the calls it had counted and nothing else, and one that
broke off had lost its question or its conversation (`LeavesItsCost`).  The compensation
deletes by identity, so that is what it needs.  Between the count and the deletion
messages only come (`found \subseteq OthersIn(t)`): the row of the question, deleted and
not committed, holds the conversation against everybody who would delete it
(`StillThere`).

**`AtMostOnce`, `EventsTrue`, `FailureClean`, `CardTypeCorrect`**
(`Once_proofs`).  The invariant `Inv` has four parts: a card that is
pending is untouched (`Untouched`), at most one decision is past the claim
(`OneOwner`), what it holds uncommitted is not yet on disk (`Held`), and the
events agree with the disk (`Logged`).  The claim is the only way into the
protected region, and it is atomic; that is the whole reason why tools that
commit by themselves do no harm.

### Only model-checked

The four properties of liveness (`EveryRequestEnds`, `ExecutionEnds`, `EveryDocumentArrives`,
`EveryRowSettles`): the proof system does not reason about `ENABLED`, of which fairness
is made.  Every invariant and every action property a passing run checks is proved;
`LateSubmissionWasExtended` is proved and no run checks it, being close to the guard of the
submission.

`RECURSIVE` is used nowhere.

## 5. Where code and documents disagree

Each has a run that TLC must find violated.

1. **Signers.** HR approves, hands the record over, and the document is signed for
   HR by the new owner, who performed no stage (`services/workflow.py:740`, against
   the docstring at 771-772).
2. **Departed.** A record opened by a request that had read the person as active
   survives their departure (`api/routers/personnel.py:584`, against 562-566).
3. **Seated.** An access row is checked and flushed, and waits for the audit chain
   (`api/routers/evaluation_access.py:126-141`); one of its evaluators is linked to the
   person meanwhile (`api/routers/users.py:277-306`), which sees nothing of the row,
   in the check as in the trigger.  Both are committed, and the person holds a seat of
   their own chain, against the first line of the migration that adds the triggers and
   `services/self_evaluation.py:15-16`.  The opening of a record has the same gap.  What
   comes of it is `SeatedSubjectStopsTheRecord`: the subject decides nothing, and nobody
   else does until the seat is given away.
4. **Unarchived.** A rendering that raises anything but a `RuntimeError`
   (`services/documents.py:54`; `services/pdf.py:134-138` raises that one only when the
   library is missing) leaves the loop of the sweep and undoes the whole run, again and
   again, so that no other record gets its document, against
   `services/scheduled.py:521-524`.
5. **LostCost.** A tool's rollback takes the question the turn had flushed, the service
   fails at the next call, and the deletion of that question raises in the handler: the
   row of the ledger goes with the transaction (`api/routers/ai.py:567`, against 565-566
   and `src/backend/tests/test_ai_turn_atomicity.py:13`).
6. **LateMessage.** The message of an upload or of a decided card that comes between the
   count of the messages and the deletion of the conversation is deleted with it
   (`api/routers/ai.py:572-575`, against the comment at 569, "that stayed empty").

Noticed while modelling, part of the modelled behaviour or just outside it, and
without a run of their own:

* a reviewed record of a chain without a deputy waits for the CEO and is not among
  the cases the assistant names as theirs (`services/ai/tools/evaluations.py:550`; nor
  does the dashboard count it, `api/routers/dashboard.py:790`), although the comment at
  `services/workflow.py:158-165` defines the CEO's desk so that it is;
* the card of `set_evaluation_access` shows a seat that is left out as kept, and its
  confirmation empties it (`services/ai/tools/people.py:1019`, against the comment at
  1071); what a card shows is not modelled;
* a question no score refers to yet is deleted although an open record stamped with an
  older framework asks it, and the form can never be complete
  (`api/routers/indicators.py:182-202`, against `services/indicator_framework.py:78-79`);
* the single-decider flag is computed from the seats at sealing time, so
  reassigning a seat clears it (`models/evaluation.py:314`);
* a role may change between the access row and the opening of the record, which
  leaves a seat nobody can act from (`api/routers/evaluations.py:366`), although
  `personnel.py:630-631` says departure is the only way to vacate a seat;
* a later extension may name an earlier day and closes the record again
  (`services/evaluation_window.py:65-69` says reopening never closes anything);
* an objection has nobody to answer it once the account of its seat is disabled
  after sealing (`api/routers/evaluations.py:1520`);
* after a return the person may still assess themselves (`api/routers/me.py:222`);
* a tool that fails with anything but an HTTP error leaves no event, although the
  answer says the details were logged (`services/ai/confirmations.py:147-158`);
* a decision that had read the proposal before another one settled it may
  overwrite its status with "expired" (`services/ai/confirmations.py:68-72`);
* a deputy who scored in the supervisor's seat may be moved to the deputy's seat and
  then approves their own scores (`api/routers/evaluations.py:1619`, comment at
  1669-1671);
* on a chain that is the CEO alone, of the HR unit, the objection goes to the CEO, who
  gave the scores (`services/workflow.py:828`, against 814-815);
* rows of a channel that is not configured fill the batch of every sweep
  (`services/delivery.py:148`, against 174-176); `EveryRowSettles` therefore asks for
  every channel to be configured in the end;
* a crash between a tool's own commit and the event that records it leaves no event
  (`services/ai/confirmations.py:120`), one between the two commits of a bulk
  opening leaves the evaluators untold (`api/routers/periods.py:483`), and a sweep that
  raises in every run, as that of Unarchived does, starves the reminders and the
  delivery of the same run (`services/scheduled.py:555`); `EveryRowSettles` therefore asks for
  sweeps that fail only so often;
* queries: the deputy's card of records that managers score counts reviewed
  records without a supervisor, a state that path never reaches; an evaluator who
  sits in a lower seat than the role names does not find the record in the list; the
  assistant shows HR their own submitted record, which the list leaves out
  (`services/ai/tools/evaluations.py:531`); the profile of a person names the stage of
  a record whose page is closed to HR;
* accounts: giving oneself the role hr restores its default permissions, and an
  account made an employee keeps its own while the list hides it; two
  processes that start together may both create an administrator; the last account
  that may grant can be lost; a sign-in or refresh that races a change of
  password may survive it;
* rules: deleting a draft scheme that is activated meanwhile deletes the active one; a
  record touched between the reading and the rebinding is rebound all the same; a
  form and its applied bonus need not add up to the final result after rounding;
* directory: a chain a file names can be lost without a word in the report; two units
  can be changed into the same unit;
* conversation: the daily limit does not count questions that are not committed yet; a
  turn holds its database connection while it waits;
* plans: editing a plan asks neither whether it is open nor for its lock; edit,
  completion, cancellation and goals do not ask for the shield of the HR unit;
* documents: a download holds the audit chain's lock while it waits for the
  document;
* reminders: what the sweeps queue is not seen by the delivery of the same run; the
  key of an orphaned plan does not name its owner; the digest is skipped for somebody
  the assistant has written to that day;
* tools: searching people through the assistant reaches more than the list does; a
  card about permissions removes what was granted after it was made; a person
  who has already left can be separated again; a turn's read-only tools run with the
  rights read at its start.

## 6. Not modelled

* Hashing, layout and public verification of documents; the reading of cells in an
  imported file and the content of exports: conversions without a state of their
  own.
* The wording of notices, labels, comments and prompts; attachments; the answers of
  the assistant's read-only tools, except those that say which records concern
  somebody (`WorkQueues`).
* Figures of dashboards, reports and analytics: read only, and arithmetic over what
  the other modules keep true.
* The check that a person has one account (`ensure_personnel_has_one_account`) reads
  without a lock; of two links to one person that race, the model commits one before
  the other looks.
* Creating, closing and deleting a period; names, contact data and photographs of a
  person.  They have no part in the protocols above: a record keeps its own end of
  the period.
* The rate limit: a counter in the memory of one process.
* Configuration, start-up checks, encryption of settings, metrics, schema
  migrations, the front end, the launcher and the deployment.

## 7. Plan

Done: the workflow with its queries, promise and proofs (`Chain`,
`EvaluationWorkflow`, `WorkflowProperties`, `EvaluationPromise`, `WorkQueues`), its
transactions (`RecordTransactions`), the response (`ResultResponse`), delivery,
documents and reminders (`DeliverySweep`, `DocumentArchive`, `Reminders`), the
assistant (`Conversation`, `AssistantTools`, `PendingAction` with its proofs),
accounts and rights (`SignIn`, `Administration`), rules and results
(`ScoringRules`, `ScoreResult`), staff (`Directory`), plans (`ImprovementPlans`) and the
audit (`AuditTrail`).

Left to model: the life of a period, and whether somebody who acts whenever a queue
names them brings every record to its end.

Proved: every invariant and every action property of the passing runs (section 4).

Left to prove: of `DocumentArchive`, that a finalized record has one document however
often the sweep and the recovery meet, which is first to be stated as a property of its
own; and the four liveness properties, which are out of the prover's reach.
