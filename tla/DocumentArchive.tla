--------------------------- MODULE DocumentArchive ---------------------------
(***************************************************************************)
(* The archived document of a finalized evaluation: rendered once, after   *)
(* the finalization has committed, by a background task of the process     *)
(* that served it, by whoever downloads the document first, or by the      *)
(* scheduler's sweep over what is still missing.                           *)
(*                                                                         *)
(* A finalization that gets no document loses nothing else, so the task    *)
(* swallows every failure and the sweep is what the promise "it will be    *)
(* made in the end" rests on: a task dies with its process, the rendering  *)
(* library may be missing until a restart, a rendering may fail.  The      *)
(* sweep itself swallows a RuntimeError only; any other error of a         *)
(* rendering leaves it and undoes the run, the next one meets the same     *)
(* record again.                                                           *)
(***************************************************************************)
EXTENDS Naturals, Sequences, FiniteSets, FiniteSetsExt, SequencesExt

CONSTANTS Records,
          Unprintable,  \* records whose snapshot cannot be rendered
          Raising,      \* those of them whose error is not a RuntimeError
          Batch,        \* _DOCUMENT_BACKFILL_BATCH
          Downloads,    \* requests for a document
          MaxMishaps    \* bound: restarts and sweeps that fail

ArchiveAssumption ==
    /\ Raising \subseteq Unprintable /\ Unprintable \subseteq Records
    /\ Batch \in Nat \ {0} /\ MaxMishaps \in Nat

VARIABLES finalized, \* the finalized records, in that order
          document,  \* records that have a document
          tasks,     \* background tasks: those waiting and those rendering
          download,  \* what each request is at
          sweep,     \* the sweep's records still to do and those it has done
          library,   \* WeasyPrint can be imported in this process
          mishaps

vars == <<finalized, document, tasks, download, sweep, library, mishaps>>

NoSweep == [on |-> FALSE, todo |-> <<>>, made |-> {}]
NoRequest == [pc |-> "idle", of |-> "none"]

Init == /\ finalized = <<>>
        /\ document = {}
        /\ tasks = [waiting |-> {}, rendering |-> {}]
        /\ download = [d \in Downloads |-> NoRequest]
        /\ sweep = NoSweep
        /\ library \in BOOLEAN
        /\ mishaps = 0

Mishap == mishaps < MaxMishaps /\ mishaps' = mishaps + 1

\* The document can be made here and now.
Renders(r) == library /\ r \notin Unprintable

\* An insert waits for the sweep's own insert of the same document; when that
\* commits, the unique index turns the wait into "it is already there".
NotBeingInserted(r) == r \notin sweep.made

\* -------------------------------------------------- finalization and its task

Finalize(r) ==
    /\ r \notin Range(finalized)
    /\ finalized' = Append(finalized, r)
    /\ tasks' = [tasks EXCEPT !.waiting = @ \union {r}]
    /\ UNCHANGED <<document, download, sweep, library, mishaps>>

\* The task finds no document and begins to render, or has nothing to do.
TaskBegins(r) ==
    /\ r \in tasks.waiting
    /\ tasks' = [waiting |-> tasks.waiting \ {r},
                 rendering |-> tasks.rendering \union
                     (IF r \notin document /\ library THEN {r} ELSE {})]
    /\ UNCHANGED <<finalized, document, download, sweep, library, mishaps>>

TaskEnds(r) ==
    /\ r \in tasks.rendering /\ NotBeingInserted(r)
    /\ document' = IF Renders(r) THEN document \union {r} ELSE document
    /\ tasks' = [tasks EXCEPT !.rendering = @ \ {r}]
    /\ UNCHANGED <<finalized, download, sweep, library, mishaps>>

\* ------------------------------------------------------------------ download

\* Without the library the request is refused before it looks.
Ask(d, r) ==
    /\ r \in Range(finalized) /\ library /\ download[d].pc = "idle"
    /\ download' = [download EXCEPT ![d] =
                       [pc |-> IF r \in document THEN "served" ELSE "rendering", of |-> r]]
    /\ UNCHANGED <<finalized, document, tasks, sweep, library, mishaps>>

\* The response carries the archived bytes, or the rendering has failed.
Serve(d) ==
    /\ download[d].pc = "rendering" /\ NotBeingInserted(download[d].of)
    /\ LET r == download[d].of
       IN /\ document' = IF Renders(r) THEN document \union {r} ELSE document
          /\ download' = [download EXCEPT ![d].pc = IF r \in document' THEN "served" ELSE "failed"]
    /\ UNCHANGED <<finalized, tasks, sweep, library, mishaps>>

\* ----------------------------------------------------------------- the sweep

\* Fault: the batch is not restricted to what is missing.
Missing_Any == finalized

Missing == SelectSeq(finalized, LAMBDA r : r \notin document)

NextBatch == SubSeq(Missing, 1, Min({Batch, Len(Missing)}))

SweepBegins ==
    /\ ~sweep.on /\ library
    /\ sweep' = [on |-> TRUE, made |-> {}, todo |-> NextBatch]
    /\ UNCHANGED <<finalized, document, tasks, download, library, mishaps>>

\* The next of the batch; a rendering that fails with a RuntimeError is passed
\* over.
SweepArchives ==
    /\ sweep.on /\ sweep.todo # <<>> /\ Head(sweep.todo) \notin Raising
    /\ LET r == Head(sweep.todo)
       IN sweep' = [sweep EXCEPT !.todo = Tail(@),
                       !.made = IF Renders(r) /\ r \notin document THEN @ \union {r} ELSE @]
    /\ UNCHANGED <<finalized, document, tasks, download, library, mishaps>>

\* Any other error leaves the loop: the run ends, and what it made is undone.
SweepRaises ==
    /\ sweep.on /\ sweep.todo # <<>> /\ Head(sweep.todo) \in Raising
    /\ sweep' = NoSweep
    /\ UNCHANGED <<finalized, document, tasks, download, library, mishaps>>

\* One commit for the whole run.
SweepCommits ==
    /\ sweep.on /\ sweep.todo = <<>>
    /\ document' = document \union sweep.made
    /\ sweep' = NoSweep
    /\ UNCHANGED <<finalized, tasks, download, library, mishaps>>

\* Any other part of the run raises, and everything of the run is undone.
SweepFails ==
    /\ Mishap /\ sweep.on
    /\ sweep' = NoSweep
    /\ UNCHANGED <<finalized, document, tasks, download, library>>

\* Tasks, requests and the sweep die with the process.
Restart ==
    /\ Mishap
    /\ tasks' = [waiting |-> {}, rendering |-> {}]
    /\ download' = [d \in Downloads |->
                       IF download[d].pc = "rendering" THEN NoRequest ELSE download[d]]
    /\ sweep' = NoSweep
    /\ library' \in BOOLEAN
    /\ UNCHANGED <<finalized, document>>

Sweep == SweepBegins \/ SweepArchives \/ SweepRaises \/ SweepCommits

Next == \/ \E r \in Records : Finalize(r) \/ TaskBegins(r) \/ TaskEnds(r)
        \/ \E d \in Downloads : Serve(d) \/ \E r \in Records : Ask(d, r)
        \/ Sweep \/ SweepFails \/ Restart

\* The scheduler's loop keeps running; nobody has to ask for a document, and
\* no task has to survive.
ArchiveSpec == Init /\ [][Next]_vars /\ WF_vars(Sweep)

-----------------------------------------------------------------------------

\* The records that can be printed and have no document yet.
Backlog == Range(finalized) \ (Unprintable \cup document)

\* The next batch holds a record whose rendering raises.
Jammed == Range(NextBatch) \intersect Raising # {}

\* Where the library stays installed and no record of the next batch raises,
\* every finalized record that can be printed gets its document, whatever died
\* on the way and although some cannot be printed: the backlog is emptied again
\* and again.  (It takes that fewer records than a batch cannot be printed.)
EveryDocumentArrives == (library /\ Backlog # {}) ~> (Backlog = {} \/ ~library \/ Jammed)

\* run_document_backfill_sweep (scheduled.py:521-524) is "the guarantee that it
\* is made in the end", a failing rendering among the reasons it names.  Not kept
\* by the code: one record whose rendering raises keeps every other from its
\* document.
TheSweepGuarantees == (library /\ Backlog # {}) ~> (Backlog = {} \/ ~library)
=============================================================================
