------------------------------- MODULE MCOnce -------------------------------
(***************************************************************************)
(* Three places where several processes and a crash race for something     *)
(* that is to be done once: the decisions of several tabs on one card of   *)
(* the assistant (PendingAction), the makers of one document               *)
(* (DocumentArchive), and two replicas that empty the outbox               *)
(* (DeliverySweep).  They share no state: every behaviour is of one part,  *)
(* the others stay as they began.                                          *)
(***************************************************************************)
EXTENDS PendingAction, DeliveryProperties

CONSTANTS yes1, yes2, yes3, no1, w1, w2, email, sms

VARIABLES part,
          finalized, document, tasks, download, sweep, library, accidents

archive == <<finalized, document, tasks, download, sweep, library, accidents>>

Archive == INSTANCE DocumentArchive WITH
    Records <- {"r1", "r2", "r3", "r4"}, Unprintable <- {"r1", "r4"}, Raising <- {"r4"},
    Batch <- 2, Downloads <- {"d1"}, MaxMishaps <- 1, mishaps <- accidents

\* The oldest row goes by SMS, the rest by e-mail.
SmsFirst == [r \in Rows |-> IF r = 1 THEN sms ELSE email]

\* Between them the two rows see every reply: the SMS service misbehaves or
\* refuses for good, the mail server stalls and recovers.
AnyReply == [r \in Rows |-> IF r = 1 THEN {"unexpected", "permanent"}
                            ELSE {"ok", "transient"}]

ASSUME Archive!ArchiveAssumption

everything == <<part, vars, archive, sweepVars>>

OnceInit ==
    /\ part \in {"card", "archive", "outbox"}
    /\ Init /\ Archive!Init /\ SweepInit
    /\ part # "archive" => ~library
    /\ part # "card" => tool = "plain"

CardNext == part = "card" /\ Next /\ UNCHANGED <<part, archive, sweepVars>>

\* The records r2 and r3 are alike, so r3 may be the later one.
ArchiveNext ==
    /\ part = "archive" /\ Archive!Next /\ UNCHANGED <<part, vars, sweepVars>>
    /\ \A i \in DOMAIN finalized' :
           finalized'[i] = "r3" => \E j \in 1..i : finalized'[j] = "r2"

OutboxNext == part = "outbox" /\ SweepNext /\ UNCHANGED <<part, vars, archive>>

\* When every document is made, or the library is missing for good, the archive
\* has nothing to do; a card has until it is deleted, an owner's right to lose.
ArchiveRests == part = "archive" /\ UNCHANGED everything

\* The fairness of each part is that of its own specification.
OnceSpec ==
    /\ OnceInit /\ [][CardNext \/ ArchiveNext \/ OutboxNext \/ ArchiveRests]_everything
    /\ \A t \in Requests : WF_vars(part = "card" /\ Works(t))
    /\ WF_archive(part = "archive" /\ Archive!Sweep)
    /\ WF_sweepVars(part = "outbox" /\ \E w \in Workers : AcquireLeaderLock(w))
    /\ \A w \in Workers : WF_sweepVars(part = "outbox" /\ Sweeps(w))
    /\ \A r \in Rows : WF_sweepVars(part = "outbox" /\ BackoffElapses(r))

\* The archive alone, its tasks no less fair than its sweep.
ArchiveOnly ==
    /\ OnceInit /\ part = "archive" /\ [][ArchiveNext \/ ArchiveRests]_everything
    /\ WF_archive(Archive!Sweep)
    /\ \A r \in {"r1", "r2", "r3", "r4"} :
           WF_archive(Archive!TaskBegins(r)) /\ WF_archive(Archive!TaskEnds(r))

\* run_document_backfill_sweep: every printable document is made in the end,
\* unless the rendering of another raises (DocumentArchive).
EveryDocumentArrives == Archive!EveryDocumentArrives

\* What its docstring promises, without the exception (not kept by the code).
TheSweepGuarantees == Archive!TheSweepGuarantees
=============================================================================
