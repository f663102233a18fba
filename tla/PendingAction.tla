--------------------------- MODULE PendingAction ---------------------------
(***************************************************************************)
(* The confirmation point of the assistant (services/ai/confirmations.py): *)
(* a change the model proposed is a card, and it runs when its owner       *)
(* confirms it.  Two tabs may confirm and reject the same card at once,    *)
(* some tools commit by themselves half-way, and the card may expire, be   *)
(* deleted with its conversation, or lose its process at any statement.    *)
(* Cards share nothing: the module is about one of them.                   *)
(***************************************************************************)
EXTENDS Naturals, FiniteSets

CONSTANTS
    Requests,   \* the decisions sent by the browser tabs, each once
    Confirming, \* the ones that confirm; the others reject
    Tools,      \* what the tool of the card may be
    MaxMishaps  \* bound: crashes and deleted conversations

ASSUME CardAssumption ==
    /\ Confirming \subseteq Requests
    /\ Tools \subseteq {"plain", "committing", "retired"}
    /\ MaxMishaps \in Nat

VARIABLES
    tool,      \* whether the tool commits before it returns, or is no longer registered
    card,      \* ai_pending_actions.status, as committed
    stale,     \* the card is past its expires_at
    permitted, \* the owner may still write through the assistant
    effect,    \* how often the change is on disk
    events,    \* audit_log
    pc,        \* the next statement of each decision
    unsaved,   \* decisions whose session holds the change, not committed
    mishaps

vars == <<tool, card, stale, permitted, effect, events, pc, unsaved, mishaps>>

Init ==
    /\ tool \in Tools
    /\ card = "pending"
    /\ stale = FALSE
    /\ permitted = TRUE
    /\ effect = 0
    /\ events = {}
    /\ pc = [t \in Requests |-> "start"]
    /\ unsaved = {}
    /\ mishaps = 0

Finished == {"done", "refused", "crashed"}
InFlight == {t \in Requests : pc[t] \notin {"start"} \cup Finished}

Goto(t, stage) == pc' = [pc EXCEPT ![t] = stage]
Deleted == card = "deleted"

\* Nothing was written: the request only goes on, or ends.
Onwards(t, stage) ==
    /\ Goto(t, stage)
    /\ UNCHANGED <<tool, card, stale, permitted, effect, events, unsaved, mishaps>>

\* A status is committed on its own.
Save(t, status, stage) ==
    /\ card' = status
    /\ Goto(t, stage)
    /\ UNCHANGED <<tool, stale, permitted, effect, events, unsaved, mishaps>>

----------------------------------------------------------------------------
(* confirm                                                                 *)

\* What _pending_or_404 and the guards make of the card as it is read.
Verdict ==
    CASE card # "pending"                                    -> "refused"
      [] card = "pending" /\ stale                           -> "expire"
      [] card = "pending" /\ ~stale /\ ~permitted            -> "refused"
      [] card = "pending" /\ ~stale /\ tool = "retired"      -> "expire"
      [] OTHER                                               -> "claim"

Check(t) ==
    /\ t \in Confirming /\ pc[t] = "start"
    /\ Onwards(t, Verdict)

\* The card is marked by its key, whatever it has become meanwhile.
Expire(t) ==
    /\ pc[t] = "expire"
    /\ IF Deleted THEN Onwards(t, "refused") ELSE Save(t, "expired", "refused")

\* Fault: the claim does not ask what the card is now.
Claimable_Always == ~Deleted

Claimable == card = "pending"

\* _claim_for_execution: one conditional UPDATE, committed at once.
Claim(t) ==
    /\ pc[t] = "claim"
    /\ IF Claimable THEN Save(t, "executing", "run") ELSE Onwards(t, "refused")

\* The tool has written what it had to; some of them commit it.
RunTool(t) ==
    /\ pc[t] = "run"
    /\ IF tool = "committing"
       THEN /\ effect' = effect + 1
            /\ UNCHANGED unsaved
       ELSE /\ unsaved' = unsaved \cup {t}
            /\ UNCHANGED effect
    /\ Goto(t, "finish")
    /\ UNCHANGED <<tool, card, stale, permitted, events, mishaps>>

\* It may fail before it has written, half-way, or on what it still does after
\* its own commit: with a refusal of its own, or with anything else.
ToolFails(t) ==
    /\ pc[t] \in {"run", "finish"}
    /\ \E how \in {"refusal", "error"} : Onwards(t, how)

\* The change an open session holds goes to disk with its next commit.
Flushed(t) == effect + IF t \in unsaved THEN 1 ELSE 0

\* Confirmed: the status, the event and the answer in the conversation are
\* committed together.  A card deleted meanwhile fails that commit.
Finish(t) ==
    /\ pc[t] = "finish"
    /\ IF Deleted
       THEN /\ Goto(t, "refused")
            /\ UNCHANGED <<card, effect, events>>
       ELSE /\ card' = "confirmed"
            /\ effect' = Flushed(t)
            /\ events' = events \cup {"confirmed"}
            /\ Goto(t, "done")
    /\ unsaved' = unsaved \ {t}
    /\ UNCHANGED <<tool, stale, permitted, mishaps>>

\* Fault: the failure is recorded in the session the tool has written to.
Kept_HalfDone(t) == Flushed(t)

\* The rollback throws away what the tool has not committed itself.
Kept(t) == effect

\* Fault: only the failures a tool foresees are recorded.
FailedStatus_Foreseen(t) == IF pc[t] = "refusal" THEN "failed" ELSE card

\* Both kinds of failure end on the card.
FailedStatus(t) == "failed"

\* The two except branches of confirm: only the first one logs an event.
Fail(t) ==
    /\ pc[t] \in {"refusal", "error"}
    /\ card' = IF Deleted THEN card ELSE FailedStatus(t)
    /\ events' = IF ~Deleted /\ pc[t] = "refusal" THEN events \cup {"failed"} ELSE events
    /\ effect' = Kept(t)
    /\ unsaved' = unsaved \ {t}
    /\ Goto(t, "done")
    /\ UNCHANGED <<tool, stale, permitted, mishaps>>

----------------------------------------------------------------------------
(* reject                                                                  *)

ReadToReject(t) ==
    /\ t \notin Confirming /\ pc[t] = "start"
    /\ Onwards(t, IF card = "pending" THEN "reject" ELSE "refused")

\* Fault: the rejection does not ask what the card is now.
Rejectable_AsRead == ~Deleted

Rejectable == card = "pending"

Reject(t) ==
    /\ pc[t] = "reject"
    /\ IF Rejectable
       THEN /\ card' = "rejected"
            /\ events' = events \cup {"rejected"}
            /\ Goto(t, "done")
            /\ UNCHANGED <<tool, stale, permitted, effect, unsaved, mishaps>>
       ELSE Onwards(t, "refused")

----------------------------------------------------------------------------
(* Around the decision.                                                    *)

\* A day passes.
Expires ==
    /\ ~stale
    /\ stale' = TRUE
    /\ UNCHANGED <<tool, card, permitted, effect, events, pc, unsaved, mishaps>>

\* An administrator withdraws the owner's right to write, or gives it back.
TogglePermission ==
    /\ permitted' = ~permitted
    /\ UNCHANGED <<tool, card, stale, effect, events, pc, unsaved, mishaps>>

Mishap == mishaps < MaxMishaps /\ mishaps' = mishaps + 1

\* The cards go with their conversation.
DeleteConversation ==
    /\ Mishap
    /\ ~Deleted
    /\ card' = "deleted"
    /\ UNCHANGED <<tool, stale, permitted, effect, events, pc, unsaved>>

\* The sweep: decided cards and forgotten ones, thirty days on.  No request
\* lasts that long.
Purge ==
    /\ stale /\ ~Deleted
    /\ InFlight = {}
    /\ card' = "deleted"
    /\ UNCHANGED <<tool, stale, permitted, effect, events, pc, unsaved, mishaps>>

Crash(t) ==
    /\ Mishap
    /\ pc[t] \notin {"start"} \cup Finished
    /\ Goto(t, "crashed")
    /\ unsaved' = unsaved \ {t}
    /\ UNCHANGED <<tool, card, stale, permitted, effect, events>>

----------------------------------------------------------------------------
\* A request that has begun goes on; when it comes, and whether, is nobody's
\* duty.
Begin(t) == Check(t) \/ ReadToReject(t)

Works(t) ==
    \/ Expire(t) \/ Claim(t) \/ RunTool(t) \/ ToolFails(t) \/ Finish(t) \/ Fail(t)
    \/ Reject(t)

Next ==
    \/ \E t \in Requests : Begin(t) \/ Works(t) \/ Crash(t)
    \/ Expires \/ DeleteConversation \/ Purge \/ TogglePermission

Spec == Init /\ [][Next]_vars

FairSpec == Spec /\ \A t \in Requests : WF_vars(Works(t))

----------------------------------------------------------------------------
(* Properties.                                                             *)

\* The type of every variable.
CardTypeOK ==
    /\ tool \in Tools
    /\ card \in {"pending", "executing", "confirmed", "failed", "rejected", "expired", "deleted"}
    /\ stale \in BOOLEAN /\ permitted \in BOOLEAN
    /\ effect \in Nat
    /\ events \subseteq {"confirmed", "failed", "rejected"}
    /\ pc \in [Requests -> {"start", "expire", "claim", "run", "finish", "refusal", "error",
                            "reject"} \cup Finished]
    /\ unsaved \subseteq Requests
    /\ mishaps \in 0 .. MaxMishaps

\* However many tabs confirm the card, and whatever fails or dies in between,
\* its change is made at most once (_claim_for_execution, M-7: a lock would
\* not do, the tools that commit themselves would let go of it half-way).
ExecutedAtMostOnce == effect <= 1 /\ (effect = 1 => unsaved = {})

\* The event log does not contradict what was done: a rejected change is on
\* no disk, a confirmed one is (the conditional claim of reject and confirm;
\* the event and the change share a commit).
EventsAreTrue ==
    /\ "rejected" \in events => effect = 0 /\ "confirmed" \notin events
    /\ "confirmed" \in events => effect = 1

\* A card that says its change failed left nothing of it behind, unless the
\* tool had committed it itself (H-3: the rollback before the status).
FailureLeavesNothing ==
    tool # "committing" /\ ("failed" \in events \/ card = "failed") => effect = 0

\* A claimed card does not stay "executing" for good, unless the process that
\* had claimed it died.
ExecutionEnds ==
    (card = "executing") ~> (card # "executing" \/ \E t \in Requests : pc[t] = "crashed")
=============================================================================
