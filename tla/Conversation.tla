---------------------------- MODULE Conversation ----------------------------
(***************************************************************************)
(* A turn of the assistant's conversation: the request that opens or       *)
(* continues a conversation, the loop of provider calls and tool calls,    *)
(* the commits between its steps, the rolling summary, the ledger of       *)
(* spending and the two ways a turn ends.                                  *)
(*                                                                         *)
(* A turn is one database session.  What it has flushed is its own until a *)
(* commit, and the loop commits after a tool call but not before the first *)
(* one, so `turn[t].question' says where the user's message is: "flushed"  *)
(* (in the session only), "kept" (committed) or "gone" (rolled back).      *)
(* While a turn awaits the provider, and between two of its statements,    *)
(* other turns, uploads, decisions on cards and deletions of the same      *)
(* conversation run.                                                       *)
(*                                                                         *)
(* The provider is external: it answers with a text, with tool calls, with *)
(* a cut answer, refuses the tool protocol, or fails.  Texts and tool      *)
(* arguments are abstracted to the way a call ends.                        *)
(***************************************************************************)
EXTENDS Naturals, Sequences, FiniteSets, FiniteSetsExt

CONSTANTS Turns,         \* chat requests
          Fresh,         \* those that name no conversation and open their own
          Uploads,       \* files attached to a conversation
          Old,           \* the conversation the other turns continue
          Decider,       \* whoever confirms or rejects a card
          Window,        \* HISTORY_WINDOW
          RefreshAfter,  \* messages out of the window that are worth a summary
          MaxIterations, \* max_tool_iterations
          MaxCalls,      \* bound on the tool calls of one answer
          DailyLimit     \* the user's messages a day

TurnAssumption ==
    /\ Fresh \subseteq Turns /\ Old \notin Turns /\ Uploads \cap Turns = {}
    /\ Decider \notin Turns
    /\ {Window, RefreshAfter, MaxIterations} \subseteq Nat \ {0}
    /\ {MaxCalls, DailyLimit} \subseteq Nat

VARIABLES convos,    \* the conversations that exist
          messages,  \* committed messages: [id, of, role, by]
          cards,     \* committed proposals: [of, by, nr, decided]
          summary,   \* per conversation: what the text covers, and through
          ledger,    \* per turn, its rows in the ledger of spending: [calls, failed]
          turn,      \* the requests
          nextId,    \* the sequence of message ids
          staged     \* uploads done

conversationVars == <<convos, messages, cards, summary, ledger, turn, nextId, staged>>

Conversations == Turns \union {Old}
ConversationOf(t) == IF t \in Fresh THEN t ELSE Old

NoSummary == [covers |-> {}, through |-> 0]
NotStarted == [pc |-> "new", step |-> 0, calls |-> 0, native |-> TRUE,
               queue |-> <<>>, question |-> "none", id |-> 0,
               sees |-> NoSummary, fold |-> {}, found |-> {}]

\* How one tool call of an answer ends.  "unread": no such tool, or arguments
\* that are not a JSON object; "refused": the guard or the read-only mode says
\* no, which is logged; "breaks": the handler raises; "read": it answers;
\* "card": a risky tool becomes a proposal.
CallKinds == {"unread", "refused", "breaks", "read", "card"}
Answers == UNION {[1 .. n -> CallKinds] : n \in 1 .. MaxCalls}

ConversationInit ==
        /\ convos = {Old}
        /\ messages = {} /\ cards = {} /\ staged = {}
        /\ ledger = [t \in Turns |-> <<>>]
        /\ summary = [c \in Conversations |-> NoSummary]
        /\ turn = [t \in Turns |-> NotStarted]
        /\ nextId = 1

Ids(ms, c) == {m.id : m \in {x \in ms : x.of = c}}
Question(t) == [id |-> turn[t].id, of |-> ConversationOf(t), role |-> "user", by |-> t]

\* ---------------------------------------------------------------- opening

\* The limit counts what is committed: the question of a turn under way is not.
Used == Cardinality({m \in messages : m.role = "user"})

Refuse(t) ==
    /\ turn[t].pc = "new"
    /\ Used >= DailyLimit \/ (t \notin Fresh /\ Old \notin convos)
    /\ turn' = [turn EXCEPT ![t].pc = "refused"]
    /\ UNCHANGED <<convos, messages, cards, summary, ledger, nextId, staged>>

Open(t) ==
    /\ turn[t].pc = "new"
    /\ Used < DailyLimit
    /\ t \in Fresh \/ Old \in convos
    /\ turn' = [turn EXCEPT ![t] = [NotStarted EXCEPT
                    !.pc = "asking", !.question = "flushed", !.id = nextId,
                    !.sees = summary[ConversationOf(t)]]]
    /\ nextId' = nextId + 1
    /\ UNCHANGED <<convos, messages, cards, summary, ledger, staged>>

\* --------------------------------------------------------------- the loop

\* What a commit of turn t makes visible.
Kept(t) == IF turn[t].question = "flushed" THEN {Question(t)} ELSE {}
Opened(t) == IF turn[t].question = "flushed" THEN {ConversationOf(t)} ELSE {}
AfterCommit(t) == IF turn[t].question = "flushed" THEN "kept" ELSE turn[t].question

\* A row of this conversation can be written: the conversation is there, or is
\* in the session.
Writable(t) == ConversationOf(t) \in convos \union Opened(t)

\* The service does not know the tool schema: the same step is tried once more
\* in the substitute protocol.
SwitchProtocol(t) ==
    /\ turn[t].pc = "asking" /\ turn[t].native
    /\ turn' = [turn EXCEPT ![t].native = FALSE]
    /\ UNCHANGED <<convos, messages, cards, summary, ledger, nextId, staged>>

\* The final text, or an answer cut in the middle of a tool call, which ends
\* the loop without running it.
AnswerText(t) ==
    /\ turn[t].pc = "asking"
    /\ turn' = [turn EXCEPT ![t].pc = "folding", ![t].calls = @ + 1]
    /\ UNCHANGED <<convos, messages, cards, summary, ledger, nextId, staged>>

AnswerTools(t) ==
    /\ turn[t].pc = "asking"
    /\ \E q \in Answers : turn' = [turn EXCEPT ![t].pc = "tools", ![t].queue = q,
                                               ![t].calls = @ + 1]
    /\ UNCHANGED <<convos, messages, cards, summary, ledger, nextId, staged>>

\* Where the loop stands when the first call of the queue is done.
Advance(t, tr) ==
    LET left == Tail(tr.queue)
        last == tr.step + 1 = MaxIterations
    IN [tr EXCEPT !.queue = left,
                  !.step = IF left = <<>> THEN @ + 1 ELSE @,
                  !.pc = IF left # <<>> THEN "tools"
                         ELSE IF last THEN "folding" ELSE "asking"]

Broken(t) == turn' = [turn EXCEPT ![t].pc = "broken"]

\* A call that could not be read is answered to the model and not committed.
SkipCall(t) ==
    /\ turn[t].pc = "tools" /\ Head(turn[t].queue) = "unread"
    /\ turn' = [turn EXCEPT ![t] = Advance(t, @)]
    /\ UNCHANGED <<convos, messages, cards, summary, ledger, nextId, staged>>

\* A read or a logged refusal: the step's commit keeps the session's rows.
RunCall(t) ==
    /\ turn[t].pc = "tools" /\ Head(turn[t].queue) \in {"read", "refused"}
    /\ messages' = messages \union Kept(t)
    /\ convos' = convos \union Opened(t)
    /\ turn' = [turn EXCEPT ![t] = [Advance(t, @) EXCEPT !.question = AfterCommit(t)]]
    /\ UNCHANGED <<cards, summary, ledger, nextId, staged>>

\* A proposal, committed with its step; without its conversation the insert
\* fails and the request ends in an internal error.
Propose(t) ==
    /\ turn[t].pc = "tools" /\ Head(turn[t].queue) = "card"
    /\ IF Writable(t)
         THEN /\ messages' = messages \union Kept(t)
              /\ convos' = convos \union Opened(t)
              /\ cards' = cards \union {[of |-> ConversationOf(t), by |-> t,
                                         nr |-> Cardinality({c \in cards : c.by = t}),
                                         decided |-> FALSE]}
              /\ turn' = [turn EXCEPT ![t] = [Advance(t, @) EXCEPT !.question = AfterCommit(t)]]
         ELSE Broken(t) /\ UNCHANGED <<messages, convos, cards>>
    /\ UNCHANGED <<summary, ledger, nextId, staged>>

\* What the failing tool's rollback leaves of the session's question.
AfterRollback(q) == IF q = "flushed" THEN "gone" ELSE q

\* A tool that raises: its writes are rolled back, the failure is logged and
\* committed.
RollBackTool(t) ==
    /\ turn[t].pc = "tools" /\ Head(turn[t].queue) = "breaks"
    /\ turn' = [turn EXCEPT ![t] = [Advance(t, turn[t]) EXCEPT !.question = AfterRollback(@)]]
    /\ UNCHANGED <<convos, messages, cards, summary, ledger, nextId, staged>>

\* ------------------------------------------------------------ the summary

\* The conversation as the session last read it: a session that has committed
\* or rolled back reads it again.
Seen(t) == IF turn[t].question = "flushed" THEN turn[t].sees ELSE summary[ConversationOf(t)]

Newest(ids, n) == {i \in ids : Cardinality({j \in ids : j > i}) < n}

\* Messages out of the window that the summary has not reached.
PendingMessages(t) ==
    LET ids == Ids(messages \union Kept(t), ConversationOf(t))
    IN {i \in ids \ Newest(ids, Window) : i > Seen(t).through}

\* The conversation a committed session holds may have been deleted since.
Deleted(t) == turn[t].question = "kept" /\ ConversationOf(t) \notin convos
Vanished(t) == ConversationOf(t) \notin convos \union Opened(t)

LoseConversation(t) ==
    /\ turn[t].pc \in {"folding", "summarising"} /\ Vanished(t)
    /\ Broken(t)
    /\ UNCHANGED <<convos, messages, cards, summary, ledger, nextId, staged>>

AskSummary(t) ==
    /\ turn[t].pc = "folding" /\ ~Vanished(t)
    /\ Cardinality(PendingMessages(t)) >= RefreshAfter
    /\ turn' = [turn EXCEPT ![t].pc = "summarising", ![t].sees = Seen(t),
                            ![t].fold = PendingMessages(t)]
    /\ UNCHANGED <<convos, messages, cards, summary, ledger, nextId, staged>>

\* ------------------------------------------------------------- the answer

\* One row for the turn.
Record(calls, failed) == [calls |-> Max({1, calls}), failed |-> failed]
Charge(t, calls, failed) ==
    ledger' = [ledger EXCEPT ![t] = Append(@, Record(calls, failed))]

\* The calls of the turn, the summary's own among them.
CallsWith(t, n) == turn[t].calls + n

\* The reply, the ledger's row and the summary, in one commit.  `n' provider
\* calls were made for the summary and `text' says whether they gave one.  A
\* service that counts no tokens leaves no row.
Reply(t, n, text) ==
    LET c == ConversationOf(t)
    IN /\ messages' = messages \union Kept(t)
                        \union {[id |-> nextId, of |-> c, role |-> "assistant", by |-> t]}
       /\ nextId' = nextId + 1
       /\ convos' = convos \union Opened(t)
       /\ Charge(t, CallsWith(t, n), FALSE) \/ ledger' = ledger
       /\ summary' = IF text
                     THEN [summary EXCEPT ![c] =
                            [covers |-> turn[t].sees.covers \union turn[t].fold,
                             through |-> Max(turn[t].fold)]]
                     ELSE summary
       /\ turn' = [turn EXCEPT ![t].pc = "answered", ![t].question = AfterCommit(t),
                               ![t].calls = @ + n]
       /\ UNCHANGED <<cards, staged>>

ReplyOnly(t) ==
    /\ turn[t].pc = "folding" /\ ~Vanished(t)
    /\ Cardinality(PendingMessages(t)) < RefreshAfter
    /\ Reply(t, 0, FALSE)

\* The summary's call gives a text, gives nothing, or fails, which is swallowed.
ReplyAndFold(t) ==
    /\ turn[t].pc = "summarising" /\ ~Vanished(t)
    /\ \E got \in {<<1, TRUE>>, <<1, FALSE>>, <<0, FALSE>>} : Reply(t, got[1], got[2])

\* ------------------------------------------------------------ the failure

\* Fault: a failure keeps the unanswered question in the history.
WithoutQuestion_Kept(t) == messages

\* The history without the question of the failed turn.
WithoutQuestion(t) == messages \ {Question(t)}

\* What is in the conversation besides the question, as this session reads it.
OthersIn(t) == Ids(messages, ConversationOf(t)) \ {turn[t].id}

\* The service fails.  The handler writes the ledger's row, deletes the question
\* and, if this turn opened the conversation, counts what else is in it: its
\* transaction is open, and its row holds the conversation.
CountOthers(t) ==
    /\ turn[t].pc = "asking" /\ turn[t].question # "gone" /\ ~Deleted(t)
    /\ turn' = [turn EXCEPT ![t].pc = "failing",
                            ![t].found = IF t \in Fresh THEN OthersIn(t) ELSE {}]
    /\ UNCHANGED <<convos, messages, cards, summary, ledger, nextId, staged>>

\* Fault: nobody asks whether the conversation is empty.
LeftEmpty_Any(t) == t \in Fresh

\* The conversation goes with the turn that opened it, if that found nothing
\* else in it.
LeftEmpty(t) == t \in Fresh /\ turn[t].found = {}

\* The conversation is deleted with everything that hangs on it by then, and
\* the handler commits.
FailTurn(t) ==
    /\ turn[t].pc = "failing"
    /\ Charge(t, turn[t].calls, TRUE)
    /\ IF LeftEmpty(t)
         THEN /\ convos' = convos \ {t}
              /\ messages' = {m \in WithoutQuestion(t) : m.of # t}
              /\ cards' = {c \in cards : c.of # t}
         ELSE messages' = WithoutQuestion(t) /\ UNCHANGED <<convos, cards>>
    /\ turn' = [turn EXCEPT ![t].pc = "failed"]
    /\ UNCHANGED <<summary, nextId, staged>>

\* Deleting a question the session has lost, or one whose conversation another
\* request has deleted, raises inside the handler of the failure: nothing of it
\* is committed, the ledger's row neither.
FailToFail(t) ==
    /\ turn[t].pc = "asking" /\ (turn[t].question = "gone" \/ Deleted(t))
    /\ Broken(t)
    /\ UNCHANGED <<convos, messages, cards, summary, ledger, nextId, staged>>

\* --------------------------------------------- what other requests do meanwhile

\* The session of t has written a row of its conversation and not committed it.
Holds(t) == \/ turn[t].pc = "failing"
            \/ /\ turn[t].question = "flushed"
               /\ turn[t].pc \notin {"answered", "failed", "broken"}

\* A deletion waits for the sessions that hold a row of the conversation.
DeleteConversation(c) ==
    /\ c \in convos
    /\ \A t \in Turns : ConversationOf(t) = c => ~Holds(t)
    /\ convos' = convos \ {c}
    /\ messages' = {m \in messages : m.of # c}
    /\ cards' = {k \in cards : k.of # c}
    /\ summary' = [summary EXCEPT ![c] = NoSummary]
    /\ UNCHANGED <<ledger, turn, nextId, staged>>

\* A staged file leaves the assistant's notice in the conversation.
UploadAttachment(u, c) ==
    /\ u \notin staged /\ c \in convos
    /\ staged' = staged \union {u}
    /\ messages' = messages \union {[id |-> nextId, of |-> c, role |-> "assistant", by |-> u]}
    /\ nextId' = nextId + 1
    /\ UNCHANGED <<convos, cards, summary, ledger, turn>>

\* A card is confirmed or rejected, which leaves a message in its conversation,
\* or it fails or has expired, which leaves none.
DecideCard(k) ==
    /\ ~k.decided
    /\ cards' = (cards \ {k}) \union {[k EXCEPT !.decided = TRUE]}
    /\ \/ /\ messages' = messages \union
               {[id |-> nextId, of |-> k.of, role |-> "assistant", by |-> Decider]}
          /\ nextId' = nextId + 1
       \/ UNCHANGED <<messages, nextId>>
    /\ UNCHANGED <<convos, summary, ledger, turn, staged>>

TurnNext(t) ==
    \/ Refuse(t) \/ Open(t)
    \/ SwitchProtocol(t) \/ AnswerText(t) \/ AnswerTools(t)
    \/ SkipCall(t) \/ RunCall(t) \/ Propose(t) \/ RollBackTool(t)
    \/ LoseConversation(t) \/ AskSummary(t) \/ ReplyOnly(t) \/ ReplyAndFold(t)
    \/ CountOthers(t) \/ FailTurn(t) \/ FailToFail(t)

ConversationNext ==
        \/ \E t \in Turns : TurnNext(t)
        \/ \E c \in Conversations : DeleteConversation(c)
        \/ \E u \in Uploads, c \in Conversations : UploadAttachment(u, c)
        \/ \E k \in cards : DecideCard(k)

ConversationSpec == ConversationInit /\ [][ConversationNext]_conversationVars

-----------------------------------------------------------------------------

\* A failed turn leaves no trace in the conversation: not its question, and not
\* the conversation it opened unless somebody else has put something in it,
\* while every call it made stays in the ledger, exactly once.  A turn that
\* broke off instead had lost its question to a tool's rollback, or its
\* conversation to a deletion.
FailureLeavesOnlyItsCost ==
    \A t \in Turns :
        /\ turn[t].pc = "failed" =>
             /\ \A m \in messages : m.by # t
             /\ t \in convos => Ids(messages, t) # {}
             /\ ledger[t] = <<Record(turn[t].calls, TRUE)>>
        /\ turn[t].pc = "broken" =>
             turn[t].question = "gone" \/ ConversationOf(t) \notin convos

\* "The ledger stays" (tests/test_ai_turn_atomicity.py:13): a turn that has
\* called the service and did not get its answer is in the ledger.  Not kept by
\* the code: a turn that breaks off takes its row with it.
TheLedgerStays ==
    \A t \in Turns : turn[t].pc \in {"failed", "broken"} /\ turn[t].calls > 0
                           => ledger[t] # <<>>

\* A failing turn takes away no message but its own question and what came
\* into the conversation it opened after it had found that empty, leaves none
\* without a conversation, and deletes no conversation but that one.
TakesOnlyItsOwn ==
    \A t \in Turns : turn[t].pc # "failed" /\ turn'[t].pc = "failed" =>
        /\ \A m \in messages \ messages' :
               m.by = t \/ (m.of = t /\ turn[t].found = {})
        /\ \A m \in messages' : m.of \in convos'
        /\ convos \ convos' \subseteq {t} \intersect Fresh
FailureTakesOnlyItsOwn == [][TakesOnlyItsOwn]_conversationVars

\* Only the conversation "that stayed empty" goes (api/routers/ai.py:569).  Not
\* kept by the code: what is written between the count and the deletion goes
\* with it.
OnlyTheEmptyGoes ==
    [][\A t \in Turns : turn[t].pc # "failed" /\ turn'[t].pc = "failed" =>
          \A m \in messages \ messages' : m.by = t]_conversationVars

=============================================================================
