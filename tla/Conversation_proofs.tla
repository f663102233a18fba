------------------------ MODULE Conversation_proofs ------------------------
(***************************************************************************)
(* What a failed turn of the assistant leaves behind, for any turns,       *)
(* uploads, limits and answers of the provider, while other turns,         *)
(* uploads, decisions on cards and deletions work on the same conversation.*)
(*                                                                         *)
(* The argument: until a turn ends, all that is committed of it is its own *)
(* question, under an identity that nothing else bears, and the ledger has *)
(* no row of it.  What a failing turn has counted stays there until it     *)
(* commits, because its own rows hold the conversation.  So it takes its   *)
(* question away, and the conversation only when it counted nothing; what  *)
(* arrived after the count goes with it.                                   *)
(***************************************************************************)
EXTENDS Conversation, TLAPS

Fields == {"pc", "step", "calls", "native", "queue", "question", "id", "sees", "fold", "found"}

\* Where a turn may still stand before it has ended.
UnderWay == {"new", "asking", "tools", "folding", "summarising", "failing"}

\* A turn is a record of its fields, and the sequence of identities counts.
TurnShape ==
    /\ turn = [t \in Turns |-> turn[t]]
    /\ \A t \in Turns : turn[t] = [f \in Fields |-> turn[t][f]]
    /\ ledger = [t \in Turns |-> ledger[t]]
    /\ nextId \in Nat

\* A message is in a conversation that exists, and bears an identity given out.
MessagesAreHeld ==
    \A m \in messages : m.of \in convos /\ m.id \in Nat /\ m.id < nextId

\* A conversation of its own is opened by its turn and by nobody else.
OwnConversation ==
    /\ convos \subseteq Fresh \union {Old}
    /\ \A t \in Fresh : turn[t].question # "kept" => t \notin convos

\* Until it ends, a turn has committed its question or nothing.
OnlyTheQuestion(t) ==
    turn[t].pc \in UnderWay =>
        /\ \A m \in messages : m.by = t => m = Question(t) /\ turn[t].question = "kept"
        /\ ledger[t] = <<>>

\* Nothing else bears the identity of its question.
OwnIdentity(t) ==
    turn[t].question # "none" =>
        /\ turn[t].id \in Nat /\ turn[t].id < nextId
        /\ \A m \in messages : m.id = turn[t].id => m = Question(t)
        /\ \A s \in Turns \ {t} : turn[s].question # "none" => turn[s].id # turn[t].id

\* A turn has asked from its opening on.
NotBegun(t) == turn[t].question = "none" <=> turn[t].pc \in {"new", "refused"}

\* An open question of a continued conversation keeps that from being deleted.
HoldsOld(t) ==
    turn[t].question = "flushed" /\ turn[t].pc \in UnderWay /\ t \notin Fresh
        => Old \in convos

\* What a failing turn has counted is still there.
StillThere(t) ==
    turn[t].pc = "failing" =>
        /\ turn[t].question \notin {"none", "gone"}
        /\ t \in Fresh => turn[t].found \subseteq OthersIn(t)

\* What is left of a turn that failed: what FailureLeavesOnlyItsCost says.
LeavesItsCost(t) ==
    /\ turn[t].pc = "failed" =>
         /\ \A m \in messages : m.by # t
         /\ t \in convos => Ids(messages, t) # {}
         /\ ledger[t] = <<Record(turn[t].calls, TRUE)>>
    /\ turn[t].pc = "broken" =>
         turn[t].question = "gone" \/ ConversationOf(t) \notin convos

Own(t) == /\ OnlyTheQuestion(t) /\ OwnIdentity(t) /\ NotBegun(t)
          /\ HoldsOld(t) /\ StillThere(t) /\ LeavesItsCost(t)

TurnInv ==
    /\ TurnShape /\ MessagesAreHeld /\ OwnConversation
    /\ \A t \in Turns : Own(t)

-----------------------------------------------------------------------------
(* What the steps of a turn do, in groups                                    *)

\* A step of a turn writes its own record, and keeps the identity it has.
Mine(t) ==
    /\ turn' = [turn EXCEPT ![t] = turn'[t]]
    /\ turn'[t] = [f \in Fields |-> turn'[t][f]]

\* A refused turn has asked nothing.
Refused(t) ==
    /\ UNCHANGED <<convos, messages, ledger, nextId>>
    /\ turn[t].pc = "new" /\ turn'[t].pc = "refused"
    /\ turn'[t].question = turn[t].question

\* A turn opens with the next identity for its question.
Opens(t) ==
    /\ UNCHANGED <<convos, messages, ledger>> /\ nextId' = nextId + 1
    /\ turn[t].pc = "new" /\ turn'[t].pc = "asking"
    /\ turn'[t].question = "flushed" /\ turn'[t].id = nextId
    /\ t \in Fresh \/ Old \in convos

\* The loop goes on, or the request breaks: nothing is committed.
Quiet(t) ==
    /\ UNCHANGED <<convos, messages, ledger, nextId>>
    /\ turn[t].pc \in UnderWay \ {"new"}
    /\ turn'[t].pc \in (UnderWay \ {"new", "failing"}) \union {"broken"}
    /\ turn'[t].id = turn[t].id
    /\ \/ turn'[t].question = turn[t].question
       \/ turn[t].question = "flushed" /\ turn'[t].question = "gone"
    /\ turn'[t].pc = "broken" =>
         /\ turn'[t].question = turn[t].question
         /\ turn[t].question = "gone" \/ ConversationOf(t) \notin convos

\* The service fails, and the turn counts.
Counts(t) ==
    /\ UNCHANGED <<convos, messages, ledger, nextId>>
    /\ turn[t].pc = "asking" /\ turn'[t].pc = "failing"
    /\ turn'[t].id = turn[t].id
    /\ turn'[t].question = turn[t].question /\ turn[t].question # "gone"
    /\ t \in Fresh => turn'[t].found = OthersIn(t)

\* The session is committed, the question with it.
Commits(t) ==
    /\ messages' = messages \union Kept(t) /\ convos' = convos \union Opened(t)
    /\ UNCHANGED <<ledger, nextId>>
    /\ turn[t].pc \in UnderWay \ {"new", "failing"}
    /\ turn'[t].pc \in UnderWay \ {"new", "failing"}
    /\ turn'[t].id = turn[t].id /\ turn'[t].question = AfterCommit(t)

\* The session is committed with the reply.
Replies(t) ==
    /\ ~Vanished(t)
    /\ messages' = messages \union Kept(t) \union
         {[id |-> nextId, of |-> ConversationOf(t), role |-> "assistant", by |-> t]}
    /\ convos' = convos \union Opened(t)
    /\ nextId' = nextId + 1
    /\ ledger' = ledger \/ \E n : Charge(t, n, FALSE)
    /\ turn[t].pc \in UnderWay \ {"new", "failing"} /\ turn'[t].pc = "answered"
    /\ turn'[t].id = turn[t].id /\ turn'[t].question = AfterCommit(t)

\* The turn fails.
Fails(t) ==
    /\ FailTurn(t)
    /\ turn'[t].pc = "failed" /\ turn'[t].question = turn[t].question
    /\ turn'[t].id = turn[t].id /\ turn'[t].calls = turn[t].calls

\* The call of a tool leaves the turn in the loop, and its question to the
\* commit or the rollback that follows.
LEMMA AdvanceTurn ==
    ASSUME NEW t, NEW rec, rec = [f \in Fields |-> rec[f]]
    PROVE  /\ Advance(t, rec) = [f \in Fields |-> Advance(t, rec)[f]]
           /\ Advance(t, rec).pc \in UnderWay \ {"new", "failing"}
           /\ Advance(t, rec).id = rec.id /\ Advance(t, rec).question = rec.question
  BY DEF Advance, Fields, UnderWay

LEMMA LoopSteps ==
    ASSUME TurnShape, NEW t \in Turns,
           \/ SwitchProtocol(t) \/ AnswerText(t) \/ AnswerTools(t) \/ AskSummary(t)
           \/ LoseConversation(t) \/ FailToFail(t)
    PROVE  Mine(t) /\ Quiet(t)
<1> DEFINE old == turn[t]
<1>1. old = [f \in Fields |-> old[f]] /\ turn = [s \in Turns |-> turn[s]]
  BY DEF TurnShape
<1>2. CASE SwitchProtocol(t)
  BY <1>1, <1>2 DEF SwitchProtocol, Mine, Quiet, Fields, UnderWay
<1>3. CASE AnswerText(t)
  BY <1>1, <1>3 DEF AnswerText, Mine, Quiet, Fields, UnderWay
<1>4. CASE AnswerTools(t)
  <2>1. PICK q \in Answers : turn' = [turn EXCEPT ![t].pc = "tools", ![t].queue = q, ![t].calls = @ + 1]
    BY <1>4 DEF AnswerTools
  <2>2. QED
    BY <1>1, <1>4, <2>1 DEF AnswerTools, Mine, Quiet, Fields, UnderWay
<1>5. CASE AskSummary(t)
  BY <1>1, <1>5 DEF AskSummary, Mine, Quiet, Fields, UnderWay
<1>6. CASE LoseConversation(t) \/ FailToFail(t)
  BY <1>1, <1>6
     DEF LoseConversation, FailToFail, Broken, Vanished, Deleted, Mine, Quiet, Fields, UnderWay
<1> QED BY <1>2, <1>3, <1>4, <1>5, <1>6

LEMMA CallSteps ==
    ASSUME TurnShape, NEW t \in Turns,
           SkipCall(t) \/ RunCall(t) \/ Propose(t) \/ RollBackTool(t)
    PROVE  Mine(t) /\ (Quiet(t) \/ Commits(t))
<1> DEFINE old == turn[t]
           next == Advance(t, turn[t])
<1>1. old = [f \in Fields |-> old[f]] /\ turn = [s \in Turns |-> turn[s]] /\ turn[t].pc = "tools"
  BY DEF TurnShape, SkipCall, RunCall, Propose, RollBackTool
<1>2. /\ next = [f \in Fields |-> next[f]] /\ next.pc \in UnderWay \ {"new", "failing"}
      /\ next.id = turn[t].id /\ next.question = turn[t].question
  BY <1>1, AdvanceTurn
<1> HIDE DEF next
<1>3. CASE SkipCall(t)
  <2>1. turn' = [turn EXCEPT ![t] = next] /\ UNCHANGED <<convos, messages, ledger, nextId>>
    BY <1>3 DEF SkipCall, next
  <2>2. QED
    BY <1>1, <1>2, <2>1 DEF Mine, Quiet, UnderWay
<1>4. ASSUME NEW q, turn' = [turn EXCEPT ![t] = [next EXCEPT !.question = q]]
      PROVE  /\ Mine(t) /\ turn'[t].id = turn[t].id /\ turn'[t].question = q
             /\ turn'[t].pc \in UnderWay \ {"new", "failing"}
  BY <1>1, <1>2, <1>4 DEF Mine, Fields
<1>5. CASE RunCall(t)
  <2>1. /\ turn' = [turn EXCEPT ![t] = [next EXCEPT !.question = AfterCommit(t)]]
        /\ messages' = messages \union Kept(t) /\ convos' = convos \union Opened(t)
        /\ UNCHANGED <<ledger, nextId>>
    BY <1>5 DEF RunCall, next
  <2>2. QED
    BY <1>1, <1>4, <2>1 DEF Commits, UnderWay
<1>6. CASE Propose(t) /\ Writable(t)
  <2>1. /\ turn' = [turn EXCEPT ![t] = [next EXCEPT !.question = AfterCommit(t)]]
        /\ messages' = messages \union Kept(t) /\ convos' = convos \union Opened(t)
        /\ UNCHANGED <<ledger, nextId>>
    BY <1>6 DEF Propose, next
  <2>2. QED
    BY <1>1, <1>4, <2>1 DEF Commits, UnderWay
<1>7. CASE Propose(t) /\ ~Writable(t)
  BY <1>1, <1>7 DEF Propose, Broken, Writable, Mine, Quiet, Fields, UnderWay
<1>8. CASE RollBackTool(t)
  <2>1. /\ turn' = [turn EXCEPT ![t] = [next EXCEPT !.question = AfterRollback(next.question)]]
        /\ UNCHANGED <<convos, messages, ledger, nextId>>
    BY <1>8 DEF RollBackTool, next
  <2>2. QED
    BY <1>1, <1>2, <1>4, <2>1 DEF Quiet, UnderWay, AfterRollback
<1> QED BY <1>3, <1>5, <1>6, <1>7, <1>8

LEMMA EndSteps ==
    ASSUME TurnShape, NEW t \in Turns, NotBegun(t),
           \/ Refuse(t) \/ Open(t) \/ ReplyOnly(t) \/ ReplyAndFold(t)
           \/ CountOthers(t) \/ FailTurn(t)
    PROVE  Mine(t) /\ (Refused(t) \/ Opens(t) \/ Counts(t) \/ Replies(t) \/ Fails(t))
<1> DEFINE old == turn[t]
<1>1. old = [f \in Fields |-> old[f]] /\ turn = [s \in Turns |-> turn[s]]
  BY DEF TurnShape
<1>2. CASE Refuse(t)
  BY <1>1, <1>2 DEF Refuse, Mine, Refused, Fields
<1>3. CASE Open(t)
  <2> DEFINE rec == [NotStarted EXCEPT !.pc = "asking", !.question = "flushed", !.id = nextId,
                                       !.sees = summary[ConversationOf(t)]]
  <2>1. rec = [f \in Fields |-> rec[f]] /\ rec.pc = "asking" /\ rec.question = "flushed"
        /\ rec.id = nextId
    BY DEF NotStarted, Fields
  <2>2. turn' = [turn EXCEPT ![t] = rec]
    BY <1>3 DEF Open
  <2> HIDE DEF rec
  <2>3. QED
    BY <1>1, <1>3, <2>1, <2>2 DEF Open, Mine, Opens
<1>4. ASSUME NEW n, NEW text, Reply(t, n, text), ~Vanished(t),
             turn[t].pc \in {"folding", "summarising"}
      PROVE  Mine(t) /\ Replies(t)
  <2> DEFINE rec == [turn[t] EXCEPT !.pc = "answered", !.question = AfterCommit(t),
                                    !.calls = @ + n]
  <2>1. rec = [f \in Fields |-> rec[f]] /\ rec.pc = "answered" /\ rec.id = turn[t].id
        /\ rec.question = AfterCommit(t)
    BY <1>1 DEF Fields
  <2>2. turn' = [turn EXCEPT ![t] = rec]
    BY <1>4 DEF Reply
  <2> HIDE DEF rec
  <2>3. QED
    BY <1>1, <1>4, <2>1, <2>2 DEF Reply, Mine, Replies, UnderWay
<1>5. CASE ReplyOnly(t) \/ ReplyAndFold(t)
  BY <1>4, <1>5 DEF ReplyOnly, ReplyAndFold
<1>6. CASE FailTurn(t)
  BY <1>1, <1>6 DEF FailTurn, Mine, Fails, Fields
<1>7. CASE CountOthers(t)
  BY <1>1, <1>7 DEF CountOthers, Mine, Counts, Fields
<1> QED BY <1>2, <1>3, <1>5, <1>6, <1>7

\* Every step of a turn is of one of the groups.
LEMMA StepsOfATurn ==
    ASSUME TurnInv, NEW t \in Turns, TurnNext(t)
    PROVE  /\ Mine(t)
           /\ \/ Refused(t) \/ Opens(t) \/ Quiet(t) \/ Commits(t) \/ Replies(t)
              \/ Counts(t) \/ Fails(t)
  BY LoopSteps, CallSteps, EndSteps DEF TurnInv, Own, TurnNext

-----------------------------------------------------------------------------
(* A step of one turn and the others                                         *)

\* What a step of t may write, seen by another turn: messages of t, new or its
\* question; rows of t; the identity it had, or the next one.
LEMMA OthersHold ==
    ASSUME TurnAssumption, TurnInv, NEW t \in Turns, NEW s \in Turns \ {t},
           turn'[s] = turn[s],
           nextId' \in Nat, nextId' >= nextId,
           \A m \in messages' : \/ m \in messages
                                \/ m.by = t /\ m.id = nextId
                                \/ turn[t].question # "none" /\ m.by = t /\ m.id = turn[t].id,
           \A m \in messages \ messages' : m.of # s,
           ledger'[s] = ledger[s],
           \A c \in convos' : c \in convos \/ (c = t /\ t \in Fresh),
           \A c \in convos : c \in convos' \/ (c = t /\ t \in Fresh),
           turn'[t].question # "none" =>
               \/ turn[t].question # "none" /\ turn'[t].id = turn[t].id
               \/ turn'[t].id = nextId,
           \A x \in Turns \ {t} : turn'[x] = turn[x]
    PROVE  Own(s)'
<1>1. Own(s) /\ OwnIdentity(t) /\ nextId \in Nat
  BY DEF TurnInv, TurnShape, Own
<1>2. OnlyTheQuestion(s)'
  BY <1>1 DEF Own, OnlyTheQuestion, Question
<1>3. OwnIdentity(s)'
  <2>1. SUFFICES ASSUME turn[s].question # "none"
                 PROVE  /\ turn[s].id \in Nat /\ turn[s].id < nextId'
                        /\ \A m \in messages' : m.id = turn[s].id => m = Question(s)
                        /\ \A x \in Turns \ {s} : turn'[x].question # "none" => turn'[x].id # turn[s].id
    BY DEF OwnIdentity, Question
  <2>2. /\ turn[s].id \in Nat /\ turn[s].id < nextId
        /\ \A m \in messages : m.id = turn[s].id => m = Question(s)
        /\ \A x \in Turns \ {s} : turn[x].question # "none" => turn[x].id # turn[s].id
    BY <1>1, <2>1 DEF Own, OwnIdentity
  <2>3. \A m \in messages' : m.id = turn[s].id => m = Question(s)
    BY <1>1, <2>2
  <2>4. QED
    BY <1>1, <2>2, <2>3
<1>4. t # Old /\ s # Old /\ ((ConversationOf(s) = s /\ s \in Fresh) \/ ConversationOf(s) = Old)
  BY TurnAssumption DEF TurnAssumption, ConversationOf
<1>5. ConversationOf(s) \in convos' <=> ConversationOf(s) \in convos
  BY <1>4
<1>6. Ids(messages, s) \subseteq Ids(messages', s)
  BY DEF Ids
<1>7. LeavesItsCost(s)'
  <2>1. LeavesItsCost(s)
    BY <1>1 DEF Own
  <2>2. ASSUME turn[s].pc = "failed"
        PROVE  /\ \A m \in messages' : m.by # s
               /\ s \in convos' => Ids(messages', s) # {}
               /\ ledger'[s] = <<Record(turn[s].calls, TRUE)>>
    BY <1>6, <2>1, <2>2 DEF LeavesItsCost
  <2>3. QED
    BY <1>5, <2>1, <2>2 DEF LeavesItsCost, ConversationOf
<1>8. NotBegun(s)'
  BY <1>1 DEF Own, NotBegun
<1>9. HoldsOld(s)'
  BY <1>1, <1>4 DEF Own, HoldsOld
<1>10. StillThere(s)'
  <2>1. s \in Fresh => OthersIn(s) \subseteq OthersIn(s)'
    BY <1>6 DEF OthersIn, ConversationOf
  <2>2. QED
    BY <1>1, <2>1 DEF Own, StillThere
<1> QED BY <1>2, <1>3, <1>7, <1>8, <1>9, <1>10 DEF Own

-----------------------------------------------------------------------------
(* The invariant, step by step                                               *)

\* The record of a turn is written in its place.
LEMMA MineOnly ==
    ASSUME TurnShape, NEW t \in Turns, Mine(t), nextId' \in Nat
    PROVE  /\ \A s \in Turns \ {t} : turn'[s] = turn[s]
           /\ ledger' = [s \in Turns |-> ledger'[s]] => TurnShape'
  BY DEF TurnShape, Mine

LEMMA OwnConversationOnly ==
    ASSUME TurnAssumption, NEW t \in Turns
    PROVE  /\ ConversationOf(t) \in Fresh \union {Old}
           /\ \A s \in Turns \ {t} : ConversationOf(t) # s
           /\ \A s \in Fresh : ConversationOf(t) = s => s = t
  BY DEF TurnAssumption, ConversationOf

\* Nothing is committed: a refusal, an opening, the steps of the loop, a count.
LEMMA NothingCommitted ==
    ASSUME TurnAssumption, TurnInv, NEW t \in Turns, Mine(t),
           Refused(t) \/ Opens(t) \/ Quiet(t) \/ Counts(t)
    PROVE  TurnInv'
<1>0. /\ Own(t) /\ TurnShape /\ MessagesAreHeld /\ OwnConversation /\ nextId \in Nat
      /\ UNCHANGED <<convos, messages, ledger>>
      /\ nextId' = nextId \/ nextId' = nextId + 1
  BY DEF TurnInv, TurnShape, Refused, Opens, Quiet, Counts
<1>1. TurnShape' /\ \A s \in Turns \ {t} : turn'[s] = turn[s]
  BY <1>0, MineOnly DEF TurnShape
<1>2. MessagesAreHeld'
  BY <1>0 DEF MessagesAreHeld
<1>3. turn'[t].question = "kept" <=> turn[t].question = "kept"
  <2>1. CASE Refused(t)
    BY <2>1 DEF Refused
  <2>2. CASE Opens(t)
    BY <1>0, <2>2 DEF Opens, Own, NotBegun
  <2>3. CASE Quiet(t) \/ Counts(t)
    BY <2>3 DEF Quiet, Counts
  <2>4. QED
    BY <2>1, <2>2, <2>3
<1>4. OwnConversation'
  BY <1>0, <1>1, <1>3, TurnAssumption DEF OwnConversation, TurnAssumption
<1>5. SUFFICES /\ Own(t)'
               /\ turn'[t].question # "none" =>
                    \/ turn[t].question # "none" /\ turn'[t].id = turn[t].id
                    \/ turn'[t].id = nextId
  <2>1. nextId' \in Nat /\ nextId' >= nextId
    BY <1>0
  <2>2. ASSUME NEW s \in Turns \ {t}
        PROVE  Own(s)'
    BY <1>0, <1>1, <1>5, <2>1, OthersHold
  <2>3. QED
    BY <1>1, <1>2, <1>4, <1>5, <2>2 DEF TurnInv
<1>6. CASE Refused(t)
  BY <1>0, <1>6 DEF Refused, Own, OnlyTheQuestion, OwnIdentity, NotBegun, HoldsOld, StillThere,
                    LeavesItsCost, UnderWay
<1>7. CASE Opens(t)
  <2>1. \A m \in messages : m.id # nextId
    BY <1>0 DEF MessagesAreHeld
  <2>2. \A s \in Turns \ {t} : turn[s].question # "none" => turn[s].id # nextId
    BY <1>0 DEF TurnInv, Own, OwnIdentity
  <2>3. OwnIdentity(t)'
    BY <1>0, <1>1, <1>7, <2>1, <2>2 DEF Opens, OwnIdentity
  <2>4. OnlyTheQuestion(t)'
    BY <1>0, <1>7 DEF Opens, Own, OnlyTheQuestion, NotBegun, UnderWay
  <2>5. QED
    BY <1>0, <1>7, <2>3, <2>4 DEF Opens, Own, NotBegun, HoldsOld, StillThere, LeavesItsCost
<1>8. CASE Quiet(t) \/ Counts(t)
  <2>1. /\ turn[t].question # "none" /\ turn'[t].question # "none"
        /\ turn'[t].id = turn[t].id
        /\ turn[t].pc \in UnderWay /\ turn'[t].pc \notin {"new", "refused", "failed"}
    BY <1>0, <1>8 DEF Quiet, Counts, Own, NotBegun, UnderWay
  <2>2. OwnIdentity(t)'
    BY <1>0, <1>1, <2>1 DEF Own, OwnIdentity, Question
  <2>3. OnlyTheQuestion(t)'
    BY <1>0, <1>3, <2>1 DEF Own, OnlyTheQuestion, Question
  <2>4. HoldsOld(t)'
    BY <1>0, <1>8, <2>1 DEF Quiet, Counts, Own, HoldsOld
  <2>5. StillThere(t)'
    <3>1. OthersIn(t)' = OthersIn(t)
      BY <1>0, <2>1 DEF OthersIn
    <3>2. CASE Quiet(t)
      BY <3>2 DEF Quiet, StillThere, UnderWay
    <3>3. CASE Counts(t)
      <4>1. turn'[t].question \notin {"none", "gone"}
        BY <2>1, <3>3 DEF Counts
      <4>2. QED
        BY <3>1, <3>3, <4>1 DEF Counts, StillThere
    <3>4. QED
      BY <1>8, <3>2, <3>3
  <2>6. LeavesItsCost(t)'
    BY <1>0, <1>8, <2>1 DEF Quiet, Counts, LeavesItsCost
  <2>7. QED
    BY <2>1, <2>2, <2>3, <2>4, <2>5, <2>6 DEF Own, NotBegun
<1> QED BY <1>6, <1>7, <1>8

\* A commit, of a step of the loop or with the reply, makes the question its own.
LEMMA SessionCommitted ==
    ASSUME TurnAssumption, TurnInv, NEW t \in Turns, Mine(t), Commits(t) \/ Replies(t)
    PROVE  TurnInv'
<1> DEFINE c == ConversationOf(t)
           reply == [id |-> nextId, of |-> c, role |-> "assistant", by |-> t]
<1>0. /\ Own(t) /\ TurnShape /\ MessagesAreHeld /\ OwnConversation /\ nextId \in Nat
      /\ convos' = convos \union Opened(t)
      /\ turn[t].pc \in UnderWay \ {"new", "failing"}
      /\ turn'[t].id = turn[t].id /\ turn'[t].question = AfterCommit(t)
      /\ nextId' \in Nat /\ nextId' >= nextId
      /\ turn'[t].pc \notin {"failed", "failing", "broken", "new", "refused"}
      /\ ledger = [s \in Turns |-> ledger[s]]
      /\ ledger' = [s \in Turns |-> ledger'[s]]
      /\ \A s \in Turns \ {t} : ledger'[s] = ledger[s]
  <2>1. /\ Own(t) /\ TurnShape /\ MessagesAreHeld /\ OwnConversation /\ nextId \in Nat
        /\ ledger = [s \in Turns |-> ledger[s]]
    BY DEF TurnInv, TurnShape
  <2>2. CASE Commits(t)
    BY <2>1, <2>2 DEF Commits, UnderWay
  <2>3. CASE Replies(t)
    <3>1. /\ ledger' = [s \in Turns |-> ledger'[s]]
          /\ \A s \in Turns \ {t} : ledger'[s] = ledger[s]
      <4>1. CASE ledger' = ledger
        BY <2>1, <4>1
      <4>2. ASSUME NEW n, Charge(t, n, FALSE)
            PROVE  /\ ledger' = [s \in Turns |-> ledger'[s]]
                   /\ \A s \in Turns \ {t} : ledger'[s] = ledger[s]
        <5> DEFINE rows == Append(ledger[t], Record(n, FALSE))
        <5>1. ledger' = [ledger EXCEPT ![t] = rows]
          BY <4>2 DEF Charge
        <5> HIDE DEF rows
        <5>2. QED
          BY <2>1, <5>1
      <4>3. QED
        BY <2>3, <4>1, <4>2 DEF Replies
    <3>2. QED
      BY <2>1, <2>3, <3>1 DEF Replies, UnderWay
  <2>4. QED
    BY <2>1, <2>2, <2>3
<1>1. TurnShape' /\ \A s \in Turns \ {t} : turn'[s] = turn[s]
  BY <1>0, MineOnly
<1>2. /\ turn[t].question # "none" /\ turn'[t].question # "none"
      /\ turn'[t].question = "kept" <=> turn[t].question \in {"flushed", "kept"}
  BY <1>0 DEF Own, NotBegun, AfterCommit, UnderWay
<1>3. /\ Opened(t) \subseteq {c} /\ Kept(t) \subseteq {Question(t)}
      /\ turn[t].question # "flushed" => Opened(t) = {} /\ Kept(t) = {}
      /\ turn[t].question = "flushed" => Opened(t) = {c}
      /\ Question(t).id = turn[t].id /\ Question(t).of = c /\ Question(t).by = t
  BY DEF Opened, Kept, Question
<1>4. /\ turn[t].id \in Nat /\ turn[t].id < nextId
      /\ \A m \in messages : m.id = turn[t].id => m = Question(t)
      /\ \A s \in Turns \ {t} : turn[s].question # "none" => turn[s].id # turn[t].id
  BY <1>0, <1>2 DEF Own, OwnIdentity
<1>5. /\ \A m \in messages' : m \in messages \/ m \in Kept(t) \/ (Replies(t) /\ m = reply)
      /\ messages \subseteq messages'
      /\ Replies(t) => nextId' = nextId + 1 /\ c \in convos'
  BY DEF Commits, Replies, Vanished
<1>6. MessagesAreHeld'
  <2>1. ASSUME NEW m \in messages'
        PROVE  m.of \in convos' /\ m.id \in Nat /\ m.id < nextId'
    <3>1. CASE m \in messages
      BY <1>0, <3>1 DEF MessagesAreHeld
    <3>2. CASE m \in Kept(t)
      BY <1>0, <1>3, <1>4, <3>2
    <3>3. CASE Replies(t) /\ m = reply
      BY <1>0, <1>5, <3>3
    <3>4. QED
      BY <1>5, <3>1, <3>2, <3>3
  <2>2. QED
    BY <2>1 DEF MessagesAreHeld
<1>7. OwnConversation'
  <2>1. convos' \subseteq Fresh \union {Old}
    BY <1>0, <1>3, OwnConversationOnly DEF OwnConversation
  <2>2. ASSUME NEW s \in Fresh, turn'[s].question # "kept"
        PROVE  s \notin convos'
    <3>1. CASE s = t
      <4>1. turn[t].question \notin {"flushed", "kept"}
        BY <1>2, <2>2, <3>1
      <4>2. QED
        BY <1>0, <1>3, <2>2, <3>1, <4>1 DEF OwnConversation
    <3>2. CASE s # t
      BY <1>0, <1>1, <1>3, <2>2, <3>2, OwnConversationOnly, TurnAssumption
         DEF OwnConversation, TurnAssumption
    <3>3. QED
      BY <3>1, <3>2
  <2>3. QED
    BY <2>1, <2>2 DEF OwnConversation
<1>8. OwnIdentity(t)'
  <2>1. \A m \in messages' : m.id = turn[t].id => m = Question(t)
    BY <1>0, <1>3, <1>4, <1>5
  <2>2. Question(t)' = Question(t)
    BY <1>0 DEF Question
  <2>3. QED
    BY <1>0, <1>1, <1>4, <2>1, <2>2 DEF OwnIdentity
<1>9. OnlyTheQuestion(t)'
  <2>1. CASE Commits(t)
    <3>1. ledger' = ledger /\ messages' = messages \union Kept(t)
      BY <2>1 DEF Commits
    <3>2. ASSUME NEW m \in messages', m.by = t
          PROVE  m = Question(t) /\ turn'[t].question = "kept"
      <4>1. CASE m \in messages
        BY <1>0, <1>2, <3>2, <4>1 DEF Own, OnlyTheQuestion
      <4>2. CASE m \in Kept(t)
        BY <1>2, <1>3, <4>2
      <4>3. QED
        BY <3>1, <4>1, <4>2
    <3>3. QED
      BY <1>0, <3>1, <3>2 DEF Own, OnlyTheQuestion, Question
  <2>2. CASE Replies(t)
    BY <2>2 DEF Replies, OnlyTheQuestion, UnderWay
  <2>3. QED
    BY <2>1, <2>2
<1>10. Own(t)'
  BY <1>0, <1>2, <1>8, <1>9 DEF Own, NotBegun, HoldsOld, StillThere, LeavesItsCost, AfterCommit
<1>11. ASSUME NEW s \in Turns \ {t}
       PROVE  Own(s)'
  <2>1. \A m \in messages' : \/ m \in messages
                             \/ m.by = t /\ m.id = nextId
                             \/ turn[t].question # "none" /\ m.by = t /\ m.id = turn[t].id
    BY <1>2, <1>3, <1>5
  <2>2. \A x \in convos' : x \in convos \/ (x = t /\ t \in Fresh)
    BY <1>0, <1>3 DEF Own, HoldsOld, ConversationOf
  <2>3. QED
    BY <1>0, <1>1, <1>2, <1>5, <2>1, <2>2, OthersHold
<1>12. QED
  BY <1>1, <1>6, <1>7, <1>10, <1>11 DEF TurnInv

\* What a failing turn takes away, and what it leaves of the rest.
LEMMA FailureTakes ==
    ASSUME TurnAssumption, TurnInv, NEW t \in Turns, Mine(t), Fails(t)
    PROVE  /\ turn[t].pc = "failing" /\ turn[t].question \notin {"none", "gone"}
           /\ \A m \in messages : m \in messages'
                \/ m = Question(t) \/ (LeftEmpty(t) /\ m.of = t)
           /\ messages' \subseteq messages \ {Question(t)}
           /\ LeftEmpty(t) => t \in Fresh /\ \A m \in messages' : m.of # t
           /\ ledger' = [ledger EXCEPT ![t] = <<Record(turn[t].calls, TRUE)>>]
           /\ convos' = IF LeftEmpty(t) THEN convos \ {t} ELSE convos
           /\ t \in convos' => Ids(messages', t) # {}
           /\ nextId' = nextId
<1>0. /\ Own(t) /\ OwnConversation /\ turn[t].pc = "failing"
      /\ messages' = IF LeftEmpty(t) THEN {m \in messages \ {Question(t)} : m.of # t}
                                     ELSE messages \ {Question(t)}
      /\ ledger' = [ledger EXCEPT ![t] = Append(@, Record(turn[t].calls, TRUE))]
      /\ convos' = IF LeftEmpty(t) THEN convos \ {t} ELSE convos
      /\ nextId' = nextId
  BY DEF TurnInv, Fails, FailTurn, WithoutQuestion, Charge
<1>1. turn[t].question \notin {"none", "gone"}
  BY <1>0 DEF Own, StillThere
<1>2. ledger' = [ledger EXCEPT ![t] = <<Record(turn[t].calls, TRUE)>>]
  <2>1. ledger[t] = <<>>
    BY <1>0 DEF Own, OnlyTheQuestion, UnderWay
  <2>2. Append(ledger[t], Record(turn[t].calls, TRUE)) = <<Record(turn[t].calls, TRUE)>>
    BY <2>1
  <2>3. QED
    BY <1>0, <2>2
<1>3. ASSUME t \in convos'
      PROVE  Ids(messages', t) # {}
  <2>1. t \in Fresh /\ ConversationOf(t) = t /\ ~LeftEmpty(t)
    BY <1>0, <1>3, TurnAssumption
       DEF OwnConversation, TurnAssumption, ConversationOf, LeftEmpty
  <2>2. turn[t].found # {} /\ turn[t].found \subseteq Ids(messages, t) \ {turn[t].id}
    BY <1>0, <2>1 DEF LeftEmpty, Own, StillThere, OthersIn
  <2>3. PICK m \in messages : m.of = t /\ m.id # turn[t].id
    BY <2>2 DEF Ids
  <2>4. m \in messages'
    BY <1>0, <2>1, <2>3 DEF Question
  <2>5. QED
    BY <2>3, <2>4 DEF Ids
<1>4. LeftEmpty(t) => t \in Fresh
  BY DEF LeftEmpty
<1> QED BY <1>0, <1>1, <1>2, <1>3, <1>4

LEMMA TurnFailed ==
    ASSUME TurnAssumption, TurnInv, NEW t \in Turns, Mine(t), Fails(t)
    PROVE  TurnInv'
<1>0. /\ Own(t) /\ TurnShape /\ MessagesAreHeld /\ OwnConversation /\ nextId \in Nat
      /\ turn'[t].pc = "failed" /\ turn'[t].question = turn[t].question
      /\ turn'[t].id = turn[t].id /\ turn'[t].calls = turn[t].calls
      /\ ledger = [s \in Turns |-> ledger[s]]
  BY DEF TurnInv, TurnShape, Fails
<1>1. /\ turn[t].pc = "failing" /\ turn[t].question \notin {"none", "gone"}
      /\ \A m \in messages : m \in messages'
            \/ m = Question(t) \/ (LeftEmpty(t) /\ m.of = t)
      /\ messages' \subseteq messages \ {Question(t)}
      /\ LeftEmpty(t) => t \in Fresh /\ \A m \in messages' : m.of # t
      /\ ledger' = [ledger EXCEPT ![t] = <<Record(turn[t].calls, TRUE)>>]
      /\ convos' = IF LeftEmpty(t) THEN convos \ {t} ELSE convos
      /\ t \in convos' => Ids(messages', t) # {}
      /\ nextId' = nextId
  BY FailureTakes
<1>2. TurnShape' /\ \A s \in Turns \ {t} : turn'[s] = turn[s]
  BY <1>0, <1>1, MineOnly
<1>3. MessagesAreHeld'
  BY <1>0, <1>1 DEF MessagesAreHeld
<1>4. OwnConversation'
  <2>1. convos' \subseteq convos
    BY <1>1
  <2>2. \A s \in Fresh : turn'[s].question = turn[s].question
    BY <1>0, <1>2, TurnAssumption DEF TurnAssumption
  <2>3. QED
    BY <1>0, <2>1, <2>2 DEF OwnConversation
<1>5. OwnIdentity(t)'
  BY <1>0, <1>1, <1>2 DEF Own, OwnIdentity, Question
<1>6. LeavesItsCost(t)'
  <2>1. \A m \in messages' : m.by # t
    BY <1>0, <1>1 DEF Own, OnlyTheQuestion, UnderWay
  <2>2. ledger'[t] = <<Record(turn[t].calls, TRUE)>>
    BY <1>0, <1>1
  <2>3. QED
    BY <1>0, <1>1, <2>1, <2>2 DEF LeavesItsCost
<1>7. Own(t)'
  BY <1>0, <1>1, <1>5, <1>6 DEF Own, OnlyTheQuestion, NotBegun, HoldsOld, StillThere, UnderWay
<1>8. ASSUME NEW s \in Turns \ {t}
      PROVE  Own(s)'
  <2>1. \A m \in messages \ messages' : m.of # s
    BY <1>1, OwnConversationOnly DEF Question
  <2>2. nextId' \in Nat /\ nextId' >= nextId
    BY <1>0, <1>1
  <2>3. ledger'[s] = ledger[s]
    BY <1>0, <1>1
  <2>4. QED
    BY <1>0, <1>1, <1>2, <2>1, <2>2, <2>3, OthersHold
<1>9. QED
  BY <1>2, <1>3, <1>4, <1>7, <1>8 DEF TurnInv

\* Deleting a conversation takes its messages with it and leaves the turns.
LEMMA ConversationDeleted ==
    ASSUME TurnAssumption, TurnInv, NEW c \in Conversations, DeleteConversation(c)
    PROVE  TurnInv'
<1>0. /\ convos' = convos \ {c} /\ messages' = {m \in messages : m.of # c}
      /\ UNCHANGED <<ledger, turn, nextId>>
  BY DEF DeleteConversation
<1>1. TurnShape' /\ MessagesAreHeld' /\ OwnConversation'
  BY <1>0 DEF TurnInv, TurnShape, MessagesAreHeld, OwnConversation
<1>2. ASSUME NEW t \in Turns
      PROVE  Own(t)'
  <2>1. Own(t) /\ (ConversationOf(t) = c => ~Holds(t))
    BY DEF TurnInv, DeleteConversation
  <2>2. OnlyTheQuestion(t)' /\ OwnIdentity(t)' /\ NotBegun(t)'
    BY <1>0, <2>1 DEF Own, OnlyTheQuestion, OwnIdentity, NotBegun, Question
  <2>3. t \in convos' => Ids(messages', t) = Ids(messages, t)
    BY <1>0 DEF Ids
  <2>4. LeavesItsCost(t)'
    BY <1>0, <2>1, <2>3 DEF Own, LeavesItsCost, ConversationOf
  <2>5. HoldsOld(t)'
    BY <1>0, <2>1 DEF Own, HoldsOld, Holds, ConversationOf, UnderWay
  <2>6. StillThere(t)'
    <3>1. turn[t].pc = "failing" => OthersIn(t)' = OthersIn(t)
      BY <1>0, <2>1 DEF Holds, OthersIn, Ids, ConversationOf
    <3>2. QED
      BY <1>0, <2>1, <3>1 DEF Own, StillThere
  <2>7. QED
    BY <2>2, <2>4, <2>5, <2>6 DEF Own
<1>3. QED
  BY <1>1, <1>2 DEF TurnInv

\* A message that no turn wrote comes into a conversation.
LEMMA MessageArrives ==
    ASSUME TurnAssumption, TurnInv, NEW c \in convos, NEW who, who \notin Turns,
           messages' = messages \union
               {[id |-> nextId, of |-> c, role |-> "assistant", by |-> who]},
           nextId' = nextId + 1, UNCHANGED <<convos, ledger, turn>>
    PROVE  TurnInv'
<1>0. nextId \in Nat
  BY DEF TurnInv, TurnShape
<1>1. TurnShape'
  BY <1>0 DEF TurnInv, TurnShape
<1>2. MessagesAreHeld' /\ OwnConversation'
  BY <1>0 DEF TurnInv, MessagesAreHeld, OwnConversation
<1>3. ASSUME NEW t \in Turns
      PROVE  Own(t)'
  <2>1. Own(t)
    BY DEF TurnInv
  <2>2. OnlyTheQuestion(t)' /\ NotBegun(t)' /\ HoldsOld(t)'
    BY <1>0, <2>1 DEF Own, OnlyTheQuestion, NotBegun, HoldsOld, Question
  <2>3. OwnIdentity(t)'
    BY <1>0, <2>1 DEF Own, OwnIdentity, Question
  <2>4. Ids(messages, t) \subseteq Ids(messages', t) /\ OthersIn(t) \subseteq OthersIn(t)'
    BY <1>0 DEF Ids, OthersIn
  <2>5. \A m \in messages' : m \in messages \/ m.by # t
    BY <1>0
  <2>6. LeavesItsCost(t)' /\ StillThere(t)'
    BY <1>0, <2>1, <2>4, <2>5 DEF Own, LeavesItsCost, StillThere
  <2>7. QED
    BY <2>2, <2>3, <2>6 DEF Own
<1>4. QED
  BY <1>1, <1>2, <1>3 DEF TurnInv

\* Nothing the invariant speaks of changes.
LEMMA TurnInvStutter ==
    ASSUME TurnInv, UNCHANGED <<convos, messages, ledger, turn, nextId>>
    PROVE  TurnInv'
<1>1. TurnShape' /\ MessagesAreHeld' /\ OwnConversation'
  BY DEF TurnInv, TurnShape, MessagesAreHeld, OwnConversation
<1>2. ASSUME NEW t \in Turns
      PROVE  Own(t)'
  <2>1. Own(t)
    BY DEF TurnInv
  <2>2. OnlyTheQuestion(t)' /\ OwnIdentity(t)' /\ NotBegun(t)' /\ HoldsOld(t)'
    BY <2>1 DEF Own, OnlyTheQuestion, OwnIdentity, NotBegun, HoldsOld, Question
  <2>3. LeavesItsCost(t)' /\ StillThere(t)'
    BY <2>1 DEF Own, LeavesItsCost, StillThere, OthersIn
  <2>4. QED
    BY <2>2, <2>3 DEF Own
<1>3. QED
  BY <1>1, <1>2 DEF TurnInv

\* A card is in a conversation that exists.
CardsAreHeld ==
    \A k \in cards : k.of \in convos /\ k = [f \in {"of", "by", "nr", "decided"} |-> k[f]]

LEMMA CardsHeldInit == ConversationInit => CardsAreHeld
  BY DEF ConversationInit, CardsAreHeld

LEMMA CardsHeldStep ==
    ASSUME CardsAreHeld, [ConversationNext]_conversationVars
    PROVE  CardsAreHeld'
<1>1. ASSUME NEW t \in Turns, TurnNext(t)
      PROVE  CardsAreHeld'
  <2>1. CASE Propose(t)
    <3>1. CASE Writable(t)
      <4> DEFINE number == Cardinality({c \in cards : c.by = t})
      <4>1. /\ convos' = convos \union Opened(t)
            /\ cards' = cards \union {[of |-> ConversationOf(t), by |-> t, nr |-> number,
                                       decided |-> FALSE]}
        BY <2>1, <3>1 DEF Propose
      <4> HIDE DEF number
      <4>2. QED
        BY <3>1, <4>1 DEF Writable, CardsAreHeld
    <3>2. CASE ~Writable(t)
      BY <2>1, <3>2 DEF Propose, CardsAreHeld
    <3>3. QED
      BY <3>1, <3>2
  <2>2. CASE FailTurn(t)
    BY <2>2 DEF FailTurn, CardsAreHeld
  <2>3. CASE \/ Refuse(t) \/ Open(t) \/ SwitchProtocol(t) \/ AnswerText(t) \/ AnswerTools(t)
             \/ SkipCall(t) \/ RunCall(t) \/ RollBackTool(t) \/ LoseConversation(t)
             \/ AskSummary(t) \/ ReplyOnly(t) \/ ReplyAndFold(t) \/ CountOthers(t)
             \/ FailToFail(t)
    <3>1. cards' = cards /\ convos \subseteq convos'
      BY <2>3 DEF Refuse, Open, SwitchProtocol, AnswerText, AnswerTools, SkipCall, RunCall,
                  RollBackTool, LoseConversation, AskSummary, ReplyOnly, ReplyAndFold, Reply,
                  CountOthers, FailToFail
    <3>2. QED
      BY <3>1 DEF CardsAreHeld
  <2>4. QED
    BY <1>1, <2>1, <2>2, <2>3 DEF TurnNext
<1>2. ASSUME NEW c \in Conversations, DeleteConversation(c)
      PROVE  CardsAreHeld'
  BY <1>2 DEF DeleteConversation, CardsAreHeld
<1>3. ASSUME NEW u \in Uploads, NEW c \in Conversations, UploadAttachment(u, c)
      PROVE  CardsAreHeld'
  BY <1>3 DEF UploadAttachment, CardsAreHeld
<1>4. ASSUME NEW k \in cards, DecideCard(k)
      PROVE  CardsAreHeld'
  BY <1>4 DEF DecideCard, CardsAreHeld
<1>5. CASE UNCHANGED conversationVars
  BY <1>5 DEF conversationVars, CardsAreHeld
<1> QED BY <1>1, <1>2, <1>3, <1>4, <1>5 DEF ConversationNext

LEMMA TurnInvStep ==
    ASSUME TurnAssumption, TurnInv, CardsAreHeld, [ConversationNext]_conversationVars
    PROVE  TurnInv'
<1>1. ASSUME NEW t \in Turns, TurnNext(t)
      PROVE  TurnInv'
  BY <1>1, StepsOfATurn, NothingCommitted, SessionCommitted, TurnFailed
<1>2. ASSUME NEW c \in Conversations, DeleteConversation(c)
      PROVE  TurnInv'
  BY <1>2, ConversationDeleted
<1>3. ASSUME NEW u \in Uploads, NEW c \in Conversations, UploadAttachment(u, c)
      PROVE  TurnInv'
  <2>1. u \notin Turns
    BY TurnAssumption DEF TurnAssumption
  <2>2. QED
    BY <1>3, <2>1, MessageArrives DEF UploadAttachment
<1>4. ASSUME NEW k \in cards, DecideCard(k)
      PROVE  TurnInv'
  <2>1. k.of \in convos /\ Decider \notin Turns
    BY TurnAssumption DEF TurnAssumption, CardsAreHeld
  <2>2. CASE UNCHANGED <<messages, nextId>>
    BY <1>4, <2>2, TurnInvStutter DEF DecideCard
  <2>3. CASE messages' # messages \/ nextId' # nextId
    BY <1>4, <2>1, <2>3, MessageArrives DEF DecideCard
  <2>4. QED
    BY <2>2, <2>3
<1>5. CASE UNCHANGED conversationVars
  BY <1>5, TurnInvStutter DEF conversationVars
<1> QED BY <1>1, <1>2, <1>3, <1>4, <1>5 DEF ConversationNext

LEMMA TurnInvInit == ASSUME TurnAssumption, ConversationInit PROVE TurnInv
<1>1. TurnShape
  BY DEF ConversationInit, TurnShape, NotStarted, Fields
<1>2. MessagesAreHeld /\ OwnConversation
  BY TurnAssumption DEF ConversationInit, MessagesAreHeld, OwnConversation, TurnAssumption
<1>3. \A t \in Turns : turn[t].pc = "new" /\ turn[t].question = "none"
  BY DEF ConversationInit, NotStarted
<1>4. QED
  BY <1>1, <1>2, <1>3
     DEF ConversationInit, TurnInv, Own, OnlyTheQuestion, OwnIdentity, NotBegun, HoldsOld,
         StillThere, LeavesItsCost

\* A failed turn leaves no trace in the conversation, whatever committed of it
\* before it failed, and the ledger has its calls exactly once; one that breaks
\* off had lost its question or its conversation (run_turn and the handler of a
\* failing service).
THEOREM FailedTurnsLeaveTheirCost ==
    ASSUME TurnAssumption PROVE ConversationSpec => []FailureLeavesOnlyItsCost
<1>1. ConversationInit => TurnInv /\ CardsAreHeld
  BY TurnInvInit, CardsHeldInit
<1>2. TurnInv /\ CardsAreHeld /\ [ConversationNext]_conversationVars => (TurnInv /\ CardsAreHeld)'
  BY TurnInvStep, CardsHeldStep
<1>3. TurnInv => FailureLeavesOnlyItsCost
  BY DEF TurnInv, Own, LeavesItsCost, FailureLeavesOnlyItsCost
<1> QED BY <1>1, <1>2, <1>3, PTL DEF ConversationSpec

\* A failure takes away the question of its own turn and no other message but
\* what came, after it had counted none, into the conversation it opened; it
\* leaves none without a conversation, although uploads, decisions on cards and
\* other turns write there (the count and the two deletions of the handler).
THEOREM FailedTurnsTakeTheirOwn ==
    ASSUME TurnAssumption PROVE ConversationSpec => FailureTakesOnlyItsOwn
<1>1. ConversationInit => TurnInv /\ CardsAreHeld
  BY TurnInvInit, CardsHeldInit
<1>2. TurnInv /\ CardsAreHeld /\ [ConversationNext]_conversationVars => (TurnInv /\ CardsAreHeld)'
  BY TurnInvStep, CardsHeldStep
<1>3. ASSUME TurnInv, CardsAreHeld, [ConversationNext]_conversationVars
      PROVE  TakesOnlyItsOwn
  <2>1. SUFFICES ASSUME NEW t \in Turns, turn[t].pc # "failed", turn'[t].pc = "failed"
                 PROVE  /\ \A m \in messages \ messages' :
                               m.by = t \/ (m.of = t /\ turn[t].found = {})
                        /\ \A m \in messages' : m.of \in convos'
                        /\ convos \ convos' \subseteq {t} \intersect Fresh
    BY DEF TakesOnlyItsOwn
  <2>2. PICK s \in Turns : TurnNext(s)
    BY <1>3, <2>1
       DEF ConversationNext, conversationVars, DeleteConversation, UploadAttachment, DecideCard
  <2>3. /\ Mine(s)
        /\ \/ Refused(s) \/ Opens(s) \/ Quiet(s) \/ Commits(s) \/ Replies(s)
           \/ Counts(s) \/ Fails(s)
    BY <1>3, <2>2, StepsOfATurn
  <2>4. s = t
    BY <1>3, <2>1, <2>3 DEF Mine, TurnInv, TurnShape
  <2>5. Fails(t)
    BY <2>1, <2>3, <2>4 DEF Refused, Opens, Quiet, Commits, Replies, Counts, UnderWay
  <2>6. /\ \A m \in messages : m \in messages'
             \/ m = Question(t) \/ (LeftEmpty(t) /\ m.of = t)
        /\ convos' = IF LeftEmpty(t) THEN convos \ {t} ELSE convos
        /\ LeftEmpty(t) => t \in Fresh /\ turn[t].found = {}
    BY <1>3, <2>3, <2>4, <2>5, FailureTakes DEF LeftEmpty
  <2>7. \A m \in messages' : m.of \in convos'
    BY <1>2, <1>3 DEF TurnInv, MessagesAreHeld
  <2>8. QED
    BY <2>6, <2>7 DEF Question
<1>4. TurnInv /\ CardsAreHeld /\ [ConversationNext]_conversationVars
        => [TakesOnlyItsOwn]_conversationVars
  BY <1>3
<1> QED BY <1>1, <1>2, <1>4, PTL DEF ConversationSpec, FailureTakesOnlyItsOwn
=============================================================================
