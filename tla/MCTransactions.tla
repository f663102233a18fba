--------------------------- MODULE MCTransactions ---------------------------
(* Two people: the first has a record waiting for its last approval, the   *)
(* second is nobody's evaluator but the first one's evaluator's subject.   *)
EXTENDS RecordTransactions

CONSTANTS create1, bulk1, bulk2, depart1, finalize1, disable, u1, e1

Kind_ == [t \in {create1, bulk1, bulk2, depart1, finalize1, disable} |->
            CASE t = create1 -> "create"
              [] t \in {bulk1, bulk2} -> "bulk"
              [] t = depart1 -> "depart"
              [] t = finalize1 -> "finalize"
              [] t = disable -> "disable"]

RequestKinds == [t \in Requests |-> Kind_[t]]

RequestPeople == [t \in Requests |-> CASE t \in {bulk1, bulk2} -> {1, 2}
                                       [] t = disable -> {}
                                       [] OTHER -> {1}]

RequestUser == [t \in Requests |-> IF t = disable THEN u1 ELSE NoUser]

SameScorer == [p \in People |-> u1]

FirstHasAccount == [p \in People |-> IF p = 1 THEN e1 ELSE NoUser]
=============================================================================
