------------------------------ MODULE Serving ------------------------------
(***************************************************************************)
(* A request that takes several transactions, or several steps of one, and *)
(* is made once: where it stands and what it has read.                     *)
(***************************************************************************)
CONSTANT Workers   \* the requests

VARIABLE serving   \* of each request: where it stands (at), what it has read

Unserved == [w \in Workers |-> [at |-> "idle"]]
Idle(w) == serving[w].at = "idle"
Goto(w, rec) == serving' = [serving EXCEPT ![w] = rec]
Done(w) == Goto(w, [at |-> "done"])

=============================================================================
