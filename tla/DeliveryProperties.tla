------------------------- MODULE DeliveryProperties -------------------------
(* What the outbox and its sweep promise.                                  *)
EXTENDS DeliverySweep

\* Rows whose channel answers every failure with a DeliveryError.
Regular == {r \in Rows : "unexpected" \notin Replies[r]}

\* The service acknowledges a message twice only for a reason: a process
\* died, the lock was lost, or a row of the batch was deleted, between a send
\* and its commit.  Each such event accounts for one copy (the lock of
\* run_sweeps_once and the status filter of run_delivery_sweep).
DuplicateHasACause == \A r \in Rows : acknowledged[r] <= 1 + failures

AllConfigured == \A w \in Workers : configured[w] = Kinds

\* Every queued message of a regular channel is eventually sent or given up,
\* once every process has every channel configured for good: a crashed or
\* failed sweep delays it, and so do retries, but nothing loses it.
EveryRowSettles ==
    <>[]AllConfigured =>
        \A r \in Regular : (row[r].status \in Waiting) ~> (row[r].status \notin Waiting)

=============================================================================
