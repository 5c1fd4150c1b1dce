-------------------------- MODULE MCScheduledRetry --------------------------
(***************************************************************************)
(* One retry before the DLQ, an attribute cap of three, ints of four bits. *)
(***************************************************************************)
EXTENDS ScheduledRetry

\* As producers send it, malformed, put back from the DLQ, the largest int.
MCStarts ==
  {[counts |-> <<Absent>>, faults |-> 2],
   [counts |-> <<Malformed>>, faults |-> 1],
   [counts |-> <<MaxRetryCount + 1>>, faults |-> 2],
   [counts |-> <<MaxInt>>, faults |-> 1]}
TwoAttributes == {1, 2}

=============================================================================
