--------------------------- MODULE PendingDeletes ---------------------------
(***************************************************************************)
(* What the batched-delete path promises to the workers that commit        *)
(* messages through it: a committed receipt handle is pending until one    *)
(* DeleteMessageBatch request of at most MaxBatch entries settles it, no   *)
(* handle is settled twice, none is accepted once the batcher is closed,   *)
(* and closing it returns only when nothing is pending.                    *)
(***************************************************************************)
EXTENDS Naturals, FiniteSets

CONSTANTS Handles,   \* receipt handles the workers may commit
          MaxBatch   \* entries one DeleteMessageBatch request may carry

VARIABLES pending,   \* committed and not yet part of an answered request
          settled,   \* part of an answered request
          closed,    \* no further commit is accepted
          drained    \* close has nothing left to wait for

vars == <<pending, settled, closed, drained>>

Init ==
  /\ pending = {}
  /\ settled = {}
  /\ closed = FALSE
  /\ drained = FALSE

Commit(h) ==
  /\ ~closed
  /\ h \notin pending \cup settled
  /\ pending' = pending \cup {h}
  /\ UNCHANGED <<settled, closed, drained>>

Settle(S) ==
  /\ S # {}
  /\ S \subseteq pending
  /\ Cardinality(S) <= MaxBatch
  /\ ~drained
  /\ pending' = pending \ S
  /\ settled' = settled \cup S
  /\ UNCHANGED <<closed, drained>>

Close ==
  /\ ~closed
  /\ closed' = TRUE
  /\ UNCHANGED <<pending, settled, drained>>

Drain ==
  /\ closed
  /\ pending = {}
  /\ ~drained
  /\ drained' = TRUE
  /\ UNCHANGED <<pending, settled, closed>>

Next ==
  \/ \E h \in Handles : Commit(h)
  \/ \E S \in SUBSET Handles : Settle(S)
  \/ Close
  \/ Drain

Spec == Init /\ [][Next]_vars

=============================================================================
