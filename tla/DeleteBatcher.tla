--------------------------- MODULE DeleteBatcher ---------------------------
(***************************************************************************)
(* consumer/delete_batcher.go: workers hand receipt handles to a bounded   *)
(* channel; every sender goroutine blocks for a first handle, drains what  *)
(* is already queued up to MaxBatch without waiting, and sends one         *)
(* DeleteMessageBatch request.  The owner closes the channel once, after   *)
(* the last enqueue, and waits for the senders.                            *)
(*                                                                         *)
(* A receipt handle is an opaque value.  The service (external) answers a  *)
(* request with an error, after which any part of it may have been         *)
(* applied, or with the list of entry Ids it failed to delete.  Settling   *)
(* (`requested') is the moment that answer is applied.                     *)
(***************************************************************************)
EXTENDS Naturals, Sequences, FiniteSets

CONSTANTS Handles,    \* receipt handles
          Senders,    \* sender goroutines
          Capacity,   \* buffer of the handles channel
          MaxBatch    \* maxDeleteBatch, 10 in the code

ASSUME BatcherAssumption ==
  /\ Capacity \in Nat \ {0}
  /\ MaxBatch \in Nat \ {0}
  /\ Senders # {}

VARIABLES handles,    \* contents of the buffered channel
          closed,     \* close(b.handles) has happened
          spc,        \* where each sender is in run
          batch,      \* the sender's local batch
          requested,  \* handles of answered requests (history)
          deleted,    \* handles the service deleted (history)
          reported    \* handles named by an error record of the log (history)

vars == <<handles, closed, spc, batch, requested, deleted, reported>>

SenderStates == {"recv", "drain", "send", "exited"}

InSeq(s) == {s[i] : i \in 1 .. Len(s)}

NoDup(s) == \A i, j \in 1 .. Len(s) : s[i] = s[j] => i = j

InBatch == UNION {InSeq(batch[s]) : s \in Senders}

\* Every handle enqueue has accepted so far.
Accepted == InSeq(handles) \cup InBatch \cup requested

\* newDeleteBatcher followed by start.
Init ==
  /\ handles = << >>
  /\ closed = FALSE
  /\ spc = [s \in Senders |-> "recv"]
  /\ batch = [s \in Senders |-> << >>]
  /\ requested = {}
  /\ deleted = {}
  /\ reported = {}

\* Mutant: the channel has no bound.
EnqueueUnbounded(h) ==
  /\ ~closed
  /\ h \notin Accepted
  /\ handles' = Append(handles, h)
  /\ UNCHANGED <<closed, spc, batch, requested, deleted, reported>>

\* enqueue: blocks while the channel is full.  A send on the closed channel
\* panics; that the owner never does it is shown where the owner is modelled
\* (Consumer!NoSendOnClosed).  A receipt handle is committed once.
Enqueue(h) ==
  /\ ~closed
  /\ Len(handles) < Capacity
  /\ h \notin Accepted
  /\ handles' = Append(handles, h)
  /\ UNCHANGED <<closed, spc, batch, requested, deleted, reported>>

\* The first half of close; the second half waits for AllExited.
Close ==
  /\ ~closed
  /\ closed' = TRUE
  /\ UNCHANGED <<handles, spc, batch, requested, deleted, reported>>

\* for first := range b.handles
RecvFirst(s) ==
  /\ spc[s] = "recv"
  /\ handles # << >>
  /\ handles' = Tail(handles)
  /\ batch' = [batch EXCEPT ![s] = <<Head(handles)>>]
  /\ spc' = [spc EXCEPT ![s] = "drain"]
  /\ UNCHANGED <<closed, requested, deleted, reported>>

\* Mutant: a sender stops as soon as the channel is closed, as it would with
\* a ctx.Done() case in the loop.
ExitUndrained(s) ==
  /\ spc[s] = "recv"
  /\ closed
  /\ spc' = [spc EXCEPT ![s] = "exited"]
  /\ UNCHANGED <<handles, closed, batch, requested, deleted, reported>>

\* The range loop ends: the channel is closed and empty.
Exit(s) ==
  /\ spc[s] = "recv"
  /\ closed
  /\ handles = << >>
  /\ spc' = [spc EXCEPT ![s] = "exited"]
  /\ UNCHANGED <<handles, closed, batch, requested, deleted, reported>>

\* Mutant: the drain loop's bound is off by one.
DrainOneMore(s) ==
  /\ spc[s] = "drain"
  /\ Len(batch[s]) <= MaxBatch
  /\ handles # << >>
  /\ handles' = Tail(handles)
  /\ batch' = [batch EXCEPT ![s] = Append(batch[s], Head(handles))]
  /\ UNCHANGED <<closed, spc, requested, deleted, reported>>

\* One more handle is ready and the batch has room.
DrainOne(s) ==
  /\ spc[s] = "drain"
  /\ Len(batch[s]) < MaxBatch
  /\ handles # << >>
  /\ handles' = Tail(handles)
  /\ batch' = [batch EXCEPT ![s] = Append(batch[s], Head(handles))]
  /\ UNCHANGED <<closed, spc, requested, deleted, reported>>

\* Mutant: the drain blocks until the batch is full (no default case).
DrainUntilFull(s) ==
  /\ spc[s] = "drain"
  /\ Len(batch[s]) >= MaxBatch
  /\ spc' = [spc EXCEPT ![s] = "send"]
  /\ UNCHANGED <<handles, closed, batch, requested, deleted, reported>>

\* The batch is full, or nothing is ready (open or closed alike).
DrainEnd(s) ==
  /\ spc[s] = "drain"
  /\ Len(batch[s]) >= MaxBatch \/ handles = << >>
  /\ spc' = [spc EXCEPT ![s] = "send"]
  /\ UNCHANGED <<handles, closed, batch, requested, deleted, reported>>

\* Mutant: entry Ids are read back as if they counted from 1.
ReportedFromOne(b, ids) == {b[i] : i \in {j \in ids : 0 < j /\ j <= Len(b)}}

\* batchIndex and reportFailed: the handles an error record names for the
\* failed entry Ids; an Id of no sent entry is logged raw and names none.
Reported(b, ids) == {b[i + 1] : i \in {j \in ids : 0 <= j /\ j < Len(b)}}

\* Mutant: the batch is not reset before the next request.
SettleNoReset(s, gone, logged) ==
  /\ requested' = requested \cup InSeq(batch[s])
  /\ deleted' = deleted \cup gone
  /\ reported' = reported \cup logged
  /\ spc' = [spc EXCEPT ![s] = "recv"]
  /\ UNCHANGED <<handles, closed, batch>>

\* What becomes of one answered request of sender s.
Settle(s, gone, logged) ==
  /\ requested' = requested \cup InSeq(batch[s])
  /\ deleted' = deleted \cup gone
  /\ reported' = reported \cup logged
  /\ batch' = [batch EXCEPT ![s] = << >>]
  /\ spc' = [spc EXCEPT ![s] = "recv"]
  /\ UNCHANGED <<handles, closed>>

\* send, request answered: the service deleted every entry whose Id (the
\* decimal batch index, from 0) it does not list as failed.
SendAnswered(s, ids) ==
  /\ spc[s] = "send"
  /\ Settle(s, {batch[s][i] : i \in {j \in 1 .. Len(batch[s]) : (j - 1) \notin ids}},
            Reported(batch[s], ids))

\* send, request failed or timed out: each handle of the batch is logged,
\* and the service may have applied any part `gone' of the request.
SendError(s, gone) ==
  /\ spc[s] = "send"
  /\ gone \subseteq InSeq(batch[s])
  /\ Settle(s, gone, InSeq(batch[s]))

Sender(s) ==
  \/ RecvFirst(s)
  \/ Exit(s)
  \/ DrainOne(s)
  \/ DrainEnd(s)
  \/ \E ids \in SUBSET (0 .. MaxBatch) : SendAnswered(s, ids)
  \/ \E gone \in SUBSET Handles : SendError(s, gone)

AllExited == \A s \in Senders : spc[s] = "exited"

\* After close returns nothing is left to do.
Terminated == AllExited /\ UNCHANGED vars

Next ==
  \/ \E h \in Handles : Enqueue(h)
  \/ Close
  \/ \E s \in Senders : Sender(s)
  \/ Terminated

\* The senders are goroutines the scheduler runs, and every request is bounded
\* by deleteRequestTimeout; the owner need not commit or close anything.
Fairness == \A s \in Senders : WF_vars(Sender(s))

Spec == Init /\ [][Next]_vars

FairSpec == Spec /\ Fairness

-----------------------------------------------------------------------------

\* Every variable of the batcher has its type, and the channel never holds
\* more than its capacity.
TypeOK ==
  /\ handles \in Seq(Handles)
  /\ Len(handles) <= Capacity
  /\ closed \in BOOLEAN
  /\ spc \in [Senders -> SenderStates]
  /\ batch \in [Senders -> Seq(Handles)]
  /\ requested \subseteq Handles
  /\ deleted \subseteq Handles
  /\ reported \subseteq Handles

\* A committed handle is in exactly one place: once in the channel, once in
\* one sender's batch, or in an answered request.  A handle in two places
\* would be deleted by two requests, and one in none would never be deleted.
OnePlace ==
  /\ NoDup(handles)
  /\ \A s \in Senders : NoDup(batch[s])
  /\ \A s, t \in Senders :
        s # t => InSeq(batch[s]) \cap InSeq(batch[t]) = {}
  /\ InSeq(handles) \cap (InBatch \cup requested) = {}
  /\ InBatch \cap requested = {}

\* A request carries at least one and at most maxDeleteBatch entries, which
\* is what the service accepts; outside drain and send the batch is empty.
BatchBounds ==
  \A s \in Senders :
    /\ spc[s] \in {"drain", "send"} => Len(batch[s]) \in 1 .. MaxBatch
    /\ spc[s] \in {"recv", "exited"} => batch[s] = << >>

\* "no pending delete is dropped during a graceful shutdown": a sender leaves
\* only after close and once the channel is drained, so when all have left
\* every committed handle was part of an answered request.
DrainedOnExit ==
  /\ \A s \in Senders : spc[s] = "exited" => closed /\ handles = << >>
  /\ AllExited => Accepted = requested

\* A handle whose delete did not take effect is named by an error record of
\* its own: the entry Id maps back to the handle it was built from.
FailuresReported == requested \subseteq deleted \cup reported

\* Backpressure never turns into a standstill: a committed handle is part of
\* an answered request in the end, closed or not.
EventuallyRequested == \A h \in Handles : (h \in Accepted) ~> (h \in requested)

\* The batcher implements the promise stated in PendingDeletes.
Promise ==
  INSTANCE PendingDeletes
    WITH pending <- InSeq(handles) \cup InBatch,
         settled <- requested,
         drained <- AllExited

\* The batcher keeps the promise of PendingDeletes: what was committed is
\* settled once, in batches of at most MaxBatch, and all of it before the drain
\* ends.
Refinement == Promise!Spec

=============================================================================
