------------------------------ MODULE Consumer ------------------------------
(***************************************************************************)
(* One running consumer under either retry model: the poll loop of         *)
(* consumer/consumer.go, the worker pool and group barrier of              *)
(* consumer/dispatch.go and barrier.go, the batched deletes of             *)
(* DeleteBatcher, and the graceful shutdown that ties them together, over  *)
(* an SQS FIFO queue (external).  What becomes of a message that the       *)
(* Scheduled model hands on is the subject of ScheduledRetry.              *)
(*                                                                         *)
(* Messages are their positions in the queue.  A delivery is a message     *)
(* with the receipt it was received under (its receive count) and the      *)
(* batch that carried it, which stands for the batch's group barrier.      *)
(* Everything that goes wrong (handler errors and backoffs, failed or lost *)
(* API calls, a visibility timeout that runs out while the consumer still  *)
(* holds the message) is drawn from one budget, env.maxFaults, so that the *)
(* states are finite and "eventually" means: once the faults stop.         *)
(***************************************************************************)
EXTENDS Naturals, Sequences, FiniteSets

CONSTANTS N,            \* messages 1..N, in queue order
          Groups,       \* MessageGroupIds
          Keys,         \* group keys (group ID and custom group fields)
          KeyOf,        \* message -> its group key (groupKey)
          Workers,      \* worker goroutines, and the senders of the batcher
          WorkerOf,     \* group key -> worker (groupIndex)
          Settings,     \* routes the consumer may be built for, with their surroundings
          MaxMessages,  \* receive batch size and worker channel buffer
          MaxBatch      \* maxDeleteBatch

Msgs == 1 .. N

\* Run mode (PerGroupID, or else Parallel), router.WithDeleteBatch, and retry
\* model (Scheduled, or else Visibility).
RouteOptions == [perGroupID : BOOLEAN, deleteBatch : BOOLEAN, scheduled : BOOLEAN]

\* What the consumer runs among: the MessageGroupId of each message, whether
\* the caller may cancel, and a bound on everything that goes wrong.
Surroundings == [groupOf : [Msgs -> Groups], mayCancel : BOOLEAN, maxFaults : Nat]

ASSUME ConsumerAssumption ==
  /\ N \in Nat
  /\ KeyOf \in [Msgs -> Keys]
  /\ Settings \subseteq [route : RouteOptions, env : Surroundings]
  /\ \A s \in Settings, m, n \in Msgs :
       KeyOf[m] = KeyOf[n] => s.env.groupOf[m] = s.env.groupOf[n]
  /\ WorkerOf \in [Keys -> Workers]
  /\ IsFiniteSet(Workers) /\ Workers # {}
  /\ MaxMessages \in Nat \ {0}
  /\ MaxBatch \in Nat \ {0}

VARIABLES
  route,      \* the options of the route
  env,        \* the surroundings
  sqs,        \* message -> "visible", "inflight" or "gone"
  rcv,        \* message -> receive count; the current receipt
  cancelled,  \* ctx is canceled
  rpc,        \* where the goroutine of Run is
  pending,    \* received deliveries poll has not dispatched yet
  batchNo,    \* batches received so far; names the current group barrier
  poisoned,   \* <<batch, key>> pairs recorded by barrier.fail
  chan,       \* worker -> contents of its channel
  chClosed,   \* the worker channels are closed
  wpc,        \* where each worker is
  cur,        \* the delivery each worker is on
  handled,    \* <<message, receipt>> of deliveries whose handler succeeded (history)
  moved,      \* those whose message a schedule or the DLQ has taken over (history)
  faults,     \* faults so far
  handles, closed, spc, batch, requested, deleted, reported  \* DeleteBatcher

settings == <<route, env>>
batcherVars == <<handles, closed, spc, batch, requested, deleted, reported>>
queueVars == <<sqs, rcv>>
ends == <<handled, moved>>
pollVars == <<rpc, pending, batchNo>>
workerVars == <<poisoned, chan, chClosed, wpc, cur, ends>>

vars == <<settings, queueVars, cancelled, pollVars, workerVars, faults, batcherVars>>

Batcher ==
  INSTANCE DeleteBatcher
    WITH Handles <- Msgs \X Nat,
         Senders <- Workers,
         Capacity <- Cardinality(Workers) * MaxMessages

Deliveries == [msg : Msgs, receipt : Nat, batch : Nat]

Handle(d) == <<d.msg, d.receipt>>

Idle == "idle"

Init ==
  /\ \E s \in Settings : route = s.route /\ env = s.env
  /\ sqs = [m \in Msgs |-> "visible"]
  /\ rcv = [m \in Msgs |-> 0]
  /\ cancelled = FALSE
  /\ rpc = "poll"
  /\ pending = << >>
  /\ batchNo = 0
  /\ poisoned = {}
  /\ chan = [w \in Workers |-> << >>]
  /\ chClosed = FALSE
  /\ wpc = [w \in Workers |-> Idle]
  /\ cur = [w \in Workers |-> << >>]
  /\ handled = {}
  /\ moved = {}
  /\ faults = 0
  /\ Batcher!Init

\* One more thing goes wrong.
Fault == faults < env.maxFaults /\ faults' = faults + 1

-----------------------------------------------------------------------------
(* The queue.                                                               *)

SameGroup(m, n) == env.groupOf[m] = env.groupOf[n]

\* A FIFO queue delivers nothing of a group that has a message in flight.
Available ==
  {m \in Msgs : /\ sqs[m] = "visible"
                /\ \A n \in Msgs : SameGroup(m, n) => sqs[n] # "inflight"}

\* What one ReceiveMessage call may return: of each group the oldest messages.
Batches ==
  {S \in SUBSET Available :
     /\ S # {}
     /\ Cardinality(S) <= MaxMessages
     /\ \A m \in S, n \in Available : (SameGroup(m, n) /\ n < m) => n \in S}

\* The messages of S become in flight under a new receipt.
Deliver(S) ==
  /\ sqs' = [m \in Msgs |-> IF m \in S THEN "inflight" ELSE sqs[m]]
  /\ rcv' = [m \in Msgs |-> IF m \in S THEN rcv[m] + 1 ELSE rcv[m]]

\* Deleting under an expired receipt has no effect on a FIFO queue.
DeleteAll(H) ==
  sqs' = [m \in Msgs |-> IF sqs[m] = "inflight" /\ <<m, rcv[m]>> \in H
                           THEN "gone" ELSE sqs[m]]

\* The consumer still has the current delivery of m somewhere.
Holds(m) ==
  LET h == <<m, rcv[m]>>
      InFlight(q) == \E i \in 1 .. Len(q) : Handle(q[i]) = h
  IN  \/ InFlight(pending)
      \/ \E w \in Workers : InFlight(chan[w]) \/ InFlight(cur[w])
      \/ h \in Batcher!InSeq(handles) \cup Batcher!InBatch

\* The visibility timeout of m runs out.  For a message the consumer holds
\* that is a fault: it waited too long in a channel, or its extensions failed
\* or ran out.  For one it has given up it is how redelivery happens.
Expire(m) ==
  /\ sqs[m] = "inflight"
  /\ sqs' = [sqs EXCEPT ![m] = "visible"]
  /\ IF Holds(m) THEN Fault ELSE UNCHANGED faults
  /\ UNCHANGED <<settings, rcv, cancelled, pollVars, workerVars, batcherVars>>

-----------------------------------------------------------------------------
(* The goroutine of Run: poll, then the deferred stop.                      *)

\* Mutant: a receive that failed by cancellation is retried like any other.
PollStopRetries ==
  /\ rpc = "poll"
  /\ cancelled
  /\ rpc' = "wait"
  /\ UNCHANGED <<settings, queueVars, cancelled, pending, batchNo, workerVars, faults, batcherVars>>

\* ctx is canceled: at the top of the loop, or as the error of a receive that
\* retryAfterError does not retry.
PollStop ==
  /\ rpc = "poll"
  /\ cancelled
  /\ rpc' = "stop"
  /\ UNCHANGED <<settings, queueVars, cancelled, pending, batchNo, workerVars, faults, batcherVars>>

\* The messages of S in queue order.
InOrder(S) ==
  {q \in [1 .. Cardinality(S) -> S] : \A i, j \in DOMAIN q : i < j => q[i] < q[j]}

\* ReceiveMessage returned messages; they get a barrier of their own.
Receive(S) ==
  /\ rpc = "poll"
  /\ ~cancelled
  /\ Deliver(S)
  /\ batchNo' = batchNo + 1
  /\ \E order \in InOrder(S) :
       pending' = [i \in 1 .. Len(order) |->
                     [msg |-> order[i], receipt |-> rcv[order[i]] + 1, batch |-> batchNo + 1]]
  /\ rpc' = "dispatch"
  /\ UNCHANGED <<settings, cancelled, workerVars, faults, batcherVars>>

\* The long poll ends without messages.
ReceiveEmpty ==
  /\ rpc = "poll"
  /\ ~cancelled
  /\ Available = {}
  /\ UNCHANGED vars

\* ReceiveMessage failed; the service may have handed out S all the same.
ReceiveError(S) ==
  /\ rpc = "poll"
  /\ ~cancelled
  /\ Fault
  /\ Deliver(S)
  /\ rpc' = "wait"
  /\ UNCHANGED <<settings, cancelled, pending, batchNo, workerVars, batcherVars>>

\* The retry wait ends by its timer or by cancellation.
WaitOver ==
  /\ rpc = "wait"
  /\ rpc' \in {"poll"} \cup (IF cancelled THEN {"stop"} ELSE {})
  /\ UNCHANGED <<settings, queueVars, cancelled, pending, batchNo, workerVars, faults, batcherVars>>

\* workerIndex: any worker in Parallel mode, the key's worker in PerGroupID.
WorkerIndexes(m) == IF route.perGroupID THEN {WorkerOf[KeyOf[m]]} ELSE Workers

\* The poll loop moves on to the next message of the batch, or to the next
\* batch.
Advance ==
  /\ pending' = Tail(pending)
  /\ rpc' = IF Len(pending) = 1 THEN "poll" ELSE "dispatch"

\* dispatch, the channel case of the select.
Dispatch(w) ==
  /\ rpc = "dispatch"
  /\ w \in WorkerIndexes(Head(pending).msg)
  /\ Len(chan[w]) < MaxMessages
  /\ chan' = [chan EXCEPT ![w] = Append(chan[w], Head(pending))]
  /\ Advance
  /\ UNCHANGED <<settings, queueVars, cancelled, batchNo, poisoned, chClosed, wpc, cur, ends,
                 faults, batcherVars>>

\* dispatch, the ctx.Done case: the message is dropped and the loop over the
\* batch goes on.  Once ctx is canceled the select takes either ready case.
DispatchDrop ==
  /\ rpc = "dispatch"
  /\ cancelled
  /\ Advance
  /\ UNCHANGED <<settings, queueVars, cancelled, batchNo, workerVars, faults, batcherVars>>

\* stop closes the worker channels ...
CloseChannels ==
  /\ rpc = "stop"
  /\ chClosed' = TRUE
  /\ rpc' = "waitWorkers"
  /\ UNCHANGED <<settings, queueVars, cancelled, pending, batchNo, poisoned, chan, wpc, cur, ends,
                 faults, batcherVars>>

WorkersGone == \A w \in Workers : wpc[w] = "exited"

\* Mutant: the batcher is closed while workers may still enqueue.
CloseBatcherFirst ==
  /\ rpc = "waitWorkers"
  /\ route.deleteBatch
  /\ Batcher!Close
  /\ rpc' = "waitSenders"
  /\ UNCHANGED <<settings, queueVars, cancelled, pending, batchNo, workerVars, faults>>

\* ... waits for the workers, then closes the batcher ...
CloseBatcher ==
  /\ rpc = "waitWorkers"
  /\ WorkersGone
  /\ route.deleteBatch
  /\ Batcher!Close
  /\ rpc' = "waitSenders"
  /\ UNCHANGED <<settings, queueVars, cancelled, pending, batchNo, workerVars, faults>>

\* Mutant: Run returns without waiting for the goroutines it started.
ReturnEarly ==
  /\ rpc \in {"waitWorkers", "waitSenders"}
  /\ rpc' = "returned"
  /\ UNCHANGED <<settings, queueVars, cancelled, pending, batchNo, workerVars, faults, batcherVars>>

\* ... and waits for its senders; without a batcher the workers were the last.
Return ==
  /\ \/ rpc = "waitWorkers" /\ WorkersGone /\ ~route.deleteBatch
     \/ rpc = "waitSenders" /\ Batcher!AllExited
  /\ rpc' = "returned"
  /\ UNCHANGED <<settings, queueVars, cancelled, pending, batchNo, workerVars, faults, batcherVars>>

Poller ==
  \/ PollStop
  \/ \E S \in Batches : Receive(S)
  \/ \E S \in Batches \cup {{}} : ReceiveError(S)
  \/ WaitOver
  \/ \E w \in Workers : Dispatch(w)
  \/ DispatchDrop
  \/ CloseChannels
  \/ CloseBatcher
  \/ Return

-----------------------------------------------------------------------------
(* The workers.                                                             *)

\* PerGroupID under the Visibility model.
OrderedGroups == route.perGroupID /\ ~route.scheduled

\* barrier.failed for the batch and group key of d.
HeldBack(d) == OrderedGroups /\ <<d.batch, KeyOf[d.msg]>> \in poisoned

\* Mutant: the worker keeps the message for later instead of letting it go.
HoldRequeues(w) ==
  /\ wpc[w] = Idle
  /\ chan[w] # << >>
  /\ HeldBack(Head(chan[w]))
  /\ chan' = [chan EXCEPT ![w] = Append(Tail(chan[w]), Head(chan[w]))]
  /\ UNCHANGED <<settings, queueVars, cancelled, pollVars, poisoned, chClosed, wpc, cur, ends,
                 faults, batcherVars>>

\* holdForOrder: the message is left in the queue and its handler never runs.
Hold(w) ==
  /\ wpc[w] = Idle
  /\ chan[w] # << >>
  /\ HeldBack(Head(chan[w]))
  /\ chan' = [chan EXCEPT ![w] = Tail(chan[w])]
  /\ UNCHANGED <<settings, queueVars, cancelled, pollVars, poisoned, chClosed, wpc, cur, ends,
                 faults, batcherVars>>

\* process calls the handler.
StartHandler(w) ==
  /\ wpc[w] = Idle
  /\ chan[w] # << >>
  /\ ~HeldBack(Head(chan[w]))
  /\ chan' = [chan EXCEPT ![w] = Tail(chan[w])]
  /\ cur' = [cur EXCEPT ![w] = <<Head(chan[w])>>]
  /\ wpc' = [wpc EXCEPT ![w] = "handling"]
  /\ UNCHANGED <<settings, queueVars, cancelled, pollVars, poisoned, chClosed, ends,
                 faults, batcherVars>>

\* Mutant: a failure does not hold back the rest of its group.
HandlerFailsNoBarrier(w) ==
  /\ ~route.scheduled
  /\ wpc[w] = "handling"
  /\ Fault
  /\ cur' = [cur EXCEPT ![w] = << >>]
  /\ wpc' = [wpc EXCEPT ![w] = Idle]
  /\ UNCHANGED <<settings, queueVars, cancelled, pollVars, poisoned, chan, chClosed, ends, batcherVars>>

\* Visibility model: the handler returned an error or asked for a backoff,
\* failGroup, and the message stays in the queue.
HandlerFails(w) ==
  /\ ~route.scheduled
  /\ wpc[w] = "handling"
  /\ Fault
  /\ poisoned' = IF OrderedGroups
                   THEN poisoned \cup {<<cur[w][1].batch, KeyOf[cur[w][1].msg]>>}
                   ELSE poisoned
  /\ cur' = [cur EXCEPT ![w] = << >>]
  /\ wpc' = [wpc EXCEPT ![w] = Idle]
  /\ UNCHANGED <<settings, queueVars, cancelled, pollVars, chan, chClosed, ends, batcherVars>>

\* Scheduled model: processScheduled goes on to a schedule or the DLQ.  This is
\* no fault, the message leaves the queue all the same.
HandlerFailsScheduled(w) ==
  /\ route.scheduled
  /\ wpc[w] = "handling"
  /\ wpc' = [wpc EXCEPT ![w] = "handOn"]
  /\ UNCHANGED <<settings, queueVars, cancelled, pollVars, poisoned, chan, chClosed, cur, ends,
                 faults, batcherVars>>

\* The handler returned nil without a backoff; deleteMessage is next.
HandlerSucceeds(w) ==
  /\ wpc[w] = "handling"
  /\ handled' = handled \cup {Handle(cur[w][1])}
  /\ wpc' = [wpc EXCEPT ![w] = "commit"]
  /\ UNCHANGED <<settings, queueVars, cancelled, pollVars, poisoned, chan, chClosed, cur, moved,
                 faults, batcherVars>>

\* The worker is done with its message.
Release(w) ==
  /\ cur' = [cur EXCEPT ![w] = << >>]
  /\ wpc' = [wpc EXCEPT ![w] = Idle]

HandOn(w) == moved' = moved \cup {Handle(cur[w][1])}

\* schedule or publish succeeded: deleteMessage is next.
HandedOn(w) ==
  /\ wpc[w] = "handOn"
  /\ ~cancelled
  /\ HandOn(w)
  /\ wpc' = [wpc EXCEPT ![w] = "commit"]
  /\ UNCHANGED <<settings, queueVars, cancelled, pollVars, poisoned, chan, chClosed, cur, handled,
                 faults, batcherVars>>

\* Mutant: a message that could not be handed on is deleted.
HandOnFailsCommits(w) ==
  /\ wpc[w] = "handOn"
  /\ \/ cancelled /\ UNCHANGED <<moved, faults>>
     \/ Fault /\ (HandOn(w) \/ UNCHANGED moved)
  /\ wpc' = [wpc EXCEPT ![w] = "commit"]
  /\ UNCHANGED <<settings, queueVars, cancelled, pollVars, poisoned, chan, chClosed, cur, handled,
                 batcherVars>>

\* It failed, as every call under a canceled context does, or its answer was
\* lost: the message is retained.
HandOnFails(w) ==
  /\ wpc[w] = "handOn"
  /\ \/ cancelled /\ UNCHANGED <<moved, faults>>
     \/ Fault /\ (HandOn(w) \/ UNCHANGED moved)
  /\ Release(w)
  /\ UNCHANGED <<settings, queueVars, cancelled, pollVars, poisoned, chan, chClosed, handled,
                 batcherVars>>

\* deleteMessage, synchronous path: DeleteMessage under the run context, so it
\* cannot succeed once ctx is canceled; any error, the service having applied
\* the request or not, is logged and swallowed.
DeleteSync(w) ==
  /\ wpc[w] = "commit"
  /\ ~route.deleteBatch
  /\ \/ ~cancelled /\ DeleteAll({Handle(cur[w][1])}) /\ UNCHANGED faults
     \/ ~cancelled /\ Fault /\ (DeleteAll({Handle(cur[w][1])}) \/ UNCHANGED sqs)
     \/ cancelled /\ UNCHANGED <<sqs, faults>>
  /\ Release(w)
  /\ UNCHANGED <<settings, rcv, cancelled, pollVars, poisoned, chan, chClosed, ends, batcherVars>>

\* deleteMessage, batched path: the handle goes to the batcher, whose queue
\* may be full.
DeleteBatched(w) ==
  /\ wpc[w] = "commit"
  /\ route.deleteBatch
  /\ Batcher!Enqueue(Handle(cur[w][1]))
  /\ Release(w)
  /\ UNCHANGED <<settings, queueVars, cancelled, pollVars, poisoned, chan, chClosed, ends, faults>>

\* The worker's channel is closed and drained.
WorkerExit(w) ==
  /\ wpc[w] = Idle
  /\ chan[w] = << >>
  /\ chClosed
  /\ wpc' = [wpc EXCEPT ![w] = "exited"]
  /\ UNCHANGED <<settings, queueVars, cancelled, pollVars, poisoned, chan, chClosed, cur, ends,
                 faults, batcherVars>>

Worker(w) ==
  \/ Hold(w)
  \/ StartHandler(w)
  \/ HandlerFails(w)
  \/ HandlerFailsScheduled(w)
  \/ HandedOn(w)
  \/ HandOnFails(w)
  \/ HandlerSucceeds(w)
  \/ DeleteSync(w)
  \/ DeleteBatched(w)
  \/ WorkerExit(w)

-----------------------------------------------------------------------------
(* The senders of the batcher, started on a context without cancellation.   *)

OtherThanBatcher == <<settings, queueVars, cancelled, pollVars, workerVars, faults>>

\* Mutant: the senders run under the canceled context.
SendAnsweredCanceled(s, ids) ==
  /\ Batcher!SendAnswered(s, ids)
  /\ IF cancelled THEN UNCHANGED sqs ELSE DeleteAll(deleted')
  /\ IF ids = {} THEN UNCHANGED faults ELSE Fault
  /\ UNCHANGED <<settings, rcv, cancelled, pollVars, workerVars>>

\* The answer to a DeleteMessageBatch request reaches both the batcher and the
\* queue; entries the service did not delete cost one fault.
SendAnswered(s, ids) ==
  /\ Batcher!SendAnswered(s, ids)
  /\ DeleteAll(deleted')
  /\ IF ids = {} THEN UNCHANGED faults ELSE Fault
  /\ UNCHANGED <<settings, rcv, cancelled, pollVars, workerVars>>

\* The request failed or timed out after the service applied part of it.
SendError(s, gone) ==
  /\ Batcher!SendError(s, gone)
  /\ DeleteAll(deleted')
  /\ Fault
  /\ UNCHANGED <<settings, rcv, cancelled, pollVars, workerVars>>

SenderMoves(s) ==
  /\ \/ Batcher!RecvFirst(s)
     \/ Batcher!Exit(s)
     \/ Batcher!DrainOne(s)
     \/ Batcher!DrainEnd(s)
  /\ UNCHANGED OtherThanBatcher

Sender(s) ==
  /\ route.deleteBatch
  /\ \/ SenderMoves(s)
     \/ \E ids \in SUBSET (0 .. Len(batch[s]) - 1) : SendAnswered(s, ids)
     \/ \E gone \in SUBSET Batcher!InSeq(batch[s]) : SendError(s, gone)

-----------------------------------------------------------------------------

\* The caller cancels the context of Run.
Cancel ==
  /\ env.mayCancel
  /\ ~cancelled
  /\ cancelled' = TRUE
  /\ UNCHANGED <<settings, queueVars, pollVars, workerVars, faults, batcherVars>>

\* Run has returned.
Returned == rpc = "returned" /\ UNCHANGED vars

Next ==
  \/ Poller
  \/ ReceiveEmpty
  \/ \E w \in Workers : Worker(w)
  \/ \E s \in Workers : Sender(s)
  \/ \E m \in Msgs : Expire(m)
  \/ Cancel
  \/ Returned

Spec == Init /\ [][Next]_vars

\* Goroutines are scheduled, handlers return, every API call ends (the SDK and
\* deleteRequestTimeout bound it), long polling returns messages when there
\* are some, and a visibility timeout runs out.  Nothing obliges the caller to
\* cancel.
Fairness ==
  /\ WF_vars(Poller)
  /\ \A w \in Workers : WF_vars(Worker(w)) /\ WF_vars(Sender(w))
  /\ \A m \in Msgs : WF_vars(Expire(m) /\ ~Holds(m))

FairSpec == Spec /\ Fairness

-----------------------------------------------------------------------------

\* Every variable of Run, its workers and senders has its type; no worker
\* channel, delete channel or batch of deletes outgrows its capacity.
TypeOK ==
  /\ [route |-> route, env |-> env] \in Settings
  /\ sqs \in [Msgs -> {"visible", "inflight", "gone"}]
  /\ rcv \in [Msgs -> Nat]
  /\ cancelled \in BOOLEAN
  /\ rpc \in {"poll", "wait", "dispatch", "stop", "waitWorkers", "waitSenders", "returned"}
  /\ pending \in Seq(Deliveries)
  /\ rpc = "dispatch" <=> pending # << >>
  /\ batchNo \in Nat
  /\ poisoned \subseteq Nat \X Keys
  /\ chan \in [Workers -> Seq(Deliveries)]
  /\ \A w \in Workers : Len(chan[w]) <= MaxMessages
  /\ chClosed \in BOOLEAN
  /\ wpc \in [Workers -> {Idle, "handling", "handOn", "commit", "exited"}]
  /\ cur \in [Workers -> Seq(Deliveries)]
  /\ \A w \in Workers : Len(cur[w]) = IF wpc[w] \in {"handling", "handOn", "commit"} THEN 1 ELSE 0
  /\ handled \subseteq Msgs \X Nat
  /\ moved \subseteq Msgs \X Nat
  /\ faults \in 0 .. env.maxFaults
  /\ Batcher!TypeOK

\* Messages whose handler succeeded at least once.
Succeeded == {h[1] : h \in handled}

\* Messages that need the queue no more.
Committed == {h[1] : h \in handled \cup moved}

\* PerGroupID: "a group's messages are handled in order".  Whatever is
\* redelivered, held back or expires, no message's handler succeeds before the
\* handler of every earlier message of its group key has.  A context that is
\* canceled does not change that.
GroupOrder ==
  OrderedGroups => \A m \in Succeeded, n \in Msgs :
                     (KeyOf[n] = KeyOf[m] /\ n < m) => n \in Succeeded

Promise ==
  INSTANCE OrderedQueue
    WITH ordered <- OrderedGroups /\ ~cancelled,
         done <- Committed,
         gone <- {m \in Msgs : sqs[m] = "gone"}

\* The consumer implements OrderedQueue: messages of a key are done with one
\* after the other under PerGroupID and the Visibility model until ctx is
\* canceled (what dispatch does with a batch then, GroupOrder shows), and
\* removed only after that, for good, under every option, through redelivery
\* and shutdown.
Refinement == Promise!Spec

\* At-least-once: a message leaves the queue only after its handler succeeded,
\* or under the Scheduled model after a schedule or the DLQ has it; errors,
\* backoffs, held-back and dropped messages, and those that could not be handed
\* on, all stay.
NoLoss ==
  \A m \in Msgs : sqs[m] = "gone" =>
    m \in IF route.scheduled THEN Committed ELSE Succeeded

\* No goroutine sends on a closed channel, which would panic: poll is over when
\* the worker channels close, and every worker is gone when the batcher closes.
NoSendOnClosed ==
  /\ chClosed => rpc \in {"waitWorkers", "waitSenders", "returned"}
  /\ closed => chClosed /\ WorkersGone

\* Run returns with nothing left behind: no worker or sender goroutine, no
\* message in a channel, and the deletes sent are those of the messages that were
\* handled, all of them, and of messages handed on.
CleanReturn ==
  rpc = "returned" =>
    /\ WorkersGone
    /\ \A w \in Workers : chan[w] = << >>
    /\ route.deleteBatch => /\ Batcher!AllExited
                            /\ handled \subseteq requested
                            /\ requested \subseteq handled \cup moved

\* "teardown also sends every pending delete ... unaffected by ctx
\* cancellation": on a batched-delete route, with nothing going wrong, every
\* message handled or handed on by the time Run returns is deleted.
HandledAreDeleted ==
  (rpc = "returned" /\ route.deleteBatch /\ faults = 0) =>
    \A m \in Committed : sqs[m] = "gone"

\* Graceful shutdown ends: after cancellation Run returns.
ShutdownCompletes == cancelled ~> (rpc = "returned")

\* Nothing starves: once the faults stop, every message is handled and
\* deleted, including a group whose head failed and whose tail was held back,
\* unless the caller cancels.
AllDeleted == <>(cancelled \/ \A m \in Msgs : sqs[m] = "gone")

=============================================================================
