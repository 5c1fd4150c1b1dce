--------------------------- MODULE ConsumerProofs ---------------------------
(***************************************************************************)
(* The safety of one running consumer for any number of messages, groups   *)
(* and workers, both run modes, both delete paths, both retry models, and  *)
(* any faults: what leaves the queue, how it shuts down, and the order of  *)
(* a group.  The delete batcher is used through its own theorems.          *)
(***************************************************************************)
EXTENDS Consumer, FiniteSetTheorems, SequenceTheorems, TLAPS

\* The delete batcher of the consumer, with what is proved about it.
BP ==
  INSTANCE DeleteBatcherProofs
    WITH Handles <- Msgs \X Nat,
         Senders <- Workers,
         Capacity <- Cardinality(Workers) * MaxMessages

-----------------------------------------------------------------------------
(* The inductive invariant.                                                 *)

\* The stages of stop: who is gone, and what is closed, at each of them.
Stopping ==
  /\ chClosed <=> rpc \in {"waitWorkers", "waitSenders", "returned"}
  /\ closed <=> route.deleteBatch /\ rpc \in {"waitSenders", "returned"}
  /\ rpc \in {"waitSenders", "returned"} => WorkersGone
  /\ \A w \in Workers : wpc[w] = "exited" => chClosed /\ chan[w] = << >>
  /\ rpc = "returned" /\ route.deleteBatch => Batcher!AllExited

\* Deliveries whose worker is about to delete them.
Commits == {Handle(cur[w][1]) : w \in {v \in Workers : wpc[v] = "commit"}}

\* Nothing is deleted, or on its way to it, that did not end well; only the
\* Scheduled model hands on.
EndedWell ==
  /\ Commits \subseteq handled \cup moved
  /\ Batcher!Accepted \cup deleted \subseteq handled \cup moved
  /\ \A m \in Msgs : sqs[m] = "gone" => m \in Committed
  /\ ~route.scheduled => moved = {} /\ \A w \in Workers : wpc[w] # "handOn"

\* On the batched path what was handled is with the batcher, or almost.
HandledQueued == route.deleteBatch => handled \subseteq Batcher!Accepted \cup Commits

\* The receipts of a channel or batch of deliveries.
HandlesOf(q) == {Handle(q[i]) : i \in 1 .. Len(q)}

\* The receipts that wait with the batcher.
Waiting == Batcher!InSeq(handles) \cup Batcher!InBatch

\* The consumer has the receipt h somewhere.
Has(h) ==
  \/ h \in HandlesOf(pending)
  \/ \E w \in Workers : h \in HandlesOf(chan[w]) \cup HandlesOf(cur[w])
  \/ h \in Waiting

\* With nothing gone wrong, every receipt the consumer has is current, and every
\* answered delete took effect.
Faultless ==
  route.deleteBatch /\ faults = 0 =>
    /\ moved \subseteq Batcher!Accepted \cup Commits
    /\ \A h \in Msgs \X Nat : Has(h) => rcv[h[1]] = h[2] /\ sqs[h[1]] # "visible"
    /\ \A h \in requested : sqs[h[1]] = "gone"

\* The inductive invariant.
Inv ==
  /\ TypeOK
  /\ BP!Inv
  /\ Stopping
  /\ EndedWell
  /\ HandledQueued
  /\ Faultless

\* Earlier messages of the same key.
Before(m) == {n \in Msgs : KeyOf[n] = KeyOf[m] /\ n < m}

\* The delivery of n that came with d is among the first k of q.
Ahead(n, d, q, k) == \E j \in 1 .. k : q[j].msg = n /\ q[j].batch = d.batch

\* The handler of n has succeeded, or the barrier holds d back.
Excused(n, d) == n \in Succeeded \/ <<d.batch, KeyOf[d.msg]>> \in poisoned

\* Every message before d is excused or ahead of d: in the handler, ...
HandlerReady ==
  \A w \in Workers : wpc[w] = "handling" => Before(cur[w][1].msg) \subseteq Succeeded

\* ... in a worker's channel ...
ChannelReady ==
  \A w \in Workers : \A i \in 1 .. Len(chan[w]) : \A n \in Before(chan[w][i].msg) :
    \/ Excused(n, chan[w][i])
    \/ Ahead(n, chan[w][i], cur[w], Len(cur[w]))
    \/ Ahead(n, chan[w][i], chan[w], i - 1)

\* ... or in the poll loop, which will hand d to the worker of its key.
PendingReady ==
  \A i \in 1 .. Len(pending) : \A n \in Before(pending[i].msg) :
    LET d == pending[i]
        w == WorkerOf[KeyOf[d.msg]]
    IN  \/ Excused(n, d)
        \/ Ahead(n, d, cur[w], Len(cur[w]))
        \/ Ahead(n, d, chan[w], Len(chan[w]))
        \/ Ahead(n, d, pending, i - 1)

OrderInv == OrderedGroups /\ ~cancelled => HandlerReady /\ ChannelReady /\ PendingReady

-----------------------------------------------------------------------------
(* The consumer drives the batcher as its module specifies.                 *)

\* The channel of the batcher has room for every worker's batch.
LEMMA BatcherSized == BP!BatcherAssumption
<1>1. Cardinality(Workers) \in Nat \ {0}
  BY ConsumerAssumption, FS_CardinalityType, FS_EmptySet
<1>2. Cardinality(Workers) * MaxMessages \in Nat \ {0}
  BY <1>1, ConsumerAssumption
<1> QED
  BY <1>2, ConsumerAssumption DEF BP!BatcherAssumption

\* The batcher starts in a state its own proof allows.
LEMMA BatcherInit == Batcher!Init => BP!Inv
<1>1. Batcher!Init => BP!Init
  BY DEF Batcher!Init, BP!Init
<1> QED
  BY <1>1, BatcherSized, BP!InvInit

\* Every step of the batcher stays within them.
LEMMA BatcherInductive == BP!Inv /\ [BP!Next]_(BP!vars) => BP!Inv'
  BY BatcherSized, BP!TypeStep, BP!OnePlaceStep, BP!BoundsStep, BP!DrainedStep, BP!ReportedStep DEF BP!Inv

\* A worker that is not idle has one delivery in hand.
LEMMA InHand ==
  ASSUME TypeOK, NEW w \in Workers, wpc[w] \in {"handling", "handOn", "commit"}
  PROVE  /\ Len(cur[w]) = 1
         /\ cur[w][1] \in Deliveries
         /\ Handle(cur[w][1]) \in Msgs \X Nat
<1>1. cur[w] \in Seq(Deliveries) /\ Len(cur[w]) = 1
  BY DEF TypeOK
<1>2. cur[w][1] \in Deliveries
  BY <1>1
<1> QED
  BY <1>1, <1>2 DEF Handle, Deliveries

\* A sender of the consumer is a sender of the batcher.
LEMMA SenderIsBatchers ==
  ASSUME BP!Inv, NEW s \in Workers, Sender(s)
  PROVE  BP!Sender(s)
<1>1. CASE SenderMoves(s)
  BY <1>1 DEF SenderMoves, Batcher!RecvFirst, BP!RecvFirst, Batcher!Exit, BP!Exit,
     Batcher!DrainOne, BP!DrainOne, Batcher!DrainEnd, BP!DrainEnd, BP!Sender
<1>2. ASSUME NEW ids \in SUBSET (0 .. Len(batch[s]) - 1), SendAnswered(s, ids) PROVE BP!Sender(s)
  <2>1. Len(batch[s]) \in 1 .. MaxBatch /\ MaxBatch \in Nat
    BY <1>2, ConsumerAssumption DEF SendAnswered, Batcher!SendAnswered, BP!Inv, BP!BatchBounds
  <2>2. ids \in SUBSET (0 .. MaxBatch)
    BY <2>1
  <2>3. BP!SendAnswered(s, ids)
    BY <1>2 DEF SendAnswered, Batcher!SendAnswered, BP!SendAnswered, Batcher!Settle, BP!Settle,
       Batcher!Reported, BP!Reported, Batcher!InSeq, BP!InSeq
  <2> QED
    BY <2>2, <2>3 DEF BP!Sender
<1>3. ASSUME NEW gone \in SUBSET Batcher!InSeq(batch[s]), SendError(s, gone) PROVE BP!Sender(s)
  <2>1. batch[s] \in Seq(Msgs \X Nat)
    BY DEF BP!Inv, BP!TypeOK
  <2>2. gone \in SUBSET (Msgs \X Nat)
    BY <2>1 DEF Batcher!InSeq
  <2>3. BP!SendError(s, gone)
    BY <1>3 DEF SendError, Batcher!SendError, BP!SendError, Batcher!Settle, BP!Settle,
       Batcher!InSeq, BP!InSeq
  <2> QED
    BY <2>2, <2>3 DEF BP!Sender
<1> QED
  BY <1>1, <1>2, <1>3 DEF Sender

\* Every step of the consumer is a step of its batcher, or leaves it alone.
LEMMA BatcherStep ==
  ASSUME TypeOK, BP!Inv, [Next]_vars
  PROVE  [BP!Next]_(BP!vars)
<1>1. ASSUME NEW w \in Workers, DeleteBatched(w) PROVE BP!Next
  <2>1. Handle(cur[w][1]) \in Msgs \X Nat
    BY <1>1, InHand DEF DeleteBatched
  <2>2. BP!Enqueue(Handle(cur[w][1]))
    BY <1>1 DEF DeleteBatched, Batcher!Enqueue, BP!Enqueue, Batcher!Accepted, BP!Accepted,
       Batcher!InSeq, BP!InSeq, Batcher!InBatch, BP!InBatch
  <2> QED
    BY <2>1, <2>2 DEF BP!Next
<1>2. CASE CloseBatcher
  BY <1>2 DEF CloseBatcher, Batcher!Close, BP!Close, BP!Next
<1>3. ASSUME NEW s \in Workers, Sender(s) PROVE BP!Next
  BY <1>3, SenderIsBatchers DEF BP!Next
<1>6. ASSUME UNCHANGED batcherVars PROVE UNCHANGED BP!vars
  BY <1>6 DEF batcherVars, BP!vars
<1>7. ASSUME NEW w \in Workers, Worker(w), ~DeleteBatched(w) PROVE UNCHANGED batcherVars
  BY <1>7 DEF Worker, Hold, StartHandler, HandlerFails, HandlerFailsScheduled, HandedOn,
     HandOnFails, HandlerSucceeds, DeleteSync, WorkerExit
<1>8. ASSUME Poller, ~CloseBatcher PROVE UNCHANGED batcherVars
  BY <1>8 DEF Poller, PollStop, Receive, ReceiveError, WaitOver, Dispatch, DispatchDrop,
     CloseChannels, Return
<1>9. ASSUME \/ ReceiveEmpty \/ Cancel \/ Returned \/ UNCHANGED vars \/ \E m \in Msgs : Expire(m)
      PROVE  UNCHANGED batcherVars
  BY <1>9 DEF ReceiveEmpty, Cancel, Returned, Expire, vars
<1> QED
  BY <1>1, <1>2, <1>3, <1>6, <1>7, <1>8, <1>9 DEF Next

-----------------------------------------------------------------------------
(* Types.                                                                   *)

\* A channel receive and a channel send keep the type of a channel.
LEMMA ChannelOps ==
  ASSUME NEW S, NEW q \in Seq(S)
  PROVE  /\ \A d \in S : Append(q, d) \in Seq(S) /\ Len(Append(q, d)) = Len(q) + 1
         /\ q # << >> => /\ Head(q) \in S /\ Head(q) = q[1]
                         /\ Tail(q) \in Seq(S)
                         /\ Len(Tail(q)) = Len(q) - 1
                         /\ \A i \in 1 .. Len(q) - 1 : Tail(q)[i] = q[i + 1]
OBVIOUS

\* The deliveries of a received batch.
LEMMA BatchType ==
  ASSUME TypeOK, NEW S \in Batches, NEW order \in InOrder(S), NEW p,
         p = [i \in 1 .. Len(order) |->
                [msg |-> order[i], receipt |-> rcv[order[i]] + 1, batch |-> batchNo + 1]]
  PROVE  /\ Len(order) \in Nat \ {0}
         /\ \A i \in 1 .. Len(order) : order[i] \in S
         /\ \A m \in S : \E i \in 1 .. Len(order) : order[i] = m
         /\ \A i, j \in 1 .. Len(order) : i < j => order[i] < order[j]
         /\ S \subseteq Available /\ S \subseteq Msgs
         /\ p \in Seq(Deliveries)
         /\ Len(p) = Len(order)
         /\ p # << >>
<1>1. S \subseteq Available /\ S \subseteq Msgs /\ S # {}
  BY DEF Batches, Available
<1>2. IsFiniteSet(S) /\ Cardinality(S) \in Nat \ {0}
  <2>1. IsFiniteSet(Msgs)
    BY ConsumerAssumption, FS_Interval DEF Msgs
  <2>2. IsFiniteSet(S)
    BY <1>1, <2>1, FS_Subset
  <2> QED
    BY <1>1, <2>2, FS_CardinalityType, FS_EmptySet
<1>3. order \in [1 .. Cardinality(S) -> S] /\ \A i, j \in DOMAIN order : i < j => order[i] < order[j]
  BY DEF InOrder
<1>4. /\ Len(order) = Cardinality(S)
      /\ \A i \in 1 .. Len(order) : order[i] \in S /\ order[i] \in Msgs /\ order[i] \in Nat
  <2>1. Len(order) = Cardinality(S)
    BY <1>2, <1>3
  <2>2. \A i \in 1 .. Len(order) : order[i] \in S
    BY <1>3, <2>1
  <2>3. \A m \in Msgs : m \in Nat
    BY ConsumerAssumption DEF Msgs
  <2> QED
    BY <1>1, <2>1, <2>2, <2>3
<1>5. \A m \in S : \E i \in 1 .. Len(order) : order[i] = m
  <2>1. order \in Injection(1 .. Cardinality(S), S)
    <3>1. ASSUME NEW i \in 1 .. Cardinality(S), NEW j \in 1 .. Cardinality(S), order[i] = order[j]
          PROVE  i = j
      <4>1. order[i] \in Nat /\ order[j] \in Nat
        BY <1>4
      <4> QED
        BY <1>2, <1>3, <3>1, <4>1
    <3> QED
      BY <1>3, <3>1 DEF Injection, IsInjective
  <2>2. IsFiniteSet(1 .. Cardinality(S)) /\ Cardinality(1 .. Cardinality(S)) = Cardinality(S)
    BY <1>2, FS_Interval
  <2>3. order \in Surjection(1 .. Cardinality(S), S)
    BY <1>2, <2>1, <2>2, FS_Injection
  <2> QED
    BY <1>4, <2>3 DEF Surjection
<1>6. \A i \in 1 .. Len(order) : rcv[order[i]] + 1 \in Nat /\ order[i] \in Msgs
  BY <1>4 DEF TypeOK
<1>7. batchNo + 1 \in Nat
  BY DEF TypeOK
<1>8. p \in [1 .. Len(order) -> Deliveries]
  BY <1>6, <1>7 DEF Deliveries
<1>9. p \in Seq(Deliveries) /\ Len(p) = Len(order) /\ p # << >>
  BY <1>2, <1>4, <1>8
<1>10. \A i, j \in 1 .. Len(order) : i < j => order[i] < order[j]
  BY <1>2, <1>3, <1>4
<1> QED
  BY <1>1, <1>2, <1>4, <1>5, <1>9, <1>10

\* What a delete request and a receive do to the queue.
LEMMA DeleteEffect ==
  ASSUME TypeOK, NEW H, DeleteAll(H)
  PROVE  /\ sqs' \in [Msgs -> {"visible", "inflight", "gone"}]
         /\ \A m \in Msgs : sqs'[m] = IF sqs[m] = "inflight" /\ <<m, rcv[m]>> \in H
                                        THEN "gone" ELSE sqs[m]
BY DEF TypeOK, DeleteAll

\* A receive puts its batch in flight and counts it; nothing else moves.
LEMMA DeliverEffect ==
  ASSUME TypeOK, NEW S, Deliver(S)
  PROVE  /\ sqs' \in [Msgs -> {"visible", "inflight", "gone"}]
         /\ rcv' \in [Msgs -> Nat]
         /\ \A m \in Msgs : /\ m \in S => sqs'[m] = "inflight" /\ rcv'[m] = rcv[m] + 1
                            /\ m \notin S => sqs'[m] = sqs[m] /\ rcv'[m] = rcv[m]
BY DEF TypeOK, Deliver

\* Every fault is within the budget.
LEMMA FaultType ==
  ASSUME TypeOK, Fault
  PROVE  faults' \in 0 .. env.maxFaults /\ faults' > 0
<1>1. env.maxFaults \in Nat
  BY ConsumerAssumption DEF TypeOK, Surroundings
<1> QED
  BY <1>1 DEF TypeOK, Fault

\* Types: the poll loop.
LEMMA PollerTypes ==
  ASSUME TypeOK, Batcher!TypeOK', Poller
  PROVE  TypeOK'
<1>1. CASE PollStop
  BY <1>1 DEF TypeOK, PollStop, settings, queueVars, workerVars, ends
<1>2. ASSUME NEW S \in Batches, Receive(S) PROVE TypeOK'
  <2>1. PICK order \in InOrder(S) :
          pending' = [i \in 1 .. Len(order) |->
                        [msg |-> order[i], receipt |-> rcv[order[i]] + 1, batch |-> batchNo + 1]]
    BY <1>2 DEF Receive
  <2>2. pending' \in Seq(Deliveries) /\ pending' # << >>
    BY <2>1, BatchType
  <2>3. sqs' \in [Msgs -> {"visible", "inflight", "gone"}] /\ rcv' \in [Msgs -> Nat]
    BY <1>2, DeliverEffect DEF Receive
  <2>4. /\ batchNo' = batchNo + 1 /\ rpc' = "dispatch"
        /\ UNCHANGED <<settings, cancelled, workerVars, faults>>
    BY <1>2 DEF Receive
  <2> QED
    BY <2>2, <2>3, <2>4 DEF TypeOK, settings, workerVars, ends
<1>3. ASSUME NEW S \in Batches \cup {{}}, ReceiveError(S) PROVE TypeOK'
  <2>1. sqs' \in [Msgs -> {"visible", "inflight", "gone"}] /\ rcv' \in [Msgs -> Nat]
    BY <1>3, DeliverEffect DEF ReceiveError
  <2>2. faults' \in 0 .. env.maxFaults
    BY <1>3, FaultType DEF ReceiveError
  <2>3. /\ rpc = "poll" /\ rpc' = "wait"
        /\ UNCHANGED <<settings, cancelled, pending, batchNo, workerVars>>
    BY <1>3 DEF ReceiveError
  <2> QED
    BY <2>1, <2>2, <2>3 DEF TypeOK, settings, workerVars, ends
<1>4. CASE WaitOver
  BY <1>4 DEF TypeOK, WaitOver, settings, queueVars, workerVars, ends
<1>5. ASSUME Advance, rpc = "dispatch"
      PROVE  /\ pending' \in Seq(Deliveries)
             /\ rpc' \in {"poll", "dispatch"}
             /\ rpc' = "dispatch" <=> pending' # << >>
  <2>1. pending \in Seq(Deliveries) /\ pending # << >>
    BY <1>5 DEF TypeOK
  <2>2. /\ Tail(pending) \in Seq(Deliveries)
        /\ Len(Tail(pending)) = Len(pending) - 1
        /\ Len(pending) \in Nat
        /\ pending' = Tail(pending)
        /\ rpc' = IF Len(pending) = 1 THEN "poll" ELSE "dispatch"
    BY <1>5, <2>1 DEF Advance
  <2>3. Tail(pending) = << >> <=> Len(pending) = 1
    <3>1. ASSUME NEW p \in Seq(Deliveries), Len(p) = Len(pending) - 1 PROVE p = << >> <=> Len(pending) = 1
      <4>1. Len(<< >>) = 0 /\ (p # << >> => Len(p) \in Nat \ {0})
        BY EmptySeq
      <4>2. p = << >> => Len(p) = 0
        BY <4>1
      <4> QED
        BY <2>2, <3>1, <4>1, <4>2
    <3> QED
      BY <2>2, <3>1
  <2> QED
    BY <2>2, <2>3
<1>6. ASSUME NEW w \in Workers, Dispatch(w) PROVE TypeOK'
  <2>1. pending \in Seq(Deliveries) /\ pending # << >> /\ chan[w] \in Seq(Deliveries)
    BY <1>6 DEF TypeOK, Dispatch
  <2>2. Head(pending) \in Deliveries
    BY <2>1
  <2>3. /\ Append(chan[w], Head(pending)) \in Seq(Deliveries)
        /\ Len(Append(chan[w], Head(pending))) = Len(chan[w]) + 1
    BY <2>1, <2>2
  <2>4. chan' \in [Workers -> Seq(Deliveries)] /\ \A v \in Workers : Len(chan'[v]) <= MaxMessages
    BY <1>6, <2>3, ConsumerAssumption DEF TypeOK, Dispatch
  <2>5. /\ Advance /\ rpc = "dispatch"
        /\ UNCHANGED <<settings, queueVars, cancelled, batchNo, poisoned, chClosed, wpc, cur, ends, faults>>
    BY <1>6 DEF Dispatch
  <2> QED
    BY <1>5, <2>4, <2>5 DEF TypeOK, settings, queueVars, ends
<1>7. CASE DispatchDrop
  BY <1>5, <1>7 DEF TypeOK, DispatchDrop, settings, queueVars, workerVars, ends
<1>8. CASE CloseChannels
  BY <1>8 DEF TypeOK, CloseChannels, settings, queueVars, ends
<1>9. CASE CloseBatcher
  BY <1>9 DEF TypeOK, CloseBatcher, settings, queueVars, workerVars, ends
<1>10. CASE Return
  BY <1>10 DEF TypeOK, Return, settings, queueVars, workerVars, ends
<1> QED
  BY <1>1, <1>2, <1>3, <1>4, <1>6, <1>7, <1>8, <1>9, <1>10 DEF Poller

\* Types: a worker takes a delivery from its channel, or lets it go.
LEMMA TakeTypes ==
  ASSUME TypeOK, NEW w \in Workers, chan[w] # << >>,
         chan' = [chan EXCEPT ![w] = Tail(chan[w])]
  PROVE  /\ Head(chan[w]) \in Deliveries
         /\ chan' \in [Workers -> Seq(Deliveries)]
         /\ \A v \in Workers : Len(chan'[v]) <= MaxMessages
<1>1. chan[w] \in Seq(Deliveries) /\ Len(chan[w]) <= MaxMessages /\ MaxMessages \in Nat
  BY ConsumerAssumption DEF TypeOK
<1>2. /\ Head(chan[w]) \in Deliveries
      /\ Tail(chan[w]) \in Seq(Deliveries)
      /\ Len(Tail(chan[w])) <= MaxMessages
  BY <1>1
<1> QED
  BY <1>2 DEF TypeOK

\* Types: the workers.
LEMMA WorkerTypes ==
  ASSUME TypeOK, Batcher!TypeOK', NEW w \in Workers, Worker(w)
  PROVE  TypeOK'
<1>1. CASE Hold(w)
  <2>1. chan' \in [Workers -> Seq(Deliveries)] /\ \A v \in Workers : Len(chan'[v]) <= MaxMessages
    BY <1>1, TakeTypes DEF Hold
  <2> QED
    BY <1>1, <2>1 DEF TypeOK, Hold, settings, queueVars, pollVars, ends
<1>2. CASE StartHandler(w)
  <2>1. /\ chan' \in [Workers -> Seq(Deliveries)] /\ \A v \in Workers : Len(chan'[v]) <= MaxMessages
        /\ Head(chan[w]) \in Deliveries
    BY <1>2, TakeTypes DEF StartHandler
  <2>2. <<Head(chan[w])>> \in Seq(Deliveries) /\ Len(<<Head(chan[w])>>) = 1
    BY <2>1
  <2>3. /\ cur' = [cur EXCEPT ![w] = <<Head(chan[w])>>]
        /\ wpc' = [wpc EXCEPT ![w] = "handling"]
        /\ UNCHANGED <<settings, queueVars, cancelled, pollVars, poisoned, chClosed, ends, faults>>
    BY <1>2 DEF StartHandler
  <2>4. /\ cur' \in [Workers -> Seq(Deliveries)]
        /\ wpc' \in [Workers -> {Idle, "handling", "handOn", "commit", "exited"}]
        /\ \A v \in Workers : Len(cur'[v]) = IF wpc'[v] \in {"handling", "handOn", "commit"} THEN 1 ELSE 0
    BY <2>2, <2>3 DEF TypeOK
  <2> QED
    BY <2>1, <2>3, <2>4 DEF TypeOK, settings, queueVars, pollVars, ends
<1>3. ASSUME Release(w)
      PROVE  /\ cur' \in [Workers -> Seq(Deliveries)]
             /\ wpc' \in [Workers -> {Idle, "handling", "handOn", "commit", "exited"}]
             /\ \A v \in Workers : Len(cur'[v]) = IF wpc'[v] \in {"handling", "handOn", "commit"} THEN 1 ELSE 0
  <2>1. << >> \in Seq(Deliveries) /\ Len(<< >>) = 0
    OBVIOUS
  <2>2. /\ cur' = [cur EXCEPT ![w] = << >>]
        /\ wpc' = [wpc EXCEPT ![w] = "idle"]
    BY <1>3 DEF Release, Idle
  <2>3. /\ cur \in [Workers -> Seq(Deliveries)]
        /\ wpc \in [Workers -> {"idle", "handling", "handOn", "commit", "exited"}]
        /\ \A v \in Workers : Len(cur[v]) = IF wpc[v] \in {"handling", "handOn", "commit"} THEN 1 ELSE 0
    BY DEF TypeOK, Idle
  <2>4. cur' \in [Workers -> Seq(Deliveries)]
    BY <2>1, <2>2, <2>3
  <2>5. wpc' \in [Workers -> {"idle", "handling", "handOn", "commit", "exited"}]
    BY <2>2, <2>3
  <2>6. \A v \in Workers : Len(cur'[v]) = IF wpc'[v] \in {"handling", "handOn", "commit"} THEN 1 ELSE 0
    <3>1. cur'[w] = << >> /\ wpc'[w] = "idle"
      BY <2>2, <2>3
    <3>2. \A v \in Workers \ {w} : cur'[v] = cur[v] /\ wpc'[v] = wpc[v]
      BY <2>2, <2>3
    <3>3. Len(cur'[w]) = IF wpc'[w] \in {"handling", "handOn", "commit"} THEN 1 ELSE 0
      BY <2>1, <3>1
    <3> QED
      BY <2>3, <3>2, <3>3
  <2> QED
    BY <2>4, <2>5, <2>6 DEF Idle
<1>4. ASSUME NEW t \in {"handling", "handOn", "commit"}, wpc' = [wpc EXCEPT ![w] = t],
             wpc[w] \in {"handling", "handOn", "commit"}, cur' = cur
      PROVE  /\ cur' \in [Workers -> Seq(Deliveries)]
             /\ wpc' \in [Workers -> {Idle, "handling", "handOn", "commit", "exited"}]
             /\ \A v \in Workers : Len(cur'[v]) = IF wpc'[v] \in {"handling", "handOn", "commit"} THEN 1 ELSE 0
  BY <1>4 DEF TypeOK
<1>5. CASE HandlerFails(w)
  <2>1. Release(w) /\ Fault /\ wpc[w] = "handling"
    BY <1>5 DEF HandlerFails, Release
  <2>2. faults' \in 0 .. env.maxFaults
    BY <2>1, FaultType
  <2>3. poisoned' \subseteq Nat \X Keys
    <3>1. cur[w][1] \in Deliveries
      BY <2>1, InHand
    <3>2. <<cur[w][1].batch, KeyOf[cur[w][1].msg]>> \in Nat \X Keys
      BY <3>1, ConsumerAssumption DEF Deliveries
    <3> QED
      BY <1>5, <3>2 DEF HandlerFails, TypeOK
  <2> QED
    BY <1>3, <1>5, <2>1, <2>2, <2>3 DEF TypeOK, HandlerFails, settings, queueVars, pollVars, ends
<1>6. CASE HandlerFailsScheduled(w)
  BY <1>4, <1>6 DEF TypeOK, HandlerFailsScheduled, settings, queueVars, pollVars, ends
<1>7. CASE HandedOn(w)
  <2>1. Handle(cur[w][1]) \in Msgs \X Nat
    BY <1>7, InHand DEF HandedOn
  <2> QED
    BY <1>4, <1>7, <2>1 DEF TypeOK, HandedOn, HandOn, settings, queueVars, pollVars
<1>8. CASE HandOnFails(w)
  <2>1. Handle(cur[w][1]) \in Msgs \X Nat
    BY <1>8, InHand DEF HandOnFails
  <2>2. faults' \in 0 .. env.maxFaults
    BY <1>8, FaultType DEF HandOnFails, TypeOK
  <2>3. moved' \subseteq Msgs \X Nat
    BY <1>8, <2>1 DEF HandOnFails, HandOn, TypeOK
  <2> QED
    BY <1>3, <1>8, <2>2, <2>3 DEF TypeOK, HandOnFails, settings, queueVars, pollVars
<1>9. CASE HandlerSucceeds(w)
  <2>1. Handle(cur[w][1]) \in Msgs \X Nat
    BY <1>9, InHand DEF HandlerSucceeds
  <2> QED
    BY <1>4, <1>9, <2>1 DEF TypeOK, HandlerSucceeds, settings, queueVars, pollVars
<1>10. CASE DeleteSync(w)
  <2>1. sqs' \in [Msgs -> {"visible", "inflight", "gone"}]
    BY <1>10, DeleteEffect DEF DeleteSync, TypeOK
  <2>2. faults' \in 0 .. env.maxFaults
    BY <1>10, FaultType DEF DeleteSync, TypeOK
  <2> QED
    BY <1>3, <1>10, <2>1, <2>2 DEF TypeOK, DeleteSync, settings, pollVars, ends
<1>11. CASE DeleteBatched(w)
  BY <1>3, <1>11 DEF TypeOK, DeleteBatched, settings, queueVars, pollVars, ends
<1>12. CASE WorkerExit(w)
  BY <1>12 DEF TypeOK, WorkerExit, Idle, settings, queueVars, pollVars, ends
<1> QED
  BY <1>1, <1>2, <1>5, <1>6, <1>7, <1>8, <1>9, <1>10, <1>11, <1>12 DEF Worker

\* Types: every step.
LEMMA TypeStep ==
  ASSUME TypeOK, Batcher!TypeOK', [Next]_vars
  PROVE  TypeOK'
<1>1. CASE Poller
  BY <1>1, PollerTypes
<1>2. ASSUME NEW w \in Workers, Worker(w) PROVE TypeOK'
  BY <1>2, WorkerTypes
<1>3. ASSUME NEW s \in Workers, Sender(s) PROVE TypeOK'
  <2>1. CASE SenderMoves(s)
    BY <2>1 DEF TypeOK, SenderMoves, OtherThanBatcher, settings, queueVars, pollVars, workerVars, ends
  <2>2. ASSUME DeleteAll(deleted'), (UNCHANGED faults) \/ Fault,
               UNCHANGED <<settings, rcv, cancelled, pollVars, workerVars>>
        PROVE  TypeOK'
    <3>1. sqs' \in [Msgs -> {"visible", "inflight", "gone"}]
      BY <2>2, DeleteEffect
    <3>2. faults' \in 0 .. env.maxFaults
      BY <2>2, FaultType DEF TypeOK
    <3> QED
      BY <2>2, <3>1, <3>2 DEF TypeOK, settings, pollVars, workerVars, ends
  <2> QED
    BY <1>3, <2>1, <2>2 DEF Sender, SendAnswered, SendError
<1>4. ASSUME NEW m \in Msgs, Expire(m) PROVE TypeOK'
  <2>1. faults' \in 0 .. env.maxFaults
    BY <1>4, FaultType DEF Expire, TypeOK
  <2>2. sqs' \in [Msgs -> {"visible", "inflight", "gone"}]
    BY <1>4 DEF Expire, TypeOK
  <2> QED
    BY <1>4, <2>1, <2>2 DEF TypeOK, Expire, settings, pollVars, workerVars, ends
<1>5. CASE Cancel
  BY <1>5 DEF TypeOK, Cancel, settings, queueVars, pollVars, workerVars, ends
<1>6. ASSUME UNCHANGED vars PROVE TypeOK'
  BY <1>6 DEF TypeOK, vars, settings, queueVars, pollVars, workerVars, ends
<1> QED
  BY <1>1, <1>2, <1>3, <1>4, <1>5, <1>6 DEF Next, ReceiveEmpty, Returned

-----------------------------------------------------------------------------
(* Shutdown: nothing sends on a channel after it is closed.                 *)

\* A worker that has left is done: its steps are those of a worker still there.
LEMMA WorkerLeaves ==
  ASSUME TypeOK, Stopping, NEW w \in Workers, Worker(w)
  PROVE  /\ wpc[w] # "exited"
         /\ UNCHANGED <<route, rpc, chClosed, closed, spc>>
         /\ \A v \in Workers \ {w} : wpc'[v] = wpc[v] /\ chan'[v] = chan[v]
         /\ wpc'[w] = "exited" => chClosed' /\ chan'[w] = << >>
<1>0. wpc \in [Workers -> {"idle", "handling", "handOn", "commit", "exited"}] /\ chan \in [Workers -> Seq(Deliveries)]
  BY DEF TypeOK, Idle
<1>1. ASSUME wpc[w] = "idle", wpc' = wpc \/ wpc' = [wpc EXCEPT ![w] = "handling"],
             chan' = [chan EXCEPT ![w] = Tail(chan[w])],
             UNCHANGED <<settings, pollVars, chClosed, batcherVars>>
      PROVE  /\ wpc[w] # "exited"
             /\ UNCHANGED <<route, rpc, chClosed, closed, spc>>
             /\ \A v \in Workers \ {w} : wpc'[v] = wpc[v] /\ chan'[v] = chan[v]
             /\ wpc'[w] # "exited"
  BY <1>0, <1>1 DEF settings, pollVars, batcherVars
<1>2. ASSUME wpc[w] \in {"handling", "handOn", "commit"},
             NEW t \in {"idle", "handOn", "commit"}, wpc' = [wpc EXCEPT ![w] = t],
             UNCHANGED <<route, rpc, chan, chClosed, closed, spc>>
      PROVE  /\ wpc[w] # "exited"
             /\ \A v \in Workers \ {w} : wpc'[v] = wpc[v] /\ chan'[v] = chan[v]
             /\ wpc'[w] # "exited"
  BY <1>0, <1>2
<1>3. CASE Hold(w)
  BY <1>1, <1>3 DEF Hold, Idle
<1>4. CASE StartHandler(w)
  BY <1>1, <1>4 DEF StartHandler, Idle
<1>5. CASE HandlerFails(w)
  BY <1>2, <1>5 DEF HandlerFails, Idle, settings, pollVars, batcherVars
<1>6. CASE HandlerFailsScheduled(w)
  BY <1>2, <1>6 DEF HandlerFailsScheduled, settings, pollVars, batcherVars
<1>7. CASE HandedOn(w)
  BY <1>2, <1>7 DEF HandedOn, settings, pollVars, batcherVars
<1>8. CASE HandOnFails(w)
  BY <1>2, <1>8 DEF HandOnFails, Release, Idle, settings, pollVars, batcherVars
<1>9. CASE HandlerSucceeds(w)
  BY <1>2, <1>9 DEF HandlerSucceeds, settings, pollVars, batcherVars
<1>10. CASE DeleteSync(w)
  BY <1>2, <1>10 DEF DeleteSync, Release, Idle, settings, pollVars, batcherVars
<1>11. CASE DeleteBatched(w)
  <2>1. UNCHANGED <<closed, spc>>
    BY <1>11 DEF DeleteBatched, Batcher!Enqueue
  <2> QED
    BY <1>2, <1>11, <2>1 DEF DeleteBatched, Release, Idle, settings, pollVars
<1>12. CASE WorkerExit(w)
  BY <1>0, <1>12 DEF WorkerExit, Idle, settings, pollVars, batcherVars
<1> QED
  BY <1>3, <1>4, <1>5, <1>6, <1>7, <1>8, <1>9, <1>10, <1>11, <1>12 DEF Worker

\* The stages of stop follow each other.
LEMMA StoppingStep ==
  ASSUME TypeOK, Stopping, [Next]_vars
  PROVE  Stopping'
<1>0. /\ wpc \in [Workers -> {"idle", "handling", "handOn", "commit", "exited"}]
      /\ chan \in [Workers -> Seq(Deliveries)]
      /\ spc \in [Workers -> {"recv", "drain", "send", "exited"}]
      /\ closed \in BOOLEAN /\ chClosed \in BOOLEAN /\ route.deleteBatch \in BOOLEAN
  BY ConsumerAssumption DEF TypeOK, Idle, Batcher!TypeOK, Batcher!SenderStates, RouteOptions
<1>1. ASSUME NEW w \in Workers, Worker(w) PROVE Stopping'
  BY <1>1, WorkerLeaves DEF Stopping, WorkersGone, Batcher!AllExited
<1>2. ASSUME NEW s \in Workers, Sender(s) PROVE Stopping'
  <2>1. /\ spc[s] # "exited"
        /\ UNCHANGED <<route, rpc, chClosed, closed, wpc, chan>>
    BY <1>2 DEF Sender, SenderMoves, SendAnswered, SendError, OtherThanBatcher, settings, pollVars,
       workerVars, Batcher!RecvFirst, Batcher!Exit, Batcher!DrainOne, Batcher!DrainEnd,
       Batcher!SendAnswered, Batcher!SendError, Batcher!Settle
  <2> QED
    BY <2>1 DEF Stopping, WorkersGone, Batcher!AllExited
<1>3. ASSUME UNCHANGED <<route, chan, chClosed, wpc, closed, spc>>,
             \/ rpc' = rpc
             \/ /\ rpc \in {"poll", "wait", "dispatch"}
                /\ rpc' \in {"poll", "wait", "dispatch", "stop"}
      PROVE  Stopping'
  BY <1>3 DEF Stopping, WorkersGone, Batcher!AllExited
<1>4. CASE PollStop \/ WaitOver \/ DispatchDrop \/ \E S \in Batches : Receive(S)
  <2>1. UNCHANGED <<route, chan, chClosed, wpc, closed, spc>>
    BY <1>4 DEF PollStop, WaitOver, DispatchDrop, Receive, settings, workerVars, batcherVars
  <2>2. /\ rpc \in {"poll", "wait", "dispatch"}
        /\ rpc' \in {"poll", "wait", "dispatch", "stop"}
    BY <1>4 DEF PollStop, WaitOver, DispatchDrop, Receive, Advance
  <2> QED
    BY <1>3, <2>1, <2>2
<1>5. ASSUME NEW S, ReceiveError(S) PROVE Stopping'
  BY <1>3, <1>5 DEF ReceiveError, settings, workerVars, batcherVars
<1>6. ASSUME NEW w \in Workers, Dispatch(w) PROVE Stopping'
  <2>1. rpc = "dispatch" /\ rpc' \in {"poll", "dispatch"}
    BY <1>6 DEF Dispatch, Advance
  <2>2. UNCHANGED <<route, chClosed, wpc, closed, spc>>
    BY <1>6 DEF Dispatch, settings, batcherVars
  <2> QED
    BY <2>1, <2>2 DEF Stopping, WorkersGone
<1>7. CASE CloseChannels
  BY <1>7 DEF CloseChannels, Stopping, settings, batcherVars
<1>8. CASE CloseBatcher
  BY <1>8 DEF CloseBatcher, Batcher!Close, Stopping, WorkersGone, settings, workerVars
<1>9. CASE Return
  BY <1>0, <1>9 DEF Return, Stopping, WorkersGone, Batcher!AllExited, settings, workerVars, batcherVars
<1>10. ASSUME \/ ReceiveEmpty \/ Cancel \/ Returned \/ UNCHANGED vars \/ \E m \in Msgs : Expire(m)
       PROVE  Stopping'
  BY <1>3, <1>10 DEF ReceiveEmpty, Cancel, Returned, Expire, vars, settings, pollVars, workerVars, batcherVars
<1> QED
  BY <1>1, <1>2, <1>4, <1>5, <1>6, <1>7, <1>8, <1>9, <1>10 DEF Next, Poller

-----------------------------------------------------------------------------
(* Where the receipts are: with the poll loop, in a channel, on a worker,   *)
(* about to be deleted, or with the batcher.                                *)

\* A channel receive and a channel send add no delivery of their own.
LEMMA HandlesOps ==
  ASSUME NEW q \in Seq(Deliveries)
  PROVE  /\ q # << >> => /\ HandlesOf(Tail(q)) \subseteq HandlesOf(q)
                         /\ Handle(Head(q)) \in HandlesOf(q)
         /\ \A d \in Deliveries : HandlesOf(Append(q, d)) = HandlesOf(q) \cup {Handle(d)}
         /\ \A d : HandlesOf(<<d>>) = {Handle(d)}
         /\ HandlesOf(<< >>) = {}
<1>1. ASSUME q # << >>
      PROVE  HandlesOf(Tail(q)) \subseteq HandlesOf(q) /\ Handle(Head(q)) \in HandlesOf(q)
  <2>1. Len(q) \in Nat \ {0} /\ Head(q) = q[1] /\ Len(Tail(q)) = Len(q) - 1
    BY <1>1
  <2>2. \A i \in 1 .. Len(Tail(q)) : i + 1 \in 1 .. Len(q) /\ Tail(q)[i] = q[i + 1]
    BY <1>1, <2>1
  <2>3. 1 \in 1 .. Len(q)
    BY <2>1
  <2> QED
    BY <2>1, <2>2, <2>3 DEF HandlesOf
<1>2. ASSUME NEW d \in Deliveries
      PROVE  HandlesOf(Append(q, d)) = HandlesOf(q) \cup {Handle(d)}
  <2>1. /\ Len(q) \in Nat
        /\ Len(Append(q, d)) = Len(q) + 1
        /\ Append(q, d)[Len(q) + 1] = d
        /\ \A i \in 1 .. Len(q) : Append(q, d)[i] = q[i]
    OBVIOUS
  <2>2. 1 .. (Len(q) + 1) = (1 .. Len(q)) \cup {Len(q) + 1}
    BY <2>1
  <2> QED
    BY <2>1, <2>2 DEF HandlesOf
<1>3. ASSUME NEW d PROVE HandlesOf(<<d>>) = {Handle(d)}
  <2>1. Len(<<d>>) = 1 /\ <<d>>[1] = d /\ 1 .. 1 = {1}
    OBVIOUS
  <2> QED
    BY <2>1 DEF HandlesOf
<1>4. HandlesOf(<< >>) = {}
  BY DEF HandlesOf
<1> QED
  BY <1>1, <1>2, <1>3, <1>4

\* What the consumer has after a step.
LEMMA HasAfter ==
  ASSUME NEW h
  PROVE  Has(h)' <=> \/ h \in HandlesOf(pending')
                     \/ \E w \in Workers : h \in HandlesOf(chan'[w]) \cup HandlesOf(cur'[w])
                     \/ h \in Waiting'
BY DEF Has, HandlesOf, Handle

\* What is about to be deleted after a step.
LEMMA CommitsAfter ==
  Commits' = {Handle(cur'[w][1]) : w \in {v \in Workers : wpc'[v] = "commit"}}
BY DEF Commits, Handle

\* A step of one worker takes deliveries from its channel only, and changes what
\* is about to be deleted by its own delivery only.
LEMMA OneWorker ==
  ASSUME TypeOK, NEW w \in Workers, pending' = pending,
         \A v \in Workers \ {w} : chan'[v] = chan[v] /\ cur'[v] = cur[v] /\ wpc'[v] = wpc[v]
  PROVE  /\ /\ HandlesOf(chan'[w]) \cup HandlesOf(cur'[w]) \subseteq HandlesOf(chan[w]) \cup HandlesOf(cur[w])
            /\ \A h \in Waiting' : Has(h)
            => \A h : Has(h)' => Has(h)
         /\ wpc'[w] = "commit" /\ cur'[w] = cur[w] => Commits' = Commits \cup {Handle(cur[w][1])}
         /\ wpc'[w] # "commit" => /\ Commits' \subseteq Commits
                                  /\ Commits \subseteq Commits' \cup {Handle(cur[w][1])}
         /\ wpc'[w] # "commit" /\ wpc[w] # "commit" => Commits' = Commits
<1>1. ASSUME HandlesOf(chan'[w]) \cup HandlesOf(cur'[w]) \subseteq HandlesOf(chan[w]) \cup HandlesOf(cur[w]),
             \A h \in Waiting' : Has(h),
             NEW h, Has(h)'
      PROVE  Has(h)
  <2>1. CASE h \in Waiting'
    BY <1>1, <2>1
  <2>2. CASE h \in HandlesOf(pending')
    BY <2>2 DEF Has
  <2>3. ASSUME NEW v \in Workers, h \in HandlesOf(chan'[v]) \cup HandlesOf(cur'[v])
        PROVE  h \in HandlesOf(chan[v]) \cup HandlesOf(cur[v])
    BY <1>1, <2>3
  <2> QED
    BY <1>1, <2>1, <2>2, <2>3, HasAfter DEF Has
<1>2. Commits' = {Handle(cur'[v][1]) : v \in {u \in Workers : wpc'[u] = "commit"}}
  BY CommitsAfter
<1> QED
  BY <1>1, <1>2 DEF Commits

\* An enqueued handle is accepted.
LEMMA EnqueueKeeps ==
  ASSUME BP!Inv, NEW h \in Msgs \X Nat, Batcher!Enqueue(h)
  PROVE  /\ Batcher!Accepted' = Batcher!Accepted \cup {h}
         /\ Waiting' = Waiting \cup {h}
         /\ requested' = requested /\ deleted' = deleted
<1>1. handles \in Seq(Msgs \X Nat)
  BY DEF BP!Inv, BP!TypeOK
<1>2. handles' = Append(handles, h) /\ batch' = batch /\ requested' = requested /\ deleted' = deleted
  BY DEF Batcher!Enqueue
<1>3. BP!InSeq(Append(handles, h)) = BP!InSeq(handles) \cup {h}
  BY <1>1, BP!InSeqAppend, BatcherSized
<1>4. Batcher!InSeq(handles)' = Batcher!InSeq(handles) \cup {h}
  BY <1>2, <1>3 DEF BP!InSeq, Batcher!InSeq
<1>5. Batcher!InBatch' = Batcher!InBatch
  BY <1>2 DEF Batcher!InBatch, Batcher!InSeq
<1> QED
  BY <1>2, <1>4, <1>5 DEF Waiting, Batcher!Accepted

\* The batcher left alone.
LEMMA BatcherSame ==
  ASSUME UNCHANGED <<handles, batch, requested, deleted>>
  PROVE  /\ Batcher!Accepted' = Batcher!Accepted
         /\ Waiting' = Waiting
BY DEF Waiting, Batcher!Accepted, Batcher!InSeq, Batcher!InBatch

\* What a sender does to the handles, as the batcher's own proof has it.
LEMMA SenderKeeps ==
  ASSUME BP!Inv, NEW s \in Workers, Sender(s)
  PROVE  /\ Batcher!Accepted' = Batcher!Accepted
         /\ Waiting' \subseteq Waiting
         /\ requested \subseteq requested'
         /\ requested' \subseteq requested \cup Batcher!InSeq(batch[s])
         /\ deleted' \subseteq deleted \cup Batcher!InSeq(batch[s])
         /\ Batcher!InSeq(batch[s]) \subseteq Waiting
<1>1. BP!Sender(s)
  BY SenderIsBatchers
<1>2. /\ BP!Accepted' = BP!Accepted
      /\ BP!InSeq(handles)' \cup BP!InBatch' \subseteq BP!InSeq(handles) \cup BP!InBatch
      /\ requested \subseteq requested'
      /\ deleted' \subseteq deleted \cup BP!InSeq(batch[s])
      /\ BP!InSeq(batch[s]) \subseteq BP!InBatch
  BY <1>1, BP!SenderKeeps, BatcherSized
<1>3. requested' \subseteq requested \cup Batcher!InSeq(batch[s])
  BY DEF Sender, SenderMoves, SendAnswered, SendError, Batcher!RecvFirst, Batcher!Exit, Batcher!DrainOne,
     Batcher!DrainEnd, Batcher!SendAnswered, Batcher!SendError, Batcher!Settle
<1>4. /\ Batcher!InSeq(handles) = BP!InSeq(handles) /\ Batcher!InSeq(handles)' = BP!InSeq(handles)'
      /\ Batcher!InBatch = BP!InBatch /\ Batcher!InBatch' = BP!InBatch'
      /\ Batcher!InSeq(batch[s]) = BP!InSeq(batch[s])
      /\ Batcher!Accepted = BP!Accepted /\ Batcher!Accepted' = BP!Accepted'
  BY DEF Batcher!InSeq, BP!InSeq, Batcher!InBatch, BP!InBatch, Batcher!Accepted, BP!Accepted
<1> QED
  BY <1>2, <1>3, <1>4 DEF Waiting

-----------------------------------------------------------------------------
(* The books: what ended well, what is about to be deleted, what is with    *)
(* the batcher, and what is gone.                                           *)

\* What the step of a worker may do to them.
BooksKept ==
  /\ UNCHANGED <<route, rcv, deleted, requested>>
  /\ \A h : Has(h)' => Has(h)
  /\ handled \subseteq handled' /\ handled' \subseteq handled \cup Commits'
  /\ moved \subseteq moved'
  /\ Commits' \subseteq Commits \cup handled' \cup moved'
  /\ Batcher!Accepted' \subseteq Batcher!Accepted \cup Commits
  /\ \A m \in Msgs : sqs'[m] = "gone" => sqs[m] = "gone" \/ <<m, rcv[m]>> \in Commits
  /\ route.deleteBatch => /\ sqs' = sqs
                          /\ Batcher!Accepted \cup Commits \subseteq Batcher!Accepted' \cup Commits'
  /\ faults' = 0 => faults = 0 /\ moved' \subseteq moved \cup Commits'
  /\ ~route.scheduled /\ (\A v \in Workers : wpc[v] # "handOn") =>
       moved' = moved /\ \A v \in Workers : wpc'[v] # "handOn"

\* A worker that takes a delivery from its channel, or lets it go.
LEMMA TakeKeeps ==
  ASSUME TypeOK, NEW w \in Workers, wpc[w] = "idle", chan[w] # << >>,
         chan' = [chan EXCEPT ![w] = Tail(chan[w])],
         \/ cur' = cur /\ wpc' = wpc
         \/ cur' = [cur EXCEPT ![w] = <<Head(chan[w])>>] /\ wpc' = [wpc EXCEPT ![w] = "handling"],
         UNCHANGED <<settings, queueVars, pollVars, ends, faults, batcherVars>>
  PROVE  BooksKept
<1>0. /\ chan \in [Workers -> Seq(Deliveries)] /\ cur \in [Workers -> Seq(Deliveries)]
      /\ wpc \in [Workers -> {"idle", "handling", "handOn", "commit", "exited"}]
  BY DEF TypeOK, Idle
<1>1. /\ \A v \in Workers \ {w} : chan'[v] = chan[v] /\ cur'[v] = cur[v] /\ wpc'[v] = wpc[v]
      /\ chan'[w] = Tail(chan[w])
      /\ cur'[w] = cur[w] \/ cur'[w] = <<Head(chan[w])>>
      /\ wpc'[w] \in {"idle", "handling"}
  BY <1>0
<1>2. HandlesOf(chan'[w]) \cup HandlesOf(cur'[w]) \subseteq HandlesOf(chan[w]) \cup HandlesOf(cur[w])
  BY <1>0, <1>1, HandlesOps
<1>3. Waiting' = Waiting /\ Batcher!Accepted' = Batcher!Accepted
  BY BatcherSame DEF batcherVars
<1>4. \A h \in Waiting' : Has(h)
  BY <1>3 DEF Has
<1>5. pending' = pending
  BY DEF pollVars
<1>6. (\A h : Has(h)' => Has(h)) /\ Commits' = Commits
  BY <1>1, <1>2, <1>4, <1>5, OneWorker
<1>7. \A v \in Workers : wpc[v] # "handOn" => wpc'[v] # "handOn"
  BY <1>1
<1> QED
  BY <1>3, <1>6, <1>7 DEF BooksKept, settings, queueVars, ends, batcherVars

\* A worker that is done with its delivery.
LEMMA ReleaseKeeps ==
  ASSUME TypeOK, NEW w \in Workers, Release(w), pending' = pending, chan' = chan,
         \A h \in Waiting' : Has(h)
  PROVE  /\ \A h : Has(h)' => Has(h)
         /\ Commits' \subseteq Commits
         /\ Commits \subseteq Commits' \cup {Handle(cur[w][1])}
         /\ wpc[w] # "commit" => Commits' = Commits
         /\ \A v \in Workers : wpc[v] # "handOn" => wpc'[v] # "handOn"
<1>0. cur \in [Workers -> Seq(Deliveries)] /\ wpc \in [Workers -> {"idle", "handling", "handOn", "commit", "exited"}]
  BY DEF TypeOK, Idle
<1>1. cur' = [cur EXCEPT ![w] = << >>] /\ wpc' = [wpc EXCEPT ![w] = "idle"]
  BY DEF Release, Idle
<1>2. /\ \A v \in Workers \ {w} : chan'[v] = chan[v] /\ cur'[v] = cur[v] /\ wpc'[v] = wpc[v]
      /\ cur'[w] = << >> /\ chan'[w] = chan[w] /\ wpc'[w] = "idle"
  BY <1>0, <1>1
<1>3. HandlesOf(<< >>) = {}
  BY DEF HandlesOf
<1>4. HandlesOf(chan'[w]) \cup HandlesOf(cur'[w]) \subseteq HandlesOf(chan[w]) \cup HandlesOf(cur[w])
  BY <1>2, <1>3
<1> QED
  BY <1>2, <1>4, OneWorker

\* A worker that goes on with its delivery.
LEMMA GoOnKeeps ==
  ASSUME TypeOK, NEW w \in Workers, NEW t \in {"handOn", "commit"},
         wpc' = [wpc EXCEPT ![w] = t],
         UNCHANGED <<pollVars, chan, cur, batcherVars>>
  PROVE  /\ \A h : Has(h)' => Has(h)
         /\ Batcher!Accepted' = Batcher!Accepted
         /\ t = "commit" => Commits' = Commits \cup {Handle(cur[w][1])}
         /\ t = "commit" => \A v \in Workers : wpc[v] # "handOn" => wpc'[v] # "handOn"
         /\ t = "handOn" /\ wpc[w] # "commit" => Commits' = Commits
<1>0. wpc \in [Workers -> {"idle", "handling", "handOn", "commit", "exited"}]
  BY DEF TypeOK, Idle
<1>1. /\ \A v \in Workers \ {w} : chan'[v] = chan[v] /\ cur'[v] = cur[v] /\ wpc'[v] = wpc[v]
      /\ cur'[w] = cur[w] /\ chan'[w] = chan[w] /\ wpc'[w] = t
  BY <1>0
<1>2. Waiting' = Waiting /\ Batcher!Accepted' = Batcher!Accepted
  BY BatcherSame DEF batcherVars
<1>3. \A h \in Waiting' : Has(h)
  BY <1>2 DEF Has
<1>4. pending' = pending
  BY DEF pollVars
<1> QED
  BY <1>1, <1>2, <1>3, <1>4, OneWorker

\* Every step of a worker keeps the books.
LEMMA WorkerBooks ==
  ASSUME TypeOK, BP!Inv, NEW w \in Workers, Worker(w)
  PROVE  BooksKept
<1>1. CASE Hold(w)
  BY <1>1, TakeKeeps DEF Hold, Idle, ends
<1>2. CASE StartHandler(w)
  BY <1>2, TakeKeeps DEF StartHandler, Idle, ends
<1>3. ASSUME wpc[w] = "handling" \/ wpc[w] = "handOn", Release(w),
             UNCHANGED <<settings, queueVars, pollVars, chan, handled, batcherVars>>,
             \/ moved' = moved /\ (faults' = faults \/ Fault)
             \/ wpc[w] = "handOn" /\ moved \subseteq moved' /\ Fault
      PROVE  BooksKept
  <2>1. Waiting' = Waiting /\ Batcher!Accepted' = Batcher!Accepted
    BY <1>3, BatcherSame DEF batcherVars
  <2>2. \A h \in Waiting' : Has(h)
    BY <2>1 DEF Has
  <2>3. pending' = pending
    BY <1>3 DEF pollVars
  <2>4. /\ \A h : Has(h)' => Has(h)
        /\ Commits' = Commits
        /\ \A v \in Workers : wpc[v] # "handOn" => wpc'[v] # "handOn"
    BY <1>3, <2>2, <2>3, ReleaseKeeps
  <2>5. moved \subseteq moved' /\ (faults' = 0 => faults = 0 /\ moved' = moved)
    BY <1>3, FaultType DEF TypeOK
  <2>6. moved' # moved => wpc[w] = "handOn"
    BY <1>3
  <2> QED
    BY <1>3, <2>1, <2>4, <2>5, <2>6 DEF BooksKept, settings, queueVars, batcherVars
<1>4. CASE HandlerFails(w)
  BY <1>3, <1>4 DEF HandlerFails, Release, ends
<1>5. CASE HandOnFails(w)
  BY <1>3, <1>5 DEF HandOnFails, HandOn
<1>6. CASE HandlerFailsScheduled(w)
  <2>1. UNCHANGED <<pollVars, chan, cur, batcherVars>> /\ wpc' = [wpc EXCEPT ![w] = "handOn"]
    BY <1>6 DEF HandlerFailsScheduled
  <2>2. /\ \A h : Has(h)' => Has(h)
        /\ Batcher!Accepted' = Batcher!Accepted
        /\ Commits' = Commits
    BY <1>6, <2>1, GoOnKeeps DEF HandlerFailsScheduled
  <2> QED
    BY <1>6, <2>2 DEF HandlerFailsScheduled, BooksKept, settings, queueVars, ends, batcherVars
<1>7. ASSUME UNCHANGED <<settings, queueVars, pollVars, chan, cur, faults, batcherVars>>,
             wpc' = [wpc EXCEPT ![w] = "commit"],
             \/ handled' = handled \cup {Handle(cur[w][1])} /\ moved' = moved
             \/ handled' = handled /\ moved' = moved \cup {Handle(cur[w][1])} /\ wpc[w] = "handOn"
      PROVE  BooksKept
  <2>1. /\ \A h : Has(h)' => Has(h)
        /\ Batcher!Accepted' = Batcher!Accepted
        /\ Commits' = Commits \cup {Handle(cur[w][1])}
        /\ \A v \in Workers : wpc[v] # "handOn" => wpc'[v] # "handOn"
    BY <1>7, GoOnKeeps
  <2> QED
    BY <1>7, <2>1 DEF BooksKept, settings, queueVars, batcherVars
<1>8. CASE HandlerSucceeds(w)
  BY <1>7, <1>8 DEF HandlerSucceeds
<1>9. CASE HandedOn(w)
  BY <1>7, <1>9 DEF HandedOn, HandOn
<1>10. CASE DeleteSync(w)
  <2> DEFINE h0 == Handle(cur[w][1])
  <2>1. Waiting' = Waiting /\ Batcher!Accepted' = Batcher!Accepted
    BY <1>10, BatcherSame DEF DeleteSync, batcherVars
  <2>2. \A h \in Waiting' : Has(h)
    BY <2>1 DEF Has
  <2>3. /\ \A h : Has(h)' => Has(h)
        /\ Commits' \subseteq Commits
        /\ \A v \in Workers : wpc[v] # "handOn" => wpc'[v] # "handOn"
    BY <1>10, <2>2, ReleaseKeeps DEF DeleteSync, pollVars
  <2>4. h0 \in Commits
    BY <1>10 DEF DeleteSync, Commits
  <2>5. \A m \in Msgs : sqs'[m] = "gone" => sqs[m] = "gone" \/ <<m, rcv[m]>> \in Commits
    <3>1. CASE DeleteAll({h0})
      BY <2>4, <3>1, DeleteEffect
    <3>2. CASE sqs' = sqs
      BY <3>2
    <3> QED
      BY <1>10, <3>1, <3>2 DEF DeleteSync
  <2>6. faults' = 0 => faults = 0
    BY <1>10, FaultType DEF DeleteSync
  <2>7. UNCHANGED <<route, rcv, deleted, requested, handled, moved>> /\ ~route.deleteBatch
    BY <1>10 DEF DeleteSync, settings, ends, batcherVars
  <2> QED
    BY <2>1, <2>3, <2>5, <2>6, <2>7 DEF BooksKept
<1>11. CASE DeleteBatched(w)
  <2> DEFINE h0 == Handle(cur[w][1])
  <2>1. h0 \in Msgs \X Nat /\ h0 \in Commits
    BY <1>11, InHand DEF DeleteBatched, Commits
  <2>2. /\ Batcher!Accepted' = Batcher!Accepted \cup {h0}
        /\ Waiting' = Waiting \cup {h0}
        /\ requested' = requested /\ deleted' = deleted
    BY <1>11, <2>1, EnqueueKeeps DEF DeleteBatched
  <2>3. Has(h0)
    <3>1. Len(cur[w]) = 1 /\ 1 \in 1 .. 1
      BY <1>11, InHand DEF DeleteBatched
    <3>2. h0 \in HandlesOf(cur[w])
      BY <3>1 DEF HandlesOf
    <3> QED
      BY <3>2 DEF Has
  <2>4. \A h \in Waiting' : Has(h)
    BY <2>2, <2>3 DEF Has
  <2>5. /\ \A h : Has(h)' => Has(h)
        /\ Commits' \subseteq Commits
        /\ Commits \subseteq Commits' \cup {h0}
        /\ \A v \in Workers : wpc[v] # "handOn" => wpc'[v] # "handOn"
    BY <1>11, <2>4, ReleaseKeeps DEF DeleteBatched, pollVars
  <2>6. UNCHANGED <<route, sqs, rcv, handled, moved, faults>>
    BY <1>11 DEF DeleteBatched, settings, queueVars, ends
  <2> QED
    BY <2>1, <2>2, <2>5, <2>6 DEF BooksKept
<1>12. CASE WorkerExit(w)
  <2>0. wpc \in [Workers -> {"idle", "handling", "handOn", "commit", "exited"}]
    BY DEF TypeOK, Idle
  <2>1. UNCHANGED <<pending, chan, cur>> /\ wpc' = [wpc EXCEPT ![w] = "exited"] /\ wpc[w] = "idle"
    BY <1>12 DEF WorkerExit, pollVars, Idle
  <2>2. Waiting' = Waiting /\ Batcher!Accepted' = Batcher!Accepted
    BY <1>12, BatcherSame DEF WorkerExit, batcherVars
  <2>3. \A h \in Waiting' : Has(h)
    BY <2>2 DEF Has
  <2>4. /\ \A v \in Workers \ {w} : chan'[v] = chan[v] /\ cur'[v] = cur[v] /\ wpc'[v] = wpc[v]
        /\ cur'[w] = cur[w] /\ chan'[w] = chan[w] /\ wpc'[w] = "exited"
    BY <2>0, <2>1
  <2>5. (\A h : Has(h)' => Has(h)) /\ Commits' = Commits
    BY <2>1, <2>3, <2>4, OneWorker
  <2>6. \A v \in Workers : wpc[v] # "handOn" => wpc'[v] # "handOn"
    BY <2>4
  <2> QED
    BY <1>12, <2>2, <2>5, <2>6 DEF WorkerExit, BooksKept, settings, queueVars, ends, batcherVars
<1> QED
  BY <1>1, <1>2, <1>4, <1>5, <1>6, <1>8, <1>9, <1>10, <1>11, <1>12 DEF Worker

\* What follows from kept books.
LEMMA BooksStep ==
  ASSUME TypeOK, EndedWell, HandledQueued, Faultless, BooksKept
  PROVE  EndedWell' /\ HandledQueued' /\ Faultless'
<1>1. EndedWell'
  <2>1. Commits \subseteq handled \cup moved /\ Batcher!Accepted \cup deleted \subseteq handled \cup moved
    BY DEF EndedWell
  <2>2. Commits' \subseteq handled' \cup moved' /\ Batcher!Accepted' \cup deleted' \subseteq handled' \cup moved'
    BY <2>1 DEF BooksKept
  <2>3. ASSUME NEW m \in Msgs, sqs'[m] = "gone" PROVE m \in Committed'
    <3>1. CASE sqs[m] = "gone"
      <4>1. PICK h \in handled \cup moved : m = h[1]
        BY <3>1 DEF EndedWell, Committed
      <4>2. h \in handled' \cup moved'
        BY <4>1 DEF BooksKept
      <4> QED
        BY <4>1, <4>2 DEF Committed
    <3>2. CASE <<m, rcv[m]>> \in Commits
      <4>1. <<m, rcv[m]>> \in handled' \cup moved'
        BY <2>1, <3>2 DEF BooksKept
      <4>2. m = <<m, rcv[m]>>[1]
        OBVIOUS
      <4> QED
        BY <4>1, <4>2 DEF Committed
    <3> QED
      BY <2>3, <3>1, <3>2 DEF BooksKept
  <2>4. ~route'.scheduled => moved' = {} /\ \A v \in Workers : wpc'[v] # "handOn"
    BY DEF BooksKept, EndedWell
  <2> QED
    BY <2>2, <2>3, <2>4 DEF EndedWell
<1>2. HandledQueued'
  BY DEF HandledQueued, BooksKept
<1>3. ASSUME route'.deleteBatch, faults' = 0
      PROVE  /\ moved' \subseteq Batcher!Accepted' \cup Commits'
             /\ \A h \in Msgs \X Nat : Has(h)' => rcv'[h[1]] = h[2] /\ sqs'[h[1]] # "visible"
             /\ \A h \in requested' : sqs'[h[1]] = "gone"
  <2>1. route.deleteBatch /\ faults = 0 /\ moved' \subseteq moved \cup Commits'
    BY <1>3 DEF BooksKept
  <2>2. moved \subseteq Batcher!Accepted \cup Commits /\ Batcher!Accepted \cup Commits \subseteq Batcher!Accepted' \cup Commits'
    BY <2>1 DEF BooksKept, Faultless
  <2>3. sqs' = sqs /\ rcv' = rcv /\ requested' = requested /\ \A h : Has(h)' => Has(h)
    BY <2>1 DEF BooksKept
  <2>4. \A h \in Msgs \X Nat : Has(h) => rcv[h[1]] = h[2] /\ sqs[h[1]] # "visible"
    BY <2>1 DEF Faultless
  <2>5. \A h \in requested' : sqs'[h[1]] = "gone"
    BY <2>1, <2>3 DEF Faultless
  <2> QED
    BY <2>1, <2>2, <2>3, <2>4, <2>5
<1>4. Faultless'
  BY <1>3 DEF Faultless
<1> QED
  BY <1>1, <1>2, <1>4

\* The senders: every answered delete is that of a message that ended well, and
\* with nothing gone wrong it took effect.
LEMMA SenderBooks ==
  ASSUME TypeOK, BP!Inv, EndedWell, HandledQueued, Faultless, NEW s \in Workers, Sender(s)
  PROVE  EndedWell' /\ HandledQueued' /\ Faultless'
<1>1. /\ UNCHANGED <<route, rcv, pending, chan, cur, wpc, handled, moved>>
      /\ (UNCHANGED <<sqs, faults>> /\ SenderMoves(s)) \/ DeleteAll(deleted')
  BY DEF Sender, SenderMoves, SendAnswered, SendError, OtherThanBatcher, settings, queueVars, pollVars,
     workerVars, ends
<1>2. Commits' = Commits
  BY <1>1 DEF Commits
<1>3. /\ Batcher!Accepted' = Batcher!Accepted
      /\ Waiting' \subseteq Waiting
      /\ requested \subseteq requested'
      /\ requested' \subseteq requested \cup Batcher!InSeq(batch[s])
      /\ deleted' \subseteq deleted \cup Batcher!InSeq(batch[s])
      /\ Batcher!InSeq(batch[s]) \subseteq Waiting
  BY SenderKeeps
<1>4. Waiting \subseteq Batcher!Accepted
  BY DEF Waiting, Batcher!Accepted
<1>5. deleted' \subseteq handled \cup moved
  BY <1>3, <1>4 DEF EndedWell
<1>6. ASSUME NEW m \in Msgs, sqs'[m] = "gone" PROVE m \in Committed
  <2>1. CASE sqs[m] = "gone"
    BY <2>1 DEF EndedWell
  <2>2. CASE <<m, rcv[m]>> \in deleted'
    <3>1. <<m, rcv[m]>> \in handled \cup moved /\ m = <<m, rcv[m]>>[1]
      BY <1>5, <2>2
    <3> QED
      BY <3>1 DEF Committed
  <2> QED
    BY <1>1, <1>6, <2>1, <2>2, DeleteEffect
<1>7. EndedWell'
  <2>1. Committed' = Committed
    BY <1>1 DEF Committed
  <2> QED
    BY <1>1, <1>2, <1>3, <1>5, <1>6, <2>1 DEF EndedWell
<1>8. HandledQueued'
  BY <1>1, <1>2, <1>3 DEF HandledQueued
<1>9. ASSUME NEW h, Has(h)' PROVE Has(h)
  <2>1. \/ h \in HandlesOf(pending)
        \/ \E w \in Workers : h \in HandlesOf(chan[w]) \cup HandlesOf(cur[w])
        \/ h \in Waiting'
    BY <1>1, <1>9, HasAfter
  <2> QED
    BY <1>3, <2>1 DEF Has
<1>10. ASSUME route.deleteBatch, faults' = 0
       PROVE  /\ moved' \subseteq Batcher!Accepted' \cup Commits'
              /\ \A h \in Msgs \X Nat : Has(h)' => rcv'[h[1]] = h[2] /\ sqs'[h[1]] # "visible"
              /\ \A h \in requested' : sqs'[h[1]] = "gone"
  <2>0. faults = 0
    BY <1>10, FaultType DEF Sender, SenderMoves, SendAnswered, SendError, OtherThanBatcher
  <2>1. moved' \subseteq Batcher!Accepted' \cup Commits'
    BY <1>1, <1>2, <1>3, <1>10, <2>0 DEF Faultless
  <2>2. \A m \in Msgs : sqs[m] # "visible" => sqs'[m] # "visible"
    BY <1>1, DeleteEffect
  <2>3. \A h \in Msgs \X Nat : Has(h)' => rcv'[h[1]] = h[2] /\ sqs'[h[1]] # "visible"
    <3> SUFFICES ASSUME NEW h \in Msgs \X Nat, Has(h)'
                 PROVE  rcv'[h[1]] = h[2] /\ sqs'[h[1]] # "visible"
      OBVIOUS
    <3>1. Has(h) /\ h[1] \in Msgs
      BY <1>9
    <3>2. rcv[h[1]] = h[2] /\ sqs[h[1]] # "visible"
      BY <1>10, <2>0, <3>1 DEF Faultless
    <3> QED
      BY <1>1, <2>2, <3>1, <3>2
  <2>4. ASSUME NEW h \in requested' PROVE sqs'[h[1]] = "gone"
    <3>1. requested \subseteq Msgs \X Nat /\ batch[s] \in Seq(Msgs \X Nat)
      BY DEF BP!Inv, BP!TypeOK
    <3>2. h \in Msgs \X Nat /\ h[1] \in Msgs /\ h = <<h[1], h[2]>>
      BY <1>3, <2>4, <3>1 DEF Batcher!InSeq
    <3>3. CASE h \in requested
      <4>1. sqs[h[1]] = "gone"
        BY <1>10, <2>0, <3>3 DEF Faultless
      <4> QED
        BY <1>1, <3>2, <4>1, DeleteEffect
    <3>4. CASE h \notin requested
      <4>1. h \in Batcher!InSeq(batch[s]) /\ Has(h)
        BY <1>3, <2>4, <3>4 DEF Has
      <4>2. rcv[h[1]] = h[2] /\ sqs[h[1]] \in {"inflight", "gone"}
        BY <1>10, <2>0, <3>2, <4>1 DEF Faultless, TypeOK
      <4>3. h \in deleted' /\ DeleteAll(deleted')
        <5>1. CASE SenderMoves(s)
          BY <2>4, <3>4, <5>1 DEF SenderMoves, Batcher!RecvFirst, Batcher!Exit, Batcher!DrainOne, Batcher!DrainEnd
        <5>2. ASSUME NEW ids \in SUBSET (0 .. Len(batch[s]) - 1), SendAnswered(s, ids)
              PROVE  h \in deleted' /\ DeleteAll(deleted')
          <6>1. ids = {}
            BY <1>10, <5>2, FaultType DEF SendAnswered
          <6>2. Batcher!InSeq(batch[s]) \subseteq deleted'
            BY <5>2, <6>1 DEF SendAnswered, Batcher!SendAnswered, Batcher!Settle, Batcher!InSeq
          <6> QED
            BY <4>1, <5>2, <6>2 DEF SendAnswered
        <5>3. ASSUME NEW gone \in SUBSET Batcher!InSeq(batch[s]), SendError(s, gone)
              PROVE  FALSE
          BY <1>10, <5>3, FaultType DEF SendError
        <5> QED
          BY <5>1, <5>2, <5>3 DEF Sender
      <4> QED
        BY <3>2, <4>2, <4>3, DeleteEffect
    <3> QED
      BY <3>3, <3>4
  <2> QED
    BY <2>1, <2>3, <2>4
<1>11. Faultless'
  BY <1>1, <1>10 DEF Faultless
<1> QED
  BY <1>7, <1>8, <1>11

\* Nothing else touches what ended well, or what is on its way out.
LEMMA ElsewhereBooks ==
  ASSUME TypeOK, EndedWell, HandledQueued,
         UNCHANGED <<route, cur, wpc, handled, moved, handles, batch, requested, deleted>>,
         \A m \in Msgs : sqs'[m] = "gone" => sqs[m] = "gone"
  PROVE  EndedWell' /\ HandledQueued'
<1>1. Commits' = Commits /\ Committed' = Committed
  BY DEF Commits, Committed
<1>2. Batcher!Accepted' = Batcher!Accepted
  BY BatcherSame
<1> QED
  BY <1>1, <1>2 DEF EndedWell, HandledQueued

\* A step that leaves the queue alone and takes deliveries at most from the poll
\* loop is faultless.
LEMMA QuietFaultless ==
  ASSUME TypeOK, Faultless,
         UNCHANGED <<route, sqs, rcv, faults, cur, wpc, moved, handles, batch, requested, deleted>>,
         \A h \in HandlesOf(pending') : Has(h),
         \A w \in Workers : \A h \in HandlesOf(chan'[w]) : Has(h)
  PROVE  Faultless'
<1>1. Commits' = Commits /\ Batcher!Accepted' = Batcher!Accepted /\ Waiting' = Waiting
  BY BatcherSame DEF Commits
<1>2. ASSUME NEW h, Has(h)' PROVE Has(h)
  <2>1. \/ h \in HandlesOf(pending')
        \/ \E w \in Workers : h \in HandlesOf(chan'[w]) \cup HandlesOf(cur'[w])
        \/ h \in Waiting'
    BY <1>2, HasAfter
  <2>2. CASE \E w \in Workers : h \in HandlesOf(cur'[w])
    BY <2>2 DEF Has
  <2>3. CASE h \in Waiting'
    BY <1>1, <2>3 DEF Has
  <2> QED
    BY <2>1, <2>2, <2>3
<1> QED
  BY <1>1, <1>2 DEF Faultless

\* A message that is handed out had no receipt in use.
LEMMA ReceiveFaultless ==
  ASSUME TypeOK, Faultless, NEW S \in Batches, Receive(S)
  PROVE  Faultless'
<1>1. PICK order \in InOrder(S) :
        pending' = [i \in 1 .. Len(order) |->
                      [msg |-> order[i], receipt |-> rcv[order[i]] + 1, batch |-> batchNo + 1]]
  BY DEF Receive
<1>2. /\ \A i \in 1 .. Len(order) : order[i] \in S
      /\ S \subseteq Available /\ S \subseteq Msgs
      /\ Len(pending') = Len(order)
  BY <1>1, BatchType
<1>3. /\ UNCHANGED <<route, faults, chan, cur, wpc, moved, handles, batch, requested, deleted>>
      /\ Deliver(S)
  BY DEF Receive, settings, workerVars, ends, batcherVars
<1>4. Commits' = Commits /\ Batcher!Accepted' = Batcher!Accepted /\ Waiting' = Waiting
  BY <1>3, BatcherSame DEF Commits
<1>5. \A m \in Msgs : /\ m \in S => sqs'[m] = "inflight" /\ rcv'[m] = rcv[m] + 1 /\ sqs[m] = "visible"
                      /\ m \notin S => sqs'[m] = sqs[m] /\ rcv'[m] = rcv[m]
  BY <1>2, <1>3, DeliverEffect DEF Available
<1>6. ASSUME NEW h \in Msgs \X Nat, Has(h)'
      PROVE  \/ Has(h)
             \/ h[1] \in S /\ rcv'[h[1]] = h[2]
  <2>1. \/ h \in HandlesOf(pending')
        \/ \E w \in Workers : h \in HandlesOf(chan'[w]) \cup HandlesOf(cur'[w])
        \/ h \in Waiting'
    BY <1>6, HasAfter
  <2>2. CASE h \in HandlesOf(pending')
    <3>1. PICK i \in 1 .. Len(order) : h = Handle(pending'[i])
      BY <1>2, <2>2 DEF HandlesOf
    <3>2. h = <<order[i], rcv[order[i]] + 1>>
      BY <1>1, <3>1 DEF Handle
    <3>3. h[1] = order[i] /\ h[2] = rcv[order[i]] + 1 /\ order[i] \in S
      BY <1>2, <3>2
    <3> QED
      BY <1>2, <1>5, <3>3
  <2>3. CASE \E w \in Workers : h \in HandlesOf(chan'[w]) \cup HandlesOf(cur'[w])
    BY <1>3, <2>3 DEF Has
  <2>4. CASE h \in Waiting'
    BY <1>4, <2>4 DEF Has
  <2> QED
    BY <2>1, <2>2, <2>3, <2>4
<1>7. ASSUME route.deleteBatch, faults = 0
      PROVE  /\ moved' \subseteq Batcher!Accepted' \cup Commits'
             /\ \A h \in Msgs \X Nat : Has(h)' => rcv'[h[1]] = h[2] /\ sqs'[h[1]] # "visible"
             /\ \A h \in requested' : sqs'[h[1]] = "gone"
  <2>1. /\ moved \subseteq Batcher!Accepted \cup Commits
        /\ \A h \in Msgs \X Nat : Has(h) => rcv[h[1]] = h[2] /\ sqs[h[1]] # "visible"
        /\ \A h \in requested : sqs[h[1]] = "gone"
    BY <1>7 DEF Faultless
  <2>2. ASSUME NEW h \in Msgs \X Nat, Has(h)' PROVE rcv'[h[1]] = h[2] /\ sqs'[h[1]] # "visible"
    <3>1. h[1] \in Msgs
      OBVIOUS
    <3>2. CASE Has(h)
      BY <1>5, <2>1, <3>1, <3>2
    <3>3. CASE h[1] \in S /\ rcv'[h[1]] = h[2]
      BY <1>5, <3>1, <3>3
    <3> QED
      BY <1>6, <2>2, <3>2, <3>3
  <2>3. ASSUME NEW h \in requested' PROVE sqs'[h[1]] = "gone"
    <3>1. requested \subseteq Msgs \X Nat
      BY DEF TypeOK, Batcher!TypeOK
    <3>2. h[1] \in Msgs /\ sqs[h[1]] = "gone"
      BY <1>3, <2>1, <2>3, <3>1
    <3> QED
      BY <1>5, <3>2
  <2> QED
    BY <1>3, <1>4, <2>1, <2>2, <2>3
<1> QED
  BY <1>3, <1>7 DEF Faultless

\* A visibility timeout that runs out with nothing gone wrong is that of a message
\* the consumer has given up.
LEMMA ExpireFaultless ==
  ASSUME TypeOK, Faultless, NEW m \in Msgs, Expire(m)
  PROVE  Faultless'
<1>1. /\ UNCHANGED <<route, rcv, pending, chan, cur, wpc, moved, handles, batch, requested, deleted>>
      /\ sqs[m] = "inflight" /\ sqs' = [sqs EXCEPT ![m] = "visible"]
  BY DEF Expire, settings, pollVars, workerVars, ends, batcherVars
<1>2. Commits' = Commits /\ Batcher!Accepted' = Batcher!Accepted
  BY <1>1, BatcherSame DEF Commits
<1>3. Has(<<m, rcv[m]>>) => Holds(m)
  BY DEF Has, Holds, HandlesOf, Waiting
<1>4. ASSUME NEW h, Has(h)' PROVE Has(h)
  <2>1. Waiting' = Waiting
    BY <1>1, BatcherSame
  <2> QED
    BY <1>1, <1>4, <2>1, HasAfter DEF Has
<1>5. ASSUME route.deleteBatch, faults' = 0
      PROVE  /\ moved' \subseteq Batcher!Accepted' \cup Commits'
             /\ \A h \in Msgs \X Nat : Has(h)' => rcv'[h[1]] = h[2] /\ sqs'[h[1]] # "visible"
             /\ \A h \in requested' : sqs'[h[1]] = "gone"
  <2>1. ~Holds(m) /\ faults = 0
    BY <1>5, FaultType DEF Expire
  <2>2. /\ moved \subseteq Batcher!Accepted \cup Commits
        /\ \A h \in Msgs \X Nat : Has(h) => rcv[h[1]] = h[2] /\ sqs[h[1]] # "visible"
        /\ \A h \in requested : sqs[h[1]] = "gone"
    BY <1>5, <2>1 DEF Faultless
  <2>3. ASSUME NEW h \in Msgs \X Nat, Has(h) PROVE h[1] # m /\ h[1] \in Msgs
    <3>1. h[1] \in Msgs /\ h = <<h[1], h[2]>> /\ rcv[h[1]] = h[2]
      BY <2>2, <2>3
    <3> QED
      BY <1>3, <2>1, <2>3, <3>1
  <2>4. \A n \in Msgs : n # m => sqs'[n] = sqs[n]
    BY <1>1 DEF TypeOK
  <2>5. \A h \in requested : h[1] \in Msgs /\ h[1] # m
    BY <1>1, <2>2 DEF TypeOK, Batcher!TypeOK
  <2>6. ASSUME NEW h \in Msgs \X Nat, Has(h)' PROVE rcv'[h[1]] = h[2] /\ sqs'[h[1]] # "visible"
    <3>1. Has(h)
      BY <1>4, <2>6
    <3>2. h[1] # m /\ h[1] \in Msgs
      BY <2>3, <3>1
    <3> QED
      BY <1>1, <2>2, <2>4, <3>1, <3>2
  <2>7. \A h \in requested' : sqs'[h[1]] = "gone"
    BY <1>1, <2>2, <2>4, <2>5
  <2> QED
    BY <1>1, <1>2, <2>2, <2>6, <2>7
<1> QED
  BY <1>1, <1>5 DEF Faultless

\* Every other step.
LEMMA OtherBooks ==
  ASSUME TypeOK, EndedWell, HandledQueued, Faultless,
         Poller \/ ReceiveEmpty \/ Cancel \/ Returned \/ UNCHANGED vars \/ \E m \in Msgs : Expire(m)
  PROVE  EndedWell' /\ HandledQueued' /\ Faultless'
<1>0. pending \in Seq(Deliveries) /\ \A w \in Workers : chan[w] \in Seq(Deliveries)
  BY DEF TypeOK
<1>1. ASSUME UNCHANGED <<route, sqs, rcv, faults, chan, cur, wpc, handled, moved, handles, batch, requested, deleted>>,
             pending' = pending \/ (pending # << >> /\ pending' = Tail(pending))
      PROVE  EndedWell' /\ HandledQueued' /\ Faultless'
  <2>1. \A h \in HandlesOf(pending') : Has(h)
    BY <1>0, <1>1, HandlesOps DEF Has
  <2>2. \A w \in Workers : \A h \in HandlesOf(chan'[w]) : Has(h)
    BY <1>1 DEF Has
  <2> QED
    BY <1>1, <2>1, <2>2, QuietFaultless, ElsewhereBooks
<1>2. CASE PollStop \/ WaitOver \/ DispatchDrop \/ CloseChannels \/ Return \/ Cancel \/ UNCHANGED vars
           \/ ReceiveEmpty \/ Returned
  <2>1. UNCHANGED <<route, sqs, rcv, faults, chan, cur, wpc, handled, moved, handles, batch, requested, deleted>>
    BY <1>2 DEF PollStop, WaitOver, DispatchDrop, CloseChannels, Return, Cancel, ReceiveEmpty, Returned,
       vars, settings, queueVars, workerVars, ends, batcherVars
  <2>2. pending' = pending \/ (pending # << >> /\ pending' = Tail(pending))
    BY <1>2 DEF PollStop, WaitOver, DispatchDrop, CloseChannels, Return, Cancel, ReceiveEmpty, Returned,
       vars, pollVars, Advance, TypeOK
  <2> QED
    BY <1>1, <2>1, <2>2
<1>3. CASE CloseBatcher
  <2>1. /\ UNCHANGED <<route, sqs, rcv, faults, chan, cur, wpc, handled, moved, handles, batch, requested, deleted>>
        /\ pending' = pending
    BY <1>3 DEF CloseBatcher, Batcher!Close, settings, queueVars, workerVars, ends
  <2> QED
    BY <1>1, <2>1
<1>4. ASSUME NEW w \in Workers, Dispatch(w) PROVE EndedWell' /\ HandledQueued' /\ Faultless'
  <2>1. UNCHANGED <<route, sqs, rcv, faults, cur, wpc, handled, moved, handles, batch, requested, deleted>>
    BY <1>4 DEF Dispatch, settings, queueVars, ends, batcherVars
  <2>2. /\ pending # << >> /\ pending' = Tail(pending)
        /\ chan' = [chan EXCEPT ![w] = Append(chan[w], Head(pending))]
    BY <1>4 DEF Dispatch, Advance, TypeOK
  <2>3. Head(pending) \in Deliveries
    BY <1>0, <2>2
  <2>4. HandlesOf(pending') \subseteq HandlesOf(pending) /\ Handle(Head(pending)) \in HandlesOf(pending)
    BY <1>0, <2>2, HandlesOps
  <2>5. HandlesOf(Append(chan[w], Head(pending))) = HandlesOf(chan[w]) \cup {Handle(Head(pending))}
    BY <1>0, <2>3, HandlesOps
  <2>6. \A v \in Workers : HandlesOf(chan'[v]) \subseteq HandlesOf(chan[v]) \cup HandlesOf(pending)
    <3> TAKE v \in Workers
    <3>1. CASE v = w
      <4>1. chan'[v] = Append(chan[w], Head(pending))
        BY <2>2, <3>1 DEF TypeOK
      <4> QED
        BY <2>4, <2>5, <3>1, <4>1
    <3>2. CASE v # w
      <4>1. chan'[v] = chan[v]
        BY <2>2, <3>2 DEF TypeOK
      <4> QED
        BY <4>1
    <3> QED
      BY <3>1, <3>2
  <2>7. /\ \A h \in HandlesOf(pending') : Has(h)
        /\ \A v \in Workers : \A h \in HandlesOf(chan'[v]) : Has(h)
    BY <2>4, <2>6 DEF Has
  <2> QED
    BY <2>1, <2>7, QuietFaultless, ElsewhereBooks
<1>5. ASSUME NEW S \in Batches \cup {{}}, Deliver(S),
             UNCHANGED <<settings, workerVars, batcherVars>>
      PROVE  EndedWell' /\ HandledQueued'
  <2>1. \A m \in Msgs : sqs'[m] = "gone" => sqs[m] = "gone"
    BY <1>5, DeliverEffect
  <2> QED
    BY <1>5, <2>1, ElsewhereBooks DEF settings, workerVars, ends, batcherVars
<1>6. ASSUME NEW S \in Batches, Receive(S) PROVE EndedWell' /\ HandledQueued' /\ Faultless'
  BY <1>5, <1>6, ReceiveFaultless DEF Receive
<1>7. ASSUME NEW S \in Batches \cup {{}}, ReceiveError(S) PROVE EndedWell' /\ HandledQueued' /\ Faultless'
  <2>1. EndedWell' /\ HandledQueued'
    BY <1>5, <1>7 DEF ReceiveError
  <2>2. faults' # 0
    BY <1>7, FaultType DEF ReceiveError
  <2> QED
    BY <2>1, <2>2 DEF Faultless
<1>8. ASSUME NEW m \in Msgs, Expire(m) PROVE EndedWell' /\ HandledQueued' /\ Faultless'
  <2>1. UNCHANGED <<route, cur, wpc, handled, moved, handles, batch, requested, deleted>>
    BY <1>8 DEF Expire, settings, workerVars, ends, batcherVars
  <2>2. \A n \in Msgs : sqs'[n] = "gone" => sqs[n] = "gone"
    BY <1>8 DEF Expire, TypeOK
  <2> QED
    BY <1>8, <2>1, <2>2, ElsewhereBooks, ExpireFaultless
<1> QED
  BY <1>2, <1>3, <1>4, <1>6, <1>7, <1>8 DEF Poller

-----------------------------------------------------------------------------
(* The invariant holds, and what it says of the runs' properties.           *)

\* A consumer starts with a full queue and nothing received.
LEMMA InvInit == Init => Inv
<1> SUFFICES ASSUME Init PROVE Inv
  OBVIOUS
<1>1. BP!Inv
  BY BatcherInit DEF Init
<1>2. Batcher!TypeOK
  BY <1>1 DEF BP!Inv, BP!TypeOK, Batcher!TypeOK, BP!SenderStates, Batcher!SenderStates
<1>3. TypeOK
  <2>1. PICK s \in Settings : route = s.route /\ env = s.env
    BY DEF Init
  <2>2. s = [route |-> route, env |-> env] /\ env.maxFaults \in Nat
    BY <2>1, ConsumerAssumption DEF Surroundings
  <2>3. << >> \in Seq(Deliveries) /\ Len(<< >>) = 0
    OBVIOUS
  <2>4. /\ chan \in [Workers -> Seq(Deliveries)] /\ cur \in [Workers -> Seq(Deliveries)]
        /\ \A w \in Workers : chan[w] = << >> /\ cur[w] = << >> /\ wpc[w] = "idle"
    BY <2>3 DEF Init, Idle
  <2>5. [route |-> route, env |-> env] \in Settings /\ faults \in 0 .. env.maxFaults
    BY <2>2 DEF Init
  <2>6. \A w \in Workers : Len(chan[w]) <= MaxMessages
    BY <2>3, <2>4, ConsumerAssumption
  <2>7. /\ sqs \in [Msgs -> {"visible", "inflight", "gone"}] /\ rcv \in [Msgs -> Nat]
        /\ wpc \in [Workers -> {"idle", "handling", "handOn", "commit", "exited"}]
        /\ cancelled = FALSE /\ rpc = "poll" /\ pending = << >> /\ batchNo = 0 /\ poisoned = {}
        /\ chClosed = FALSE /\ handled = {} /\ moved = {}
    BY DEF Init, Idle
  <2> QED
    BY <1>2, <2>3, <2>4, <2>5, <2>6, <2>7 DEF TypeOK, Idle
<1>4. Batcher!Accepted = {} /\ deleted = {} /\ requested = {}
  BY DEF Init, Batcher!Init, Batcher!Accepted, Batcher!InSeq, Batcher!InBatch
<1>5. Commits = {}
  BY DEF Init, Commits, Idle
<1>6. Stopping
  <2>1. closed = FALSE /\ chClosed = FALSE /\ rpc = "poll" /\ \A w \in Workers : wpc[w] = "idle"
    BY DEF Init, Batcher!Init, Idle
  <2> QED
    BY <2>1 DEF Stopping
<1>7. EndedWell
  <2>1. /\ moved = {} /\ \A w \in Workers : wpc[w] = "idle"
        /\ \A m \in Msgs : sqs[m] = "visible"
    BY DEF Init, Idle
  <2> QED
    BY <1>4, <1>5, <2>1 DEF EndedWell
<1>8. HandledQueued
  BY DEF Init, HandledQueued
<1>9. Faultless
  <2>1. ASSUME NEW h PROVE ~Has(h)
    <3>1. Waiting = {}
      BY <1>4 DEF Batcher!Accepted, Waiting
    <3>2. \A w \in Workers : chan[w] = << >> /\ cur[w] = << >>
      BY DEF Init
    <3>3. HandlesOf(<< >>) = {} /\ pending = << >>
      BY DEF Init, HandlesOf
    <3> QED
      BY <3>1, <3>2, <3>3 DEF Has
  <2>2. moved = {}
    BY DEF Init
  <2> QED
    BY <1>4, <2>1, <2>2 DEF Faultless
<1> QED
  BY <1>1, <1>3, <1>6, <1>7, <1>8, <1>9 DEF Inv

\* Every step of the consumer keeps the invariant.
LEMMA Inductive == Inv /\ [Next]_vars => Inv'
<1> SUFFICES ASSUME Inv, [Next]_vars PROVE Inv'
  OBVIOUS
<1>0. TypeOK /\ BP!Inv /\ Stopping /\ EndedWell /\ HandledQueued /\ Faultless
  BY DEF Inv
<1>1. BP!Inv'
  BY <1>0, BatcherStep, BatcherInductive
<1>2. Batcher!TypeOK'
  BY <1>1 DEF BP!Inv, BP!TypeOK, Batcher!TypeOK, BP!SenderStates, Batcher!SenderStates
<1>3. TypeOK'
  BY <1>0, <1>2, TypeStep
<1>4. Stopping'
  BY <1>0, StoppingStep
<1>5. EndedWell' /\ HandledQueued' /\ Faultless'
  <2>1. ASSUME NEW w \in Workers, Worker(w) PROVE EndedWell' /\ HandledQueued' /\ Faultless'
    BY <1>0, <2>1, WorkerBooks, BooksStep
  <2>2. ASSUME NEW s \in Workers, Sender(s) PROVE EndedWell' /\ HandledQueued' /\ Faultless'
    BY <1>0, <2>2, SenderBooks
  <2> QED
    BY <1>0, <2>1, <2>2, OtherBooks DEF Next
<1> QED
  BY <1>1, <1>3, <1>4, <1>5 DEF Inv

\* The invariant of a consumer.
THEOREM Invariance == Spec => []Inv
BY InvInit, Inductive, PTL DEF Spec

\* Every variable keeps its type; no worker channel outgrows maxMessages.
THEOREM TypeCorrect == Spec => []TypeOK
<1>1. Inv => TypeOK
  BY DEF Inv
<1> QED
  BY <1>1, Invariance, PTL

\* dispatch never sends on a closed worker channel, and no worker enqueues on a
\* closed delete batcher: a send on a closed channel would panic.
THEOREM SendsBeforeClose == Spec => []NoSendOnClosed
<1>1. Inv => NoSendOnClosed
  BY DEF Inv, Stopping, NoSendOnClosed
<1> QED
  BY <1>1, Invariance, PTL

\* A message leaves the queue only once it was handled, or under the Scheduled
\* model once a schedule or the DLQ has it.
THEOREM MessagesKept == Spec => []NoLoss
<1>1. Inv => NoLoss
  BY DEF Inv, EndedWell, NoLoss, Committed, Succeeded
<1> QED
  BY <1>1, Invariance, PTL

\* No one is left to commit when the workers are gone.
LEMMA NoneCommits == WorkersGone => Commits = {}
BY DEF WorkersGone, Commits

\* The delete batcher that every sender has left has settled what it accepted.
LEMMA SettledAll ==
  ASSUME Inv, Batcher!AllExited
  PROVE  Batcher!Accepted = requested
<1>1. BP!AllExited => BP!Accepted = requested
  BY DEF Inv, BP!Inv, BP!DrainedOnExit
<1> QED
  BY <1>1 DEF Batcher!AllExited, BP!AllExited, Batcher!Accepted, BP!Accepted, Batcher!InSeq, BP!InSeq,
     Batcher!InBatch, BP!InBatch

\* Run returns only when every worker and sender is gone, with empty channels and
\* the deletes of everything handled, and of nothing else, sent.
THEOREM ReturnsClean == Spec => []CleanReturn
<1>1. Inv => CleanReturn
  <2> SUFFICES ASSUME Inv, rpc = "returned"
               PROVE  /\ WorkersGone
                      /\ \A w \in Workers : chan[w] = << >>
                      /\ route.deleteBatch => /\ Batcher!AllExited
                                              /\ handled \subseteq requested
                                              /\ requested \subseteq handled \cup moved
    BY DEF CleanReturn
  <2>1. WorkersGone /\ \A w \in Workers : chan[w] = << >>
    BY DEF Inv, Stopping, WorkersGone
  <2>2. route.deleteBatch => Batcher!AllExited
    BY DEF Inv, Stopping
  <2>3. ASSUME route.deleteBatch PROVE handled \subseteq requested
    BY <2>1, <2>2, <2>3, NoneCommits, SettledAll DEF Inv, HandledQueued
  <2>4. requested \subseteq handled \cup moved
    BY DEF Inv, EndedWell, Batcher!Accepted
  <2> QED
    BY <2>1, <2>2, <2>3, <2>4
<1> QED
  BY <1>1, Invariance, PTL

\* With nothing going wrong, everything handled or handed on by the time Run
\* returns is deleted, whether or not ctx was canceled.
THEOREM HandledDeleted == Spec => []HandledAreDeleted
<1>1. Inv => HandledAreDeleted
  <2> SUFFICES ASSUME Inv, rpc = "returned", route.deleteBatch, faults = 0, NEW m \in Committed
               PROVE  sqs[m] = "gone"
    BY DEF HandledAreDeleted
  <2>1. Commits = {} /\ Batcher!Accepted = requested
    BY NoneCommits, SettledAll DEF Inv, Stopping
  <2>2. handled \cup moved \subseteq requested
    BY <2>1 DEF Inv, HandledQueued, Faultless
  <2>3. PICK h \in handled \cup moved : m = h[1]
    BY DEF Committed
  <2> QED
    BY <2>2, <2>3 DEF Inv, Faultless
<1> QED
  BY <1>1, Invariance, PTL

-----------------------------------------------------------------------------
(* The order of a group.                                                    *)

\* What is ahead stays ahead in a longer channel, or was its head.
LEMMA AheadOps ==
  ASSUME NEW q \in Seq(Deliveries), NEW n, NEW d, NEW k \in 0 .. Len(q), Ahead(n, d, q, k)
  PROVE  /\ Ahead(n, d, q, Len(q))
         /\ \A e \in Deliveries : Ahead(n, d, Append(q, e), k)
         /\ q # << >> => \/ Head(q).msg = n /\ Head(q).batch = d.batch
                         \/ Ahead(n, d, Tail(q), k - 1)
<1>1. PICK j \in 1 .. k : q[j].msg = n /\ q[j].batch = d.batch
  BY DEF Ahead
<1>2. j \in 1 .. Len(q) /\ Len(q) \in Nat /\ k \in Nat
  OBVIOUS
<1>3. \A e \in Deliveries : Append(q, e)[j] = q[j]
  BY <1>2
<1>4. ASSUME q # << >>, j # 1 PROVE j - 1 \in 1 .. k - 1 /\ Tail(q)[j - 1] = q[j]
  BY <1>2, <1>4
<1>5. q # << >> /\ j = 1 => Head(q) = q[j]
  OBVIOUS
<1> QED
  BY <1>1, <1>2, <1>3, <1>4, <1>5 DEF Ahead

\* What the order invariant says after a step.
LEMMA OrderAfter ==
  ASSUME \A v \in Workers : wpc'[v] = "handling" => Before(cur'[v][1].msg) \subseteq Succeeded',
         \A v \in Workers : \A i \in 1 .. Len(chan'[v]) : \A n \in Before(chan'[v][i].msg) :
           \/ n \in Succeeded' \/ <<chan'[v][i].batch, KeyOf[chan'[v][i].msg]>> \in poisoned'
           \/ Ahead(n, chan'[v][i], cur'[v], Len(cur'[v]))
           \/ Ahead(n, chan'[v][i], chan'[v], i - 1),
         \A i \in 1 .. Len(pending') : \A n \in Before(pending'[i].msg) :
           \/ n \in Succeeded' \/ <<pending'[i].batch, KeyOf[pending'[i].msg]>> \in poisoned'
           \/ Ahead(n, pending'[i], cur'[WorkerOf[KeyOf[pending'[i].msg]]],
                    Len(cur'[WorkerOf[KeyOf[pending'[i].msg]]]))
           \/ Ahead(n, pending'[i], chan'[WorkerOf[KeyOf[pending'[i].msg]]],
                    Len(chan'[WorkerOf[KeyOf[pending'[i].msg]]]))
           \/ Ahead(n, pending'[i], pending', i - 1)
  PROVE  HandlerReady' /\ ChannelReady' /\ PendingReady'
<1>1. HandlerReady'
  BY DEF HandlerReady, Before, Msgs
<1>2. ChannelReady'
  <2> SUFFICES ASSUME NEW v \in Workers, NEW i \in 1 .. Len(chan'[v]), NEW n \in Before(chan'[v][i].msg)
               PROVE  \/ n \in Succeeded' \/ <<chan'[v][i].batch, KeyOf[chan'[v][i].msg]>> \in poisoned'
                      \/ Ahead(n, chan'[v][i], cur'[v], Len(cur'[v]))
                      \/ Ahead(n, chan'[v][i], chan'[v], i - 1)
    BY DEF ChannelReady, Excused, Ahead, Before, Msgs
  <2> QED
    OBVIOUS
<1>3. PendingReady'
  BY DEF PendingReady, Excused, Ahead, Before, Msgs
<1> QED
  BY <1>1, <1>2, <1>3

\* n need not be waited for any more by d, or the handler of worker v is on it.
Aside(n, d, v) ==
  \/ n \in Succeeded' \/ <<d.batch, KeyOf[d.msg]>> \in poisoned'
  \/ Ahead(n, d, cur'[v], Len(cur'[v]))

\* Workers keep the order when what they take from their channel, or let go, is
\* on the handler or needs no waiting for.
LEMMA OrderKept ==
  ASSUME TypeOK, TypeOK', HandlerReady, ChannelReady, PendingReady,
         pending' = pending,
         Succeeded \subseteq Succeeded', poisoned \subseteq poisoned',
         \A v \in Workers : wpc'[v] = "handling" => Before(cur'[v][1].msg) \subseteq Succeeded',
         \A v \in Workers : chan'[v] = chan[v] \/ (chan[v] # << >> /\ chan'[v] = Tail(chan[v])),
         \A v \in Workers, d \in Deliveries : \A n \in Before(d.msg) :
           /\ Ahead(n, d, cur[v], Len(cur[v])) => Aside(n, d, v)
           /\ chan'[v] # chan[v] /\ Head(chan[v]).msg = n /\ Head(chan[v]).batch = d.batch
                => Aside(n, d, v)
  PROVE  HandlerReady' /\ ChannelReady' /\ PendingReady'
<1>0. /\ \A v \in Workers : chan[v] \in Seq(Deliveries) /\ chan'[v] \in Seq(Deliveries)
      /\ \A v \in Workers : Len(chan[v]) \in Nat /\ Len(chan'[v]) \in Nat
      /\ pending \in Seq(Deliveries) /\ Len(pending) \in Nat
  BY DEF TypeOK
<1>1. ASSUME NEW v \in Workers, NEW d \in Deliveries, NEW n \in Before(d.msg),
             NEW k \in 0 .. Len(chan[v]), Ahead(n, d, chan[v], k)
      PROVE  \/ Aside(n, d, v)
             \/ chan'[v] = chan[v] /\ Ahead(n, d, chan'[v], k)
             \/ chan'[v] = Tail(chan[v]) /\ Ahead(n, d, chan'[v], k - 1)
  <2>1. CASE chan'[v] = chan[v]
    BY <1>1, <2>1
  <2>2. CASE chan'[v] # chan[v]
    <3>1. chan[v] # << >> /\ chan'[v] = Tail(chan[v])
      BY <2>2
    <3>2. \/ Head(chan[v]).msg = n /\ Head(chan[v]).batch = d.batch
          \/ Ahead(n, d, Tail(chan[v]), k - 1)
      BY <1>0, <1>1, <3>1, AheadOps
    <3> QED
      BY <2>2, <3>1, <3>2
  <2> QED
    BY <2>1, <2>2
<1>2. ASSUME NEW v \in Workers, NEW i \in 1 .. Len(chan'[v]), NEW n \in Before(chan'[v][i].msg)
      PROVE  Aside(n, chan'[v][i], v) \/ Ahead(n, chan'[v][i], chan'[v], i - 1)
  <2> DEFINE d == chan'[v][i]
  <2>1. d \in Deliveries
    BY <1>0
  <2>2. PICK k \in 0 .. 1 : /\ i + k \in 1 .. Len(chan[v]) /\ d = chan[v][i + k]
                            /\ k = 0 => chan'[v] = chan[v]
                            /\ k = 1 => chan'[v] # chan[v] /\ chan'[v] = Tail(chan[v])
    <3>1. CASE chan'[v] = chan[v]
      BY <3>1, <1>0
    <3>2. CASE chan'[v] # chan[v]
      <4>1. chan[v] # << >> /\ chan'[v] = Tail(chan[v])
        BY <3>2
      <4>2. Len(chan'[v]) = Len(chan[v]) - 1 /\ d = chan[v][i + 1]
        BY <1>0, <4>1
      <4> QED
        BY <1>0, <3>2, <4>1, <4>2
    <3> QED
      BY <3>1, <3>2
  <2>3. n \in Before(chan[v][i + k].msg)
    BY <2>2
  <2>4. \/ Excused(n, d) \/ Ahead(n, d, cur[v], Len(cur[v]))
        \/ Ahead(n, d, chan[v], (i + k) - 1)
    BY <2>2, <2>3 DEF ChannelReady
  <2>5. CASE Excused(n, d)
    BY <2>5 DEF Excused, Aside
  <2>6. CASE Ahead(n, d, cur[v], Len(cur[v]))
    BY <2>1, <2>6
  <2>7. CASE Ahead(n, d, chan[v], (i + k) - 1)
    <3>1. (i + k) - 1 \in 0 .. Len(chan[v])
      BY <1>0, <2>2
    <3>2. \/ Aside(n, d, v)
          \/ chan'[v] = chan[v] /\ Ahead(n, d, chan'[v], (i + k) - 1)
          \/ chan'[v] = Tail(chan[v]) /\ Ahead(n, d, chan'[v], ((i + k) - 1) - 1)
      BY <1>1, <2>1, <2>7, <3>1
    <3>3. CASE k = 0
      <4>1. (i + k) - 1 = i - 1 /\ chan'[v] = chan[v]
        BY <2>2, <3>3
      <4> QED
        BY <2>7, <4>1
    <3>4. CASE k = 1
      <4>1. ((i + k) - 1) - 1 = i - 1 /\ chan'[v] # chan[v]
        BY <2>2, <3>4
      <4> QED
        BY <3>2, <4>1
    <3> QED
      BY <3>3, <3>4
  <2> QED
    BY <2>4, <2>5, <2>6, <2>7
<1>3. ASSUME NEW i \in 1 .. Len(pending'), NEW n \in Before(pending'[i].msg)
      PROVE  LET w == WorkerOf[KeyOf[pending'[i].msg]]
             IN  \/ Aside(n, pending'[i], w)
                 \/ Ahead(n, pending'[i], chan'[w], Len(chan'[w]))
                 \/ Ahead(n, pending'[i], pending', i - 1)
  <2> DEFINE d == pending[i]
             w == WorkerOf[KeyOf[d.msg]]
  <2>1. d \in Deliveries /\ i \in 1 .. Len(pending) /\ n \in Before(d.msg)
    BY <1>0
  <2>2. w \in Workers
    BY <2>1, ConsumerAssumption DEF Deliveries
  <2>3. \/ Excused(n, d) \/ Ahead(n, d, cur[w], Len(cur[w]))
        \/ Ahead(n, d, chan[w], Len(chan[w]))
        \/ Ahead(n, d, pending, i - 1)
    BY <2>1 DEF PendingReady
  <2>4. CASE Excused(n, d)
    BY <2>4 DEF Excused, Aside
  <2>5. CASE Ahead(n, d, cur[w], Len(cur[w]))
    BY <2>1, <2>2, <2>5
  <2>6. CASE Ahead(n, d, chan[w], Len(chan[w]))
    <3>1. Len(chan[w]) \in 0 .. Len(chan[w])
      BY <1>0, <2>2
    <3>2. \/ Aside(n, d, w)
          \/ chan'[w] = chan[w] /\ Ahead(n, d, chan'[w], Len(chan[w]))
          \/ chan'[w] = Tail(chan[w]) /\ Ahead(n, d, chan'[w], Len(chan[w]) - 1)
      BY <1>1, <2>1, <2>2, <2>6, <3>1
    <3>3. chan'[w] = chan[w] \/ Len(chan'[w]) = Len(chan[w]) - 1
      <4>1. chan[w] # << >> => Len(Tail(chan[w])) = Len(chan[w]) - 1
        BY <1>0, <2>2
      <4> QED
        BY <2>2, <4>1
    <3>4. chan'[w] = Tail(chan[w]) /\ chan'[w] # chan[w] => Len(chan'[w]) = Len(chan[w]) - 1
      BY <3>3
    <3> QED
      BY <2>6, <3>2, <3>4
  <2> QED
    BY <2>3, <2>4, <2>5, <2>6
<1> QED
  <2>1. \A v \in Workers : \A i \in 1 .. Len(chan'[v]) : \A n \in Before(chan'[v][i].msg) :
           \/ n \in Succeeded' \/ <<chan'[v][i].batch, KeyOf[chan'[v][i].msg]>> \in poisoned'
           \/ Ahead(n, chan'[v][i], cur'[v], Len(cur'[v]))
           \/ Ahead(n, chan'[v][i], chan'[v], i - 1)
    BY <1>2 DEF Aside
  <2>2. \A i \in 1 .. Len(pending') : \A n \in Before(pending'[i].msg) :
           \/ n \in Succeeded' \/ <<pending'[i].batch, KeyOf[pending'[i].msg]>> \in poisoned'
           \/ Ahead(n, pending'[i], cur'[WorkerOf[KeyOf[pending'[i].msg]]],
                    Len(cur'[WorkerOf[KeyOf[pending'[i].msg]]]))
           \/ Ahead(n, pending'[i], chan'[WorkerOf[KeyOf[pending'[i].msg]]],
                    Len(chan'[WorkerOf[KeyOf[pending'[i].msg]]]))
           \/ Ahead(n, pending'[i], pending', i - 1)
    BY <1>3 DEF Aside
  <2> QED
    BY <2>1, <2>2, OrderAfter

\* The same, for a step of one worker.
LEMMA OrderKeptBy ==
  ASSUME TypeOK, TypeOK', HandlerReady, ChannelReady, PendingReady, NEW w \in Workers,
         pending' = pending,
         Succeeded \subseteq Succeeded', poisoned \subseteq poisoned',
         \A v \in Workers \ {w} : chan'[v] = chan[v] /\ cur'[v] = cur[v] /\ wpc'[v] = wpc[v],
         wpc'[w] = "handling" => Before(cur'[w][1].msg) \subseteq Succeeded',
         chan'[w] = chan[w] \/ (chan[w] # << >> /\ chan'[w] = Tail(chan[w])),
         \A d \in Deliveries : \A n \in Before(d.msg) :
           /\ Ahead(n, d, cur[w], Len(cur[w])) => Aside(n, d, w)
           /\ chan'[w] # chan[w] /\ Head(chan[w]).msg = n /\ Head(chan[w]).batch = d.batch
                => Aside(n, d, w)
  PROVE  HandlerReady' /\ ChannelReady' /\ PendingReady'
<1>1. \A v \in Workers : wpc'[v] = "handling" => Before(cur'[v][1].msg) \subseteq Succeeded'
  BY DEF HandlerReady
<1>2. ASSUME NEW v \in Workers
      PROVE  chan'[v] = chan[v] \/ (chan[v] # << >> /\ chan'[v] = Tail(chan[v]))
  <2>1. CASE v = w
    BY <2>1
  <2>2. CASE v # w
    BY <2>2
  <2> QED
    BY <2>1, <2>2
<1>3. ASSUME NEW v \in Workers, NEW d \in Deliveries, NEW n \in Before(d.msg)
      PROVE  /\ Ahead(n, d, cur[v], Len(cur[v])) => Aside(n, d, v)
             /\ chan'[v] # chan[v] /\ Head(chan[v]).msg = n /\ Head(chan[v]).batch = d.batch
                  => Aside(n, d, v)
  <2>1. CASE v = w
    BY <2>1
  <2>2. CASE v # w
    <3>1. chan'[v] = chan[v] /\ cur'[v] = cur[v]
      BY <2>2
    <3> QED
      BY <3>1 DEF Aside
  <2> QED
    BY <2>1, <2>2
<1> QED
  BY <1>1, <1>2, <1>3, OrderKept

\* The one delivery in hand is all that is ahead there.
LEMMA AheadInHand ==
  ASSUME TypeOK, NEW w \in Workers, NEW n, NEW d, Ahead(n, d, cur[w], Len(cur[w]))
  PROVE  /\ wpc[w] \in {"handling", "handOn", "commit"}
         /\ cur[w][1].msg = n /\ cur[w][1].batch = d.batch
<1>1. Len(cur[w]) = IF wpc[w] \in {"handling", "handOn", "commit"} THEN 1 ELSE 0
  BY DEF TypeOK
<1>2. PICK j \in 1 .. Len(cur[w]) : cur[w][j].msg = n /\ cur[w][j].batch = d.batch
  BY DEF Ahead
<1>3. Len(cur[w]) = 1 /\ j = 1
  BY <1>1, <1>2
<1> QED
  BY <1>1, <1>2, <1>3

\* No step of a worker breaks the order.
LEMMA WorkerOrder ==
  ASSUME TypeOK, TypeOK', EndedWell, OrderedGroups, HandlerReady, ChannelReady, PendingReady,
         NEW w \in Workers, Worker(w)
  PROVE  HandlerReady' /\ ChannelReady' /\ PendingReady'
<1>0. /\ chan \in [Workers -> Seq(Deliveries)] /\ cur \in [Workers -> Seq(Deliveries)]
      /\ wpc \in [Workers -> {"idle", "handling", "handOn", "commit", "exited"}]
      /\ ~route.scheduled /\ moved = {}
      /\ \A v \in Workers : wpc[v] # "handOn"
  BY DEF TypeOK, Idle, OrderedGroups, EndedWell
<1>1. ASSUME chan[w] # << >> /\ chan' = [chan EXCEPT ![w] = Tail(chan[w])]
      PROVE  /\ \A v \in Workers \ {w} : chan'[v] = chan[v]
             /\ chan'[w] = Tail(chan[w])
             /\ Head(chan[w]) \in Deliveries
             /\ Head(chan[w]) = chan[w][1] /\ 1 \in 1 .. Len(chan[w])
  <2>1. chan[w] \in Seq(Deliveries)
    BY <1>0
  <2>2. Head(chan[w]) \in Deliveries /\ Head(chan[w]) = chan[w][1] /\ 1 \in 1 .. Len(chan[w])
    BY <1>1, <2>1
  <2> QED
    BY <1>0, <1>1, <2>2
<1>2. CASE Hold(w)
  <2>1. /\ chan[w] # << >> /\ chan' = [chan EXCEPT ![w] = Tail(chan[w])]
        /\ <<Head(chan[w]).batch, KeyOf[Head(chan[w]).msg]>> \in poisoned
        /\ UNCHANGED <<pending, poisoned, wpc, cur, handled>>
    BY <1>2 DEF Hold, HeldBack, pollVars, ends
  <2>2. Succeeded' = Succeeded
    BY <2>1 DEF Succeeded
  <2>3. ASSUME NEW d \in Deliveries, NEW n \in Before(d.msg)
        PROVE  /\ Ahead(n, d, cur[w], Len(cur[w])) => Aside(n, d, w)
               /\ chan'[w] # chan[w] /\ Head(chan[w]).msg = n /\ Head(chan[w]).batch = d.batch
                    => Aside(n, d, w)
    <3>1. KeyOf[n] = KeyOf[d.msg]
      BY <2>3 DEF Before
    <3> QED
      BY <2>1, <3>1 DEF Aside
  <2>4. wpc'[w] # "handling"
    BY <1>2 DEF Hold, Idle, ends
  <2> QED
    BY <1>1, <2>1, <2>2, <2>3, <2>4, OrderKeptBy
<1>3. CASE StartHandler(w)
  <2>1. /\ chan[w] # << >> /\ chan' = [chan EXCEPT ![w] = Tail(chan[w])]
        /\ <<Head(chan[w]).batch, KeyOf[Head(chan[w]).msg]>> \notin poisoned
        /\ cur' = [cur EXCEPT ![w] = <<Head(chan[w])>>]
        /\ wpc' = [wpc EXCEPT ![w] = "handling"] /\ wpc[w] = "idle"
        /\ UNCHANGED <<pending, poisoned, handled>>
    BY <1>3 DEF StartHandler, HeldBack, pollVars, ends, Idle
  <2>2. Succeeded' = Succeeded
    BY <2>1 DEF Succeeded
  <2>3. /\ cur'[w] = <<Head(chan[w])>>
        /\ \A v \in Workers \ {w} : cur'[v] = cur[v] /\ wpc'[v] = wpc[v]
    BY <1>0, <2>1
  <2>4. ASSUME NEW n \in Before(Head(chan[w]).msg) PROVE n \in Succeeded
    <3>1. \/ Excused(n, chan[w][1])
          \/ Ahead(n, chan[w][1], cur[w], Len(cur[w]))
          \/ Ahead(n, chan[w][1], chan[w], 1 - 1)
      BY <1>1, <2>1, <2>4 DEF ChannelReady
    <3>2. ~Ahead(n, chan[w][1], chan[w], 1 - 1)
      BY DEF Ahead
    <3>3. ~Ahead(n, chan[w][1], cur[w], Len(cur[w]))
      BY <2>1, AheadInHand
    <3> QED
      BY <1>1, <2>1, <3>1, <3>2, <3>3 DEF Excused
  <2>5. ASSUME NEW d \in Deliveries, NEW n \in Before(d.msg)
        PROVE  /\ Ahead(n, d, cur[w], Len(cur[w])) => Aside(n, d, w)
               /\ chan'[w] # chan[w] /\ Head(chan[w]).msg = n /\ Head(chan[w]).batch = d.batch
                    => Aside(n, d, w)
    <3>1. ~Ahead(n, d, cur[w], Len(cur[w]))
      BY <2>1, AheadInHand
    <3>2. Len(cur'[w]) = 1 /\ cur'[w][1] = Head(chan[w]) /\ 1 \in 1 .. 1
      BY <2>3
    <3>3. Head(chan[w]).msg = n /\ Head(chan[w]).batch = d.batch => Ahead(n, d, cur'[w], Len(cur'[w]))
      BY <3>2 DEF Ahead
    <3> QED
      BY <3>1, <3>3 DEF Aside
  <2>6. Before(cur'[w][1].msg) \subseteq Succeeded'
    <3>1. cur'[w][1] = Head(chan[w])
      BY <2>3
    <3> QED
      BY <2>2, <2>4, <3>1
  <2>7. \A v \in Workers \ {w} : chan'[v] = chan[v] /\ cur'[v] = cur[v] /\ wpc'[v] = wpc[v]
    BY <1>1, <2>1, <2>3
  <2> QED
    BY <1>1, <2>1, <2>2, <2>5, <2>6, <2>7, OrderKeptBy
<1>4. ASSUME UNCHANGED <<pending, chan>>, handled \subseteq handled', poisoned \subseteq poisoned',
             cur' = cur \/ cur' = [cur EXCEPT ![w] = << >>],
             NEW t \in {"idle", "commit", "exited"}, wpc' = [wpc EXCEPT ![w] = t],
             cur' # cur => \/ cur[w][1].msg \in Succeeded'
                           \/ <<cur[w][1].batch, KeyOf[cur[w][1].msg]>> \in poisoned'
      PROVE  HandlerReady' /\ ChannelReady' /\ PendingReady'
  <2>1. Succeeded \subseteq Succeeded'
    BY <1>4 DEF Succeeded
  <2>2. \A v \in Workers \ {w} : cur'[v] = cur[v] /\ wpc'[v] = wpc[v]
    BY <1>0, <1>4
  <2>3. ASSUME NEW d \in Deliveries, NEW n \in Before(d.msg), Ahead(n, d, cur[w], Len(cur[w]))
        PROVE  Aside(n, d, w)
    <3>1. cur[w][1].msg = n /\ cur[w][1].batch = d.batch
      BY <2>3, AheadInHand
    <3>2. KeyOf[n] = KeyOf[d.msg]
      BY <2>3 DEF Before
    <3>3. CASE cur' = cur
      BY <2>3, <3>3 DEF Aside
    <3>4. CASE cur' # cur
      BY <1>4, <3>1, <3>2, <3>4 DEF Aside
    <3> QED
      BY <3>3, <3>4
  <2>4. wpc'[w] # "handling" /\ pending' = pending /\ chan' = chan /\ poisoned \subseteq poisoned'
    BY <1>0, <1>4
  <2>5. \A v \in Workers \ {w} : chan'[v] = chan[v] /\ cur'[v] = cur[v] /\ wpc'[v] = wpc[v]
    BY <2>2, <2>4
  <2> QED
    BY <2>1, <2>3, <2>4, <2>5, OrderKeptBy
<1>5. CASE HandlerFails(w)
  <2>1. /\ UNCHANGED <<pending, chan, handled>>
        /\ cur' = [cur EXCEPT ![w] = << >>] /\ wpc' = [wpc EXCEPT ![w] = "idle"]
        /\ poisoned' = poisoned \cup {<<cur[w][1].batch, KeyOf[cur[w][1].msg]>>}
    BY <1>5 DEF HandlerFails, pollVars, ends, Idle
  <2> QED
    BY <1>4, <2>1
<1>6. CASE HandlerSucceeds(w)
  <2>1. /\ UNCHANGED <<pending, chan, poisoned, cur>>
        /\ handled \subseteq handled' /\ wpc' = [wpc EXCEPT ![w] = "commit"]
    BY <1>6 DEF HandlerSucceeds, pollVars
  <2> QED
    BY <1>4, <2>1
<1>7. CASE WorkerExit(w)
  <2>1. /\ UNCHANGED <<pending, chan, poisoned, cur, handled>>
        /\ wpc' = [wpc EXCEPT ![w] = "exited"]
    BY <1>7 DEF WorkerExit, pollVars, ends
  <2> QED
    BY <1>4, <2>1
<1>8. CASE DeleteSync(w) \/ DeleteBatched(w)
  <2>1. /\ UNCHANGED <<pending, chan, poisoned, handled>>
        /\ cur' = [cur EXCEPT ![w] = << >>] /\ wpc' = [wpc EXCEPT ![w] = "idle"]
        /\ wpc[w] = "commit"
    BY <1>8 DEF DeleteSync, DeleteBatched, Release, pollVars, ends, Idle
  <2>2. Handle(cur[w][1]) \in handled
    BY <1>0, <2>1 DEF EndedWell, Commits
  <2>3. cur[w][1].msg \in Succeeded'
    BY <2>1, <2>2 DEF Handle, Succeeded
  <2> QED
    BY <1>4, <2>1, <2>3
<1>9. ~HandlerFailsScheduled(w) /\ ~HandedOn(w) /\ ~HandOnFails(w)
  BY <1>0 DEF HandlerFailsScheduled, HandedOn, HandOnFails
<1> QED
  BY <1>2, <1>3, <1>5, <1>6, <1>7, <1>8, <1>9 DEF Worker

\* The messages of a key are in one message group.
LEMMA KeyInGroup ==
  ASSUME TypeOK, NEW m \in Msgs, NEW n \in Msgs, KeyOf[n] = KeyOf[m]
  PROVE  env.groupOf[n] = env.groupOf[m]
<1>1. /\ [route |-> route, env |-> env] \in Settings
      /\ [route |-> route, env |-> env].env = env
  BY DEF TypeOK
<1> QED
  BY <1>1, ConsumerAssumption

\* A batch carries the messages of a key in order, and none of them before an
\* earlier one that is still to be handled.
LEMMA ReceiveOrder ==
  ASSUME TypeOK, EndedWell, OrderedGroups, HandlerReady, ChannelReady, PendingReady,
         NEW S \in Batches, Receive(S)
  PROVE  HandlerReady' /\ ChannelReady' /\ PendingReady'
<1>1. PICK order \in InOrder(S) :
        pending' = [i \in 1 .. Len(order) |->
                      [msg |-> order[i], receipt |-> rcv[order[i]] + 1, batch |-> batchNo + 1]]
  BY DEF Receive
<1>2. /\ Len(order) \in Nat
      /\ \A i \in 1 .. Len(order) : order[i] \in S
      /\ \A m \in S : \E i \in 1 .. Len(order) : order[i] = m
      /\ \A i, j \in 1 .. Len(order) : i < j => order[i] < order[j]
      /\ S \subseteq Available /\ S \subseteq Msgs
      /\ Len(pending') = Len(order)
  BY <1>1, BatchType
<1>3. UNCHANGED <<chan, cur, wpc, handled, poisoned>>
  BY DEF Receive, workerVars, ends
<1>4. Succeeded' = Succeeded
  BY <1>3 DEF Succeeded
<1>5. \A v \in Workers : wpc'[v] = "handling" => Before(cur'[v][1].msg) \subseteq Succeeded'
  BY <1>3, <1>4 DEF HandlerReady
<1>6. ASSUME NEW v \in Workers, NEW i \in 1 .. Len(chan'[v]), NEW n \in Before(chan'[v][i].msg)
      PROVE  \/ n \in Succeeded' \/ <<chan'[v][i].batch, KeyOf[chan'[v][i].msg]>> \in poisoned'
             \/ Ahead(n, chan'[v][i], cur'[v], Len(cur'[v]))
             \/ Ahead(n, chan'[v][i], chan'[v], i - 1)
  BY <1>3, <1>4, <1>6 DEF ChannelReady, Excused
<1>7. ASSUME NEW i \in 1 .. Len(pending'), NEW n \in Before(pending'[i].msg)
      PROVE  n \in Succeeded' \/ Ahead(n, pending'[i], pending', i - 1)
  <2>1. /\ i \in 1 .. Len(order) /\ pending'[i].msg = order[i] /\ pending'[i].batch = batchNo + 1
        /\ order[i] \in S /\ order[i] \in Msgs /\ order[i] \in Available
    BY <1>1, <1>2
  <2>2. n \in Msgs /\ KeyOf[n] = KeyOf[order[i]] /\ n < order[i]
    BY <2>1, <1>7 DEF Before
  <2>3. env.groupOf[n] = env.groupOf[order[i]]
    BY <2>1, <2>2, KeyInGroup
  <2>4. CASE sqs[n] = "gone"
    <3>1. n \in Committed /\ moved = {}
      BY <2>2, <2>4 DEF EndedWell, OrderedGroups
    <3> QED
      BY <1>4, <3>1 DEF Committed, Succeeded
  <2>5. CASE sqs[n] = "inflight"
    BY <2>1, <2>2, <2>3, <2>5 DEF Available, SameGroup
  <2>6. CASE sqs[n] = "visible"
    <3>1. n \in Available
      BY <2>1, <2>2, <2>3, <2>6 DEF Available, SameGroup
    <3>2. n \in S
      BY <2>1, <2>2, <2>3, <3>1 DEF Batches, SameGroup
    <3>3. PICK j \in 1 .. Len(order) : order[j] = n
      BY <1>2, <3>2
    <3>4. j < i
      <4>1. ~(i < j) /\ i # j
        <5>1. \A m \in Msgs : m \in Nat
          BY ConsumerAssumption DEF Msgs
        <5> QED
          BY <1>2, <2>1, <2>2, <3>3, <5>1
      <4> QED
        BY <1>2, <2>1, <3>3, <4>1
    <3>5. j \in 1 .. i - 1 /\ pending'[j].msg = n /\ pending'[j].batch = batchNo + 1
      BY <1>1, <1>2, <2>1, <3>3, <3>4
    <3> QED
      BY <2>1, <3>5 DEF Ahead
  <2> QED
    BY <2>2, <2>4, <2>5, <2>6 DEF TypeOK
<1> QED
  BY <1>5, <1>6, <1>7, OrderAfter

\* The dispatcher hands a key's messages to one worker, in the order of the batch.
LEMMA DispatchOrder ==
  ASSUME TypeOK, OrderedGroups, HandlerReady, ChannelReady, PendingReady,
         NEW w \in Workers, Dispatch(w)
  PROVE  HandlerReady' /\ ChannelReady' /\ PendingReady'
<1> DEFINE h == Head(pending)
<1>0. /\ pending \in Seq(Deliveries) /\ Len(pending) \in Nat
      /\ \A v \in Workers : chan[v] \in Seq(Deliveries) /\ Len(chan[v]) \in Nat
  BY DEF TypeOK
<1>1. /\ pending # << >> /\ pending' = Tail(pending)
      /\ chan' = [chan EXCEPT ![w] = Append(chan[w], h)]
      /\ WorkerOf[KeyOf[h.msg]] = w
      /\ UNCHANGED <<cur, wpc, handled, poisoned>>
  BY DEF Dispatch, Advance, WorkerIndexes, OrderedGroups, ends, TypeOK
<1>2. /\ h \in Deliveries /\ h = pending[1] /\ 1 \in 1 .. Len(pending)
      /\ Len(pending') = Len(pending) - 1
      /\ \A i \in 1 .. Len(pending') : i + 1 \in 1 .. Len(pending) /\ pending'[i] = pending[i + 1]
  BY <1>0, <1>1
<1>3. /\ \A v \in Workers \ {w} : chan'[v] = chan[v]
      /\ chan'[w] = Append(chan[w], h) /\ chan'[w] \in Seq(Deliveries)
      /\ Len(chan'[w]) = Len(chan[w]) + 1
      /\ chan'[w][Len(chan[w]) + 1] = h
      /\ \A i \in 1 .. Len(chan[w]) : chan'[w][i] = chan[w][i]
  BY <1>0, <1>1, <1>2 DEF TypeOK
<1>4. Succeeded' = Succeeded
  BY <1>1 DEF Succeeded
<1> HIDE DEF h
<1>5. \A v \in Workers : wpc'[v] = "handling" => Before(cur'[v][1].msg) \subseteq Succeeded'
  BY <1>1, <1>4 DEF HandlerReady
<1>6. ASSUME NEW v \in Workers, NEW n, NEW d, NEW k \in 0 .. Len(chan[v]), Ahead(n, d, chan[v], k)
      PROVE  Ahead(n, d, chan'[v], k) /\ Ahead(n, d, chan'[v], Len(chan'[v]))
  <2>1. CASE v = w
    <3>1. Ahead(n, d, chan'[v], k)
      BY <1>0, <1>2, <1>3, <1>6, <2>1, AheadOps
    <3>2. k \in 0 .. Len(chan'[v]) /\ chan'[v] \in Seq(Deliveries)
      <4>1. chan'[v] \in Seq(Deliveries) /\ Len(chan'[v]) = Len(chan[v]) + 1
        BY <1>3, <2>1
      <4> QED
        BY <1>0, <4>1
    <3> QED
      BY <3>1, <3>2, AheadOps
  <2>2. CASE v # w
    BY <1>0, <1>3, <1>6, <2>2, AheadOps
  <2> QED
    BY <2>1, <2>2
<1>7. ASSUME NEW v \in Workers, NEW i \in 1 .. Len(chan'[v]), NEW n \in Before(chan'[v][i].msg),
             NEW d, d = chan'[v][i]
      PROVE  \/ n \in Succeeded' \/ <<d.batch, KeyOf[d.msg]>> \in poisoned'
             \/ Ahead(n, d, cur'[v], Len(cur'[v]))
             \/ Ahead(n, d, chan'[v], i - 1)
  <2>1. CASE i \in 1 .. Len(chan[v])
    <3>1. d = chan[v][i]
      BY <1>3, <1>7, <2>1
    <3>2. i - 1 \in 0 .. Len(chan[v])
      BY <1>0, <2>1
    <3>3. \/ Excused(n, d) \/ Ahead(n, d, cur[v], Len(cur[v]))
          \/ Ahead(n, d, chan[v], i - 1)
      BY <1>7, <2>1, <3>1 DEF ChannelReady
    <3>4. Ahead(n, d, chan[v], i - 1) => Ahead(n, d, chan'[v], i - 1)
      BY <1>6, <3>2
    <3> QED
      BY <1>1, <1>4, <3>3, <3>4 DEF Excused
  <2>2. CASE i \notin 1 .. Len(chan[v])
    <3>1. v = w /\ i = Len(chan[w]) + 1 /\ d = h /\ i - 1 = Len(chan[w])
      BY <1>0, <1>3, <1>7, <2>2
    <3>2. n \in Before(pending[1].msg)
      BY <1>2, <1>7, <3>1
    <3>3. \/ Excused(n, h) \/ Ahead(n, h, cur[w], Len(cur[w]))
          \/ Ahead(n, h, chan[w], Len(chan[w]))
          \/ Ahead(n, h, pending, 1 - 1)
      BY <1>1, <1>2, <3>2 DEF PendingReady
    <3>4. ~Ahead(n, h, pending, 1 - 1)
      BY DEF Ahead
    <3>5. Len(chan[w]) \in 0 .. Len(chan[w])
      BY <1>0
    <3>6. Ahead(n, d, chan[w], Len(chan[w])) => Ahead(n, d, chan'[v], i - 1)
      BY <1>6, <3>1, <3>5
    <3> QED
      BY <1>1, <1>4, <3>1, <3>3, <3>4, <3>6 DEF Excused
  <2> QED
    BY <2>1, <2>2
<1>8. ASSUME NEW i \in 1 .. Len(pending'), NEW n \in Before(pending'[i].msg),
             NEW d, d = pending'[i], NEW v, v = WorkerOf[KeyOf[d.msg]]
      PROVE  \/ n \in Succeeded' \/ <<d.batch, KeyOf[d.msg]>> \in poisoned'
             \/ Ahead(n, d, cur'[v], Len(cur'[v]))
             \/ Ahead(n, d, chan'[v], Len(chan'[v]))
             \/ Ahead(n, d, pending', i - 1)
  <2>1. d = pending[i + 1] /\ i + 1 \in 1 .. Len(pending) /\ d \in Deliveries /\ (i + 1) - 1 = i
        /\ i \in 0 .. Len(pending)
    BY <1>0, <1>2, <1>8
  <2>2. v \in Workers
    BY <1>8, <2>1, ConsumerAssumption DEF Deliveries
  <2>3. \/ Excused(n, d) \/ Ahead(n, d, cur[v], Len(cur[v]))
        \/ Ahead(n, d, chan[v], Len(chan[v]))
        \/ Ahead(n, d, pending, i)
    <3>1. n \in Before(pending[i + 1].msg)
      BY <1>8, <2>1
    <3>2. \/ Excused(n, d) \/ Ahead(n, d, cur[v], Len(cur[v]))
          \/ Ahead(n, d, chan[v], Len(chan[v]))
          \/ Ahead(n, d, pending, (i + 1) - 1)
      BY <1>8, <2>1, <3>1 DEF PendingReady
    <3> QED
      BY <2>1, <3>2
  <2>4. CASE Ahead(n, d, chan[v], Len(chan[v]))
    <3>1. Len(chan[v]) \in 0 .. Len(chan[v])
      BY <1>0, <2>2
    <3> QED
      BY <1>6, <2>2, <2>4, <3>1
  <2>5. CASE Ahead(n, d, pending, i)
    <3>1. (h.msg = n /\ h.batch = d.batch) \/ Ahead(n, d, pending', i - 1)
      BY <1>0, <1>1, <2>1, <2>5, AheadOps DEF h
    <3>2. CASE h.msg = n /\ h.batch = d.batch
      <4>1. KeyOf[n] = KeyOf[d.msg]
        BY <1>8 DEF Before
      <4>2. v = w
        BY <1>1, <1>8, <3>2, <4>1
      <4>3. Len(chan[w]) + 1 \in 1 .. Len(chan'[w])
        BY <1>0, <1>3
      <4>4. Ahead(n, d, chan'[w], Len(chan'[w]))
        BY <1>3, <3>2, <4>3 DEF Ahead
      <4> QED
        BY <4>2, <4>4
    <3> QED
      BY <3>1, <3>2
  <2> QED
    BY <1>1, <1>4, <2>3, <2>4, <2>5 DEF Excused
<1> QED
  BY <1>5, <1>7, <1>8, OrderAfter

\* Steps that move no delivery keep the order.
LEMMA QuietOrder ==
  ASSUME HandlerReady, ChannelReady, PendingReady,
         UNCHANGED <<pending, chan, cur, wpc, handled, poisoned>>
  PROVE  HandlerReady' /\ ChannelReady' /\ PendingReady'
<1>1. Succeeded' = Succeeded
  BY DEF Succeeded
<1>2. \A v \in Workers : wpc'[v] = "handling" => Before(cur'[v][1].msg) \subseteq Succeeded'
  BY <1>1 DEF HandlerReady
<1>3. ASSUME NEW v \in Workers, NEW i \in 1 .. Len(chan'[v]), NEW n \in Before(chan'[v][i].msg)
      PROVE  \/ n \in Succeeded' \/ <<chan'[v][i].batch, KeyOf[chan'[v][i].msg]>> \in poisoned'
             \/ Ahead(n, chan'[v][i], cur'[v], Len(cur'[v]))
             \/ Ahead(n, chan'[v][i], chan'[v], i - 1)
  BY <1>1, <1>3 DEF ChannelReady, Excused
<1>4. ASSUME NEW i \in 1 .. Len(pending'), NEW n \in Before(pending'[i].msg),
             NEW d, d = pending'[i], NEW v, v = WorkerOf[KeyOf[d.msg]]
      PROVE  \/ n \in Succeeded' \/ <<d.batch, KeyOf[d.msg]>> \in poisoned'
             \/ Ahead(n, d, cur'[v], Len(cur'[v]))
             \/ Ahead(n, d, chan'[v], Len(chan'[v]))
             \/ Ahead(n, d, pending', i - 1)
  BY <1>1, <1>4 DEF PendingReady, Excused
<1> QED
  BY <1>2, <1>3, <1>4, OrderAfter

\* The options of the route and its surroundings are fixed, and a canceled ctx
\* stays canceled.
LEMMA SettingsFixed ==
  ASSUME [Next]_vars
  PROVE  UNCHANGED settings /\ (cancelled' = cancelled \/ (~cancelled /\ cancelled'))
<1>1. CASE Poller
  BY <1>1 DEF Poller, PollStop, Receive, ReceiveError, WaitOver, Dispatch, DispatchDrop, CloseChannels,
     CloseBatcher, Return, settings
<1>2. ASSUME NEW w \in Workers, Worker(w)
      PROVE  UNCHANGED settings /\ cancelled' = cancelled
  BY <1>2 DEF Worker, Hold, StartHandler, HandlerFails, HandlerFailsScheduled, HandedOn, HandOnFails,
     HandlerSucceeds, DeleteSync, DeleteBatched, WorkerExit, settings
<1>3. ASSUME NEW s \in Workers, Sender(s)
      PROVE  UNCHANGED settings /\ cancelled' = cancelled
  BY <1>3 DEF Sender, SenderMoves, SendAnswered, SendError, OtherThanBatcher, settings
<1>4. CASE ReceiveEmpty \/ Cancel \/ Returned \/ UNCHANGED vars \/ \E m \in Msgs : Expire(m)
  BY <1>4 DEF ReceiveEmpty, Cancel, Returned, Expire, vars, settings
<1> QED
  BY <1>1, <1>2, <1>3, <1>4 DEF Next

\* The order invariant is kept by every step.
LEMMA OrderStep ==
  ASSUME Inv, Inv', OrderInv, [Next]_vars
  PROVE  OrderInv'
<1> SUFFICES ASSUME OrderedGroups', ~cancelled'
             PROVE  HandlerReady' /\ ChannelReady' /\ PendingReady'
  BY DEF OrderInv
<1>0. /\ TypeOK /\ TypeOK' /\ EndedWell
      /\ OrderedGroups /\ ~cancelled
      /\ HandlerReady /\ ChannelReady /\ PendingReady
  <2>1. OrderedGroups /\ ~cancelled
    BY SettingsFixed DEF settings, OrderedGroups
  <2> QED
    BY <2>1 DEF Inv, OrderInv
<1>1. ASSUME NEW w \in Workers, Worker(w) PROVE HandlerReady' /\ ChannelReady' /\ PendingReady'
  BY <1>0, <1>1, WorkerOrder
<1>2. ASSUME NEW S \in Batches, Receive(S) PROVE HandlerReady' /\ ChannelReady' /\ PendingReady'
  BY <1>0, <1>2, ReceiveOrder
<1>3. ASSUME NEW w \in Workers, Dispatch(w) PROVE HandlerReady' /\ ChannelReady' /\ PendingReady'
  BY <1>0, <1>3, DispatchOrder
<1>4. ~PollStop /\ ~DispatchDrop
  BY <1>0 DEF PollStop, DispatchDrop
<1>5. ASSUME \/ WaitOver \/ CloseChannels \/ CloseBatcher \/ Return
             \/ \E S \in Batches \cup {{}} : ReceiveError(S)
      PROVE  UNCHANGED <<pending, chan, cur, wpc, handled, poisoned>>
  BY <1>5 DEF WaitOver, CloseChannels, CloseBatcher, Return, ReceiveError, pollVars, workerVars, ends
<1>6. ASSUME NEW s \in Workers, Sender(s)
      PROVE  UNCHANGED <<pending, chan, cur, wpc, handled, poisoned>>
  BY <1>6 DEF Sender, SenderMoves, SendAnswered, SendError, OtherThanBatcher, pollVars, workerVars, ends
<1>7. ASSUME ReceiveEmpty \/ Cancel \/ Returned \/ UNCHANGED vars \/ \E m \in Msgs : Expire(m)
      PROVE  UNCHANGED <<pending, chan, cur, wpc, handled, poisoned>>
  BY <1>7 DEF ReceiveEmpty, Cancel, Returned, Expire, vars, pollVars, workerVars, ends
<1> QED
  BY <1>0, <1>1, <1>2, <1>3, <1>4, <1>5, <1>6, <1>7, QuietOrder DEF Next, Poller

\* Nothing is received before the start.
LEMMA OrderInit == Init => OrderInv
<1> SUFFICES ASSUME Init PROVE HandlerReady /\ ChannelReady /\ PendingReady
  BY DEF OrderInv
<1>1. /\ pending = << >> /\ \A w \in Workers : chan[w] = << >> /\ wpc[w] = "idle"
      /\ Len(<< >>) = 0
  BY DEF Init, Idle
<1> QED
  BY <1>1 DEF HandlerReady, ChannelReady, PendingReady

\* Until ctx is canceled, no handler starts before those of the earlier messages
\* of its key have succeeded.
THEOREM OrderedStarts == Spec => []OrderInv
<1>1. OrderInv /\ Inv /\ Inv' /\ [Next]_vars => OrderInv'
  BY OrderStep
<1> QED
  BY <1>1, OrderInit, Invariance, PTL DEF Spec

-----------------------------------------------------------------------------
(* The consumer implements OrderedQueue.                                    *)

\* Messages removed from the queue.
Removed == {m \in Msgs : sqs[m] = "gone"}

\* A step that completes or removes nothing is a stuttering step of the promise.
LEMMA PromiseStutters ==
  ASSUME UNCHANGED <<route, cancelled>>, Committed' = Committed, Removed' = Removed
  PROVE  UNCHANGED Promise!vars
<1>1. OrderedGroups' = OrderedGroups /\ cancelled' = cancelled
  BY DEF OrderedGroups
<1> QED
  BY <1>1 DEF Promise!vars, Removed

\* One delete request: what it removes had ended well.
LEMMA PromiseRemoves ==
  ASSUME Inv, Inv', UNCHANGED <<route, cancelled, handled, moved>>,
         \A m \in Msgs : sqs[m] = "gone" => sqs'[m] = "gone"
  PROVE  [Promise!Next]_(Promise!vars)
<1>1. Committed' = Committed /\ OrderedGroups' = OrderedGroups
  BY DEF Committed, OrderedGroups
<1>2. Removed \subseteq Removed' /\ Removed' \subseteq Committed' /\ Removed' \subseteq Msgs
  BY DEF Removed, Inv, EndedWell, Msgs
<1>3. CASE Removed' = Removed
  BY <1>1, <1>3, PromiseStutters
<1>4. CASE Removed' # Removed
  <2>1. PICK S \in SUBSET Msgs : S = Removed' \ Removed
    BY <1>2
  <2>2. S # {} /\ S \subseteq Committed \ Removed /\ Removed' = Removed \cup S
    BY <1>1, <1>2, <1>4, <2>1
  <2>3. Promise!Remove(S)
    BY <1>1, <2>2 DEF Promise!Remove, Removed
  <2> QED
    BY <2>3 DEF Promise!Next
<1> QED
  BY <1>3, <1>4

\* A delivery that ends well.
LEMMA PromiseCompletes ==
  ASSUME UNCHANGED <<route, cancelled, sqs>>, NEW m \in Msgs, Committed' = Committed \cup {m},
         OrderedGroups /\ ~cancelled => Before(m) \subseteq Committed
  PROVE  [Promise!Next]_(Promise!vars)
<1>1. OrderedGroups' = OrderedGroups /\ Removed' = Removed
  BY DEF OrderedGroups, Removed
<1>2. CASE m \in Committed
  <2>1. Committed' = Committed
    BY <1>2
  <2> QED
    BY <1>1, <2>1, PromiseStutters
<1>3. CASE m \notin Committed
  <2>1. OrderedGroups /\ ~cancelled => Promise!Before(m) \subseteq Committed
    BY DEF Before, Promise!Before
  <2>2. Promise!Complete(m)
    BY <1>1, <1>3, <2>1 DEF Promise!Complete, Removed
  <2> QED
    BY <2>2 DEF Promise!Next
<1> QED
  BY <1>2, <1>3

\* Every step of the consumer is a step of the promise, or none.
LEMMA PromiseStep ==
  ASSUME Inv, Inv', OrderInv, [Next]_vars
  PROVE  [Promise!Next]_(Promise!vars)
<1>0. TypeOK
  BY DEF Inv
<1>1. ASSUME UNCHANGED <<route, cancelled, sqs, handled, moved>> PROVE [Promise!Next]_(Promise!vars)
  <2>1. Committed' = Committed /\ Removed' = Removed
    BY <1>1 DEF Committed, Removed
  <2> QED
    BY <1>1, <2>1, PromiseStutters
<1>2. CASE Cancel
  <2>1. UNCHANGED <<route, sqs, handled, moved>> /\ ~cancelled /\ cancelled' = TRUE
    BY <1>2 DEF Cancel, settings, queueVars, workerVars, ends
  <2>2. Committed' = Committed /\ Removed' = Removed /\ OrderedGroups' = OrderedGroups
    BY <2>1 DEF Committed, Removed, OrderedGroups
  <2>3. CASE OrderedGroups
    <3>1. Promise!Withdraw
      BY <2>1, <2>2, <2>3 DEF Promise!Withdraw, Removed
    <3> QED
      BY <3>1 DEF Promise!Next
  <2>4. CASE ~OrderedGroups
    <3>1. (OrderedGroups /\ ~cancelled)' = (OrderedGroups /\ ~cancelled)
      BY <2>2, <2>4
    <3> QED
      BY <2>2, <3>1 DEF Promise!vars, Removed
  <2> QED
    BY <2>3, <2>4
<1>3. ASSUME NEW w \in Workers, HandlerSucceeds(w) \/ HandedOn(w) \/ HandOnFails(w)
      PROVE  [Promise!Next]_(Promise!vars)
  <2> DEFINE m == cur[w][1].msg
  <2>1. m \in Msgs /\ Handle(cur[w][1])[1] = m
    BY <1>0, <1>3, InHand DEF HandlerSucceeds, HandedOn, HandOnFails, Deliveries, Handle
  <2>2. UNCHANGED <<route, cancelled, sqs>>
    BY <1>3 DEF HandlerSucceeds, HandedOn, HandOnFails, settings, queueVars
  <2>3. \/ UNCHANGED <<handled, moved>>
        \/ Committed' = Committed \cup {m}
    <3>1. \/ UNCHANGED <<handled, moved>>
          \/ handled' \cup moved' = (handled \cup moved) \cup {Handle(cur[w][1])}
      BY <1>3 DEF HandlerSucceeds, HandedOn, HandOnFails, HandOn
    <3> QED
      BY <2>1, <3>1 DEF Committed
  <2>4. OrderedGroups /\ ~cancelled => Before(m) \subseteq Committed
    <3>1. ASSUME OrderedGroups PROVE wpc[w] = "handling"
      BY <1>3, <3>1 DEF Inv, EndedWell, OrderedGroups, HandlerSucceeds, HandedOn, HandOnFails
    <3>2. Succeeded \subseteq Committed
      BY DEF Succeeded, Committed
    <3> QED
      BY <3>1, <3>2 DEF OrderInv, HandlerReady
  <2> QED
    BY <1>1, <2>1, <2>2, <2>3, <2>4, PromiseCompletes
<1>4. ASSUME NEW w \in Workers, DeleteSync(w) PROVE [Promise!Next]_(Promise!vars)
  <2>1. UNCHANGED <<route, cancelled, handled, moved>>
    BY <1>4 DEF DeleteSync, settings, ends
  <2>2. \A m \in Msgs : sqs[m] = "gone" => sqs'[m] = "gone"
    BY <1>0, <1>4, DeleteEffect DEF DeleteSync
  <2> QED
    BY <2>1, <2>2, PromiseRemoves
<1>5. ASSUME NEW s \in Workers, Sender(s) PROVE [Promise!Next]_(Promise!vars)
  <2>1. UNCHANGED <<route, cancelled, handled, moved>> /\ (sqs' = sqs \/ DeleteAll(deleted'))
    BY <1>5 DEF Sender, SenderMoves, SendAnswered, SendError, OtherThanBatcher, settings, queueVars,
       workerVars, ends
  <2>2. \A m \in Msgs : sqs[m] = "gone" => sqs'[m] = "gone"
    BY <1>0, <2>1, DeleteEffect
  <2> QED
    BY <2>1, <2>2, PromiseRemoves
<1>6. ASSUME NEW w \in Workers,
             \/ Hold(w) \/ StartHandler(w) \/ HandlerFails(w) \/ HandlerFailsScheduled(w)
             \/ DeleteBatched(w) \/ WorkerExit(w)
      PROVE  UNCHANGED <<route, cancelled, sqs, handled, moved>>
  BY <1>6 DEF Hold, StartHandler, HandlerFails, HandlerFailsScheduled, DeleteBatched, WorkerExit,
     settings, queueVars, ends
<1>7. ASSUME NEW S \in Batches \cup {{}}, Deliver(S), UNCHANGED <<route, cancelled, handled, moved>>
      PROVE  [Promise!Next]_(Promise!vars)
  <2>1. \A m \in Msgs : sqs[m] = "gone" => sqs'[m] = "gone"
    <3>1. S \subseteq Available
      BY DEF Batches
    <3>2. \A m \in S : sqs[m] # "gone"
      BY <3>1 DEF Available
    <3> QED
      BY <1>0, <1>7, <3>2, DeliverEffect
  <2> QED
    BY <1>7, <2>1, PromiseRemoves
<1>8. CASE Poller
  <2>1. CASE PollStop \/ WaitOver \/ DispatchDrop \/ CloseChannels \/ CloseBatcher \/ Return
             \/ \E w \in Workers : Dispatch(w)
    <3>1. UNCHANGED <<route, cancelled, sqs, handled, moved>>
      BY <2>1 DEF PollStop, WaitOver, DispatchDrop, CloseChannels, CloseBatcher, Return, Dispatch,
         settings, queueVars, workerVars, ends
    <3> QED
      BY <1>1, <3>1
  <2>2. ASSUME NEW S, Receive(S) \/ ReceiveError(S)
        PROVE  Deliver(S) /\ UNCHANGED <<route, cancelled, handled, moved>>
    BY <2>2 DEF Receive, ReceiveError, settings, workerVars, ends
  <2> QED
    BY <1>7, <1>8, <2>1, <2>2 DEF Poller
<1>9. ASSUME NEW m \in Msgs, Expire(m) PROVE [Promise!Next]_(Promise!vars)
  <2>1. UNCHANGED <<route, cancelled, handled, moved>>
    BY <1>9 DEF Expire, settings, workerVars, ends
  <2>2. \A n \in Msgs : sqs[n] = "gone" => sqs'[n] = "gone"
    BY <1>0, <1>9 DEF Expire, TypeOK
  <2> QED
    BY <2>1, <2>2, PromiseRemoves
<1>10. ASSUME ReceiveEmpty \/ Returned \/ UNCHANGED vars
       PROVE  UNCHANGED <<route, cancelled, sqs, handled, moved>>
  BY <1>10 DEF ReceiveEmpty, Returned, vars, settings, queueVars, workerVars, ends
<1> QED
  BY <1>1, <1>2, <1>3, <1>4, <1>5, <1>6, <1>8, <1>9, <1>10 DEF Next, Worker

\* The consumer keeps the promise of OrderedQueue: until ctx is canceled the
\* messages of a key are done with in queue order, and under every option a
\* message is removed only after that, once and for good.
THEOREM KeepsPromise == Spec => Refinement
<1>1. Init => Promise!Init
  <2> SUFFICES ASSUME Init PROVE Promise!Init
    OBVIOUS
  <2>1. Committed = {} /\ Removed = {}
    BY DEF Init, Committed, Removed
  <2>2. (OrderedGroups /\ ~cancelled) \in BOOLEAN
    OBVIOUS
  <2> QED
    BY <2>1, <2>2 DEF Promise!Init, Removed
<1>2. Inv /\ Inv' /\ OrderInv /\ [Next]_vars => [Promise!Next]_(Promise!vars)
  BY PromiseStep
<1> QED
  BY <1>1, <1>2, Invariance, OrderedStarts, PTL DEF Spec, Refinement, Promise!Spec

\* The promise of PerGroupID mode holds until ctx is canceled; what cancellation
\* does to it, the run on GroupOrder shows.
THEOREM OrderUntilCanceled == Spec => [](~cancelled => GroupOrder)
<1> DEFINE Ordered == ~cancelled => GroupOrder
<1>1. ASSUME Inv, OrderInv, [Next]_vars, Ordered PROVE Ordered'
  <2> SUFFICES ASSUME OrderedGroups', ~cancelled', NEW m \in Succeeded', NEW n \in Msgs,
                      KeyOf[n] = KeyOf[m], n < m
               PROVE  n \in Succeeded'
    BY DEF GroupOrder, Msgs
  <2>1. OrderedGroups /\ ~cancelled
    BY <1>1, SettingsFixed DEF settings, OrderedGroups
  <2>2. CASE m \in Succeeded
    <3>1. n \in Succeeded
      BY <1>1, <2>1, <2>2 DEF GroupOrder
    <3>2. handled \subseteq handled'
      <4>1. ASSUME NEW w \in Workers, Worker(w) PROVE handled \subseteq handled'
        BY <1>1, <4>1, WorkerBooks DEF Inv, BooksKept
      <4>2. CASE \A w \in Workers : ~Worker(w)
        BY <1>1, <4>2 DEF Next, Poller, PollStop, Receive, ReceiveError, WaitOver, Dispatch, DispatchDrop,
           CloseChannels, CloseBatcher, Return, Sender, SenderMoves, SendAnswered, SendError,
           OtherThanBatcher, ReceiveEmpty, Cancel, Returned, Expire, vars, workerVars, ends
      <4> QED
        BY <4>1, <4>2
    <3> QED
      BY <3>1, <3>2 DEF Succeeded
  <2>3. CASE m \notin Succeeded
    <3>1. PICK h \in handled' : h[1] = m /\ h \notin handled
      BY <2>3 DEF Succeeded
    <3>2. PICK w \in Workers : HandlerSucceeds(w)
      BY <1>1, <3>1 DEF Next, Poller, PollStop, Receive, ReceiveError, WaitOver, Dispatch, DispatchDrop,
         CloseChannels, CloseBatcher, Return, Sender, SenderMoves, SendAnswered, SendError,
         OtherThanBatcher, ReceiveEmpty, Cancel, Returned, Expire, vars, workerVars, ends,
         Worker, Hold, StartHandler, HandlerFails, HandlerFailsScheduled, HandedOn, HandOnFails,
         DeleteSync, DeleteBatched, WorkerExit
    <3>3. m = cur[w][1].msg /\ wpc[w] = "handling" /\ handled \subseteq handled'
      BY <3>1, <3>2 DEF HandlerSucceeds, Handle
    <3>4. n \in Succeeded
      BY <1>1, <2>1, <3>3 DEF OrderInv, HandlerReady, Before
    <3> QED
      BY <3>3, <3>4 DEF Succeeded
  <2> QED
    BY <2>2, <2>3
<1>2. Init => Ordered
  BY DEF Init, GroupOrder, Succeeded
<1> QED
  BY <1>1, <1>2, Invariance, OrderedStarts, PTL DEF Spec

=============================================================================
