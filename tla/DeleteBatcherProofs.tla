------------------------ MODULE DeleteBatcherProofs ------------------------
(***************************************************************************)
(* The safety of the delete batcher for every set of senders and handles,  *)
(* every channel capacity and every batch size.                            *)
(***************************************************************************)
EXTENDS DeleteBatcher, FiniteSetTheorems, TLAPS

\* The parts of the inductive invariant.  OnePlace needs BatchBounds (an idle
\* sender's batch is empty) and DrainedOnExit needs both.
Inv ==
  /\ TypeOK
  /\ OnePlace
  /\ BatchBounds
  /\ DrainedOnExit
  /\ FailuresReported

-----------------------------------------------------------------------------
(* The sequence operators the channel and the batches are built from.       *)

\* An empty channel or batch holds no handle.
LEMMA InSeqEmpty == InSeq(<< >>) = {} /\ NoDup(<< >>)
BY DEF InSeq, NoDup

\* A batch opened with the first received handle holds that handle only.
LEMMA InSeqSingle ==
  ASSUME NEW S, NEW e \in S
  PROVE  /\ <<e>> \in Seq(S)
         /\ Len(<<e>>) = 1
         /\ InSeq(<<e>>) = {e}
         /\ NoDup(<<e>>)
BY DEF InSeq, NoDup

\* A channel send, and the drain's append, add exactly the new handle.
LEMMA InSeqAppend ==
  ASSUME NEW S, NEW s \in Seq(S), NEW e \in S
  PROVE  /\ Append(s, e) \in Seq(S)
         /\ Len(Append(s, e)) = Len(s) + 1
         /\ InSeq(Append(s, e)) = InSeq(s) \cup {e}
         /\ NoDup(s) /\ e \notin InSeq(s) => NoDup(Append(s, e))
BY DEF InSeq, NoDup

\* A channel receive removes exactly the oldest handle.
LEMMA InSeqTail ==
  ASSUME NEW S, NEW s \in Seq(S), s # << >>, NoDup(s)
  PROVE  /\ Head(s) \in S
         /\ Tail(s) \in Seq(S)
         /\ Len(Tail(s)) = Len(s) - 1
         /\ Head(s) \in InSeq(s)
         /\ InSeq(Tail(s)) = InSeq(s) \ {Head(s)}
         /\ NoDup(Tail(s))
<1>1. Len(s) \in Nat \ {0} /\ Head(s) = s[1]
  OBVIOUS
<1>2. /\ Tail(s) \in Seq(S)
      /\ Len(Tail(s)) = Len(s) - 1
      /\ \A i \in 1 .. Len(s) - 1 : Tail(s)[i] = s[i + 1]
  OBVIOUS
<1>3. InSeq(Tail(s)) = InSeq(s) \ {s[1]}
  <2>1. ASSUME NEW x \in InSeq(Tail(s)) PROVE x \in InSeq(s) \ {s[1]}
    BY <1>1, <1>2 DEF InSeq, NoDup
  <2>2. ASSUME NEW x \in InSeq(s) \ {s[1]} PROVE x \in InSeq(Tail(s))
    <3>1. PICK i \in 1 .. Len(s) : x = s[i]
      BY DEF InSeq
    <3>2. i # 1 /\ i - 1 \in 1 .. Len(s) - 1
      BY <3>1, <1>1
    <3>3. Tail(s)[i - 1] = x
      BY <3>1, <3>2, <1>2
    <3> QED
      BY <3>2, <3>3, <1>2 DEF InSeq
  <2> QED
    BY <2>1, <2>2
<1>4. NoDup(Tail(s))
  BY <1>1, <1>2 DEF NoDup
<1> QED
  BY <1>1, <1>2, <1>3, <1>4 DEF InSeq

\* The handles of a typed sequence are handles.
LEMMA InSeqType ==
  ASSUME NEW S, NEW s \in Seq(S)
  PROVE  InSeq(s) \subseteq S
BY DEF InSeq

-----------------------------------------------------------------------------

\* Types: every variable keeps its type, and the channel never holds more
\* than its capacity.
LEMMA TypeStep == Inv /\ [Next]_vars => TypeOK'
<1> SUFFICES ASSUME Inv, [Next]_vars PROVE TypeOK'
  OBVIOUS
<1> USE BatcherAssumption DEF Inv
<1>1. ASSUME NEW h \in Handles, Enqueue(h) PROVE TypeOK'
  BY <1>1, InSeqAppend DEF TypeOK, Enqueue
<1>2. CASE Close
  BY <1>2 DEF TypeOK, Close
<1>3. ASSUME NEW s \in Senders, RecvFirst(s) PROVE TypeOK'
  <2>1. handles \in Seq(Handles) /\ handles # << >> /\ NoDup(handles)
    BY <1>3 DEF TypeOK, OnePlace, RecvFirst
  <2>2. /\ Head(handles) \in Handles
        /\ Tail(handles) \in Seq(Handles)
        /\ Len(Tail(handles)) = Len(handles) - 1
    BY <2>1, InSeqTail
  <2>3. <<Head(handles)>> \in Seq(Handles)
    BY <2>2, InSeqSingle
  <2> QED
    BY <1>3, <2>1, <2>2, <2>3 DEF TypeOK, RecvFirst, SenderStates
<1>4. ASSUME NEW s \in Senders, Exit(s) PROVE TypeOK'
  BY <1>4 DEF TypeOK, Exit, SenderStates
<1>5. ASSUME NEW s \in Senders, DrainOne(s) PROVE TypeOK'
  <2>1. handles \in Seq(Handles) /\ handles # << >> /\ NoDup(handles)
    BY <1>5 DEF TypeOK, OnePlace, DrainOne
  <2>2. /\ Head(handles) \in Handles
        /\ Tail(handles) \in Seq(Handles)
        /\ Len(Tail(handles)) = Len(handles) - 1
    BY <2>1, InSeqTail
  <2>3. Append(batch[s], Head(handles)) \in Seq(Handles)
    BY <2>2, InSeqAppend DEF TypeOK
  <2> QED
    BY <1>5, <2>1, <2>2, <2>3 DEF TypeOK, DrainOne
<1>6. ASSUME NEW s \in Senders, DrainEnd(s) PROVE TypeOK'
  BY <1>6 DEF TypeOK, DrainEnd, SenderStates
<1>7. ASSUME NEW s \in Senders, NEW ids \in SUBSET (0 .. MaxBatch), SendAnswered(s, ids)
      PROVE TypeOK'
  BY <1>7, InSeqEmpty DEF TypeOK, SendAnswered, Settle, Reported, InSeq, SenderStates
<1>8. ASSUME NEW s \in Senders, NEW gone \in SUBSET Handles, SendError(s, gone)
      PROVE TypeOK'
  BY <1>8, InSeqEmpty DEF TypeOK, SendError, Settle, InSeq, SenderStates
<1>9. CASE UNCHANGED vars
  BY <1>9 DEF TypeOK, vars
<1> QED
  BY <1>1, <1>2, <1>3, <1>4, <1>5, <1>6, <1>7, <1>8, <1>9 DEF Next, Sender, Terminated

-----------------------------------------------------------------------------

\* What the senders other than s hold.
Others(s) == UNION {InSeq(batch[t]) : t \in Senders \ {s}}

\* A step of sender s replaces its own batch and nobody else's.
LEMMA BatchUpdate ==
  ASSUME TypeOK, OnePlace, NEW s \in Senders, NEW b \in Seq(Handles),
         batch' = [batch EXCEPT ![s] = b]
  PROVE  /\ InBatch = Others(s) \cup InSeq(batch[s])
         /\ InBatch' = Others(s) \cup InSeq(b)
         /\ Others(s) \cap InSeq(batch[s]) = {}
         /\ batch'[s] = b
         /\ \A t \in Senders \ {s} : batch'[t] = batch[t] /\ InSeq(batch[t]) \subseteq Others(s)
<1>1. /\ batch'[s] = b
      /\ \A t \in Senders \ {s} : batch'[t] = batch[t]
  BY DEF TypeOK
<1>2. \A t \in Senders \ {s} : InSeq(batch[t]) \subseteq Others(s)
  BY DEF Others
<1>3. InBatch = Others(s) \cup InSeq(batch[s])
  BY DEF InBatch, Others
<1>4. InBatch' = Others(s) \cup InSeq(b)
  <2>1. InBatch' = UNION {InSeq(batch'[t]) : t \in Senders}
    BY DEF InBatch, InSeq
  <2> QED
    BY <1>1, <2>1 DEF Others
<1>5. Others(s) \cap InSeq(batch[s]) = {}
  BY DEF OnePlace, Others
<1> QED
  BY <1>1, <1>2, <1>3, <1>4, <1>5

\* When a step leaves the batches alone, what they hold is unchanged.
LEMMA BatchSame == batch' = batch => InBatch' = InBatch
BY DEF InBatch, InSeq

\* OnePlace after sender s moved handles into, or out of, its own batch.
LEMMA OnePlaceUpdate ==
  ASSUME TypeOK, OnePlace, NEW s \in Senders, NEW b \in Seq(Handles),
         batch' = [batch EXCEPT ![s] = b],
         NoDup(b), NoDup(handles'),
         InSeq(b) \cap Others(s) = {},
         InSeq(handles') \cap (Others(s) \cup InSeq(b) \cup requested') = {},
         (Others(s) \cup InSeq(b)) \cap requested' = {}
  PROVE  OnePlace'
<1>1. /\ InBatch' = Others(s) \cup InSeq(b)
      /\ batch'[s] = b
      /\ \A t \in Senders \ {s} : batch'[t] = batch[t] /\ InSeq(batch[t]) \subseteq Others(s)
  BY BatchUpdate
<1>2. \A t \in Senders : NoDup(batch'[t])
  BY <1>1 DEF OnePlace
<1>3. \A t, u \in Senders : t # u => InSeq(batch'[t]) \cap InSeq(batch'[u]) = {}
  <2> SUFFICES ASSUME NEW t \in Senders, NEW u \in Senders, t # u
               PROVE  InSeq(batch'[t]) \cap InSeq(batch'[u]) = {}
    OBVIOUS
  <2>1. CASE t = s
    BY <2>1, <1>1
  <2>2. CASE u = s
    BY <2>2, <1>1
  <2>3. CASE t # s /\ u # s
    BY <2>3, <1>1 DEF OnePlace
  <2> QED
    BY <2>1, <2>2, <2>3
<1>4. /\ NoDup(handles)'
      /\ \A t \in Senders : NoDup(batch[t])'
      /\ \A t, u \in Senders : t # u => InSeq(batch[t])' \cap InSeq(batch[u])' = {}
      /\ InSeq(handles)' = InSeq(handles')
  BY <1>2, <1>3 DEF NoDup, InSeq
<1> QED
  BY <1>1, <1>4 DEF OnePlace

\* A handle stays in exactly one place whatever step is taken.
LEMMA OnePlaceStep == Inv /\ [Next]_vars => OnePlace'
<1> SUFFICES ASSUME Inv, [Next]_vars PROVE OnePlace'
  OBVIOUS
<1> USE DEF Inv
<1>0. handles \in Seq(Handles) /\ \A s \in Senders : batch[s] \in Seq(Handles)
  BY DEF TypeOK
<1>1. ASSUME NEW h \in Handles, Enqueue(h) PROVE OnePlace'
  <2>1. /\ NoDup(handles')
        /\ InSeq(handles') = InSeq(handles) \cup {h}
        /\ h \notin InBatch \cup requested
    BY <1>0, <1>1, InSeqAppend DEF Enqueue, OnePlace, Accepted
  <2>2. InBatch' = InBatch /\ requested' = requested /\ batch' = batch
    BY <1>1, BatchSame DEF Enqueue
  <2>3. InSeq(handles)' = InSeq(handles') /\ NoDup(handles)' = NoDup(handles')
    BY DEF InSeq, NoDup
  <2>4. \A s \in Senders : NoDup(batch[s])' = NoDup(batch[s]) /\ InSeq(batch[s])' = InSeq(batch[s])
    BY <2>2 DEF InSeq, NoDup
  <2> QED
    BY <2>1, <2>2, <2>3, <2>4 DEF OnePlace
<1>2. ASSUME handles' = handles, batch' = batch, requested' = requested PROVE OnePlace'
  <2>1. InBatch' = InBatch
    BY <1>2, BatchSame
  <2>2. InSeq(handles)' = InSeq(handles) /\ NoDup(handles)' = NoDup(handles)
    BY <1>2 DEF InSeq, NoDup
  <2>3. \A s \in Senders : NoDup(batch[s])' = NoDup(batch[s]) /\ InSeq(batch[s])' = InSeq(batch[s])
    BY <1>2 DEF InSeq, NoDup
  <2> QED
    BY <1>2, <2>1, <2>2, <2>3 DEF OnePlace
<1>3. ASSUME NEW s \in Senders, RecvFirst(s) PROVE OnePlace'
  <2>1. handles # << >> /\ NoDup(handles) /\ InSeq(batch[s]) = {}
    BY <1>3, InSeqEmpty DEF RecvFirst, OnePlace, BatchBounds
  <2>2. /\ Head(handles) \in Handles
        /\ Head(handles) \in InSeq(handles)
        /\ InSeq(Tail(handles)) = InSeq(handles) \ {Head(handles)}
        /\ NoDup(Tail(handles))
    BY <1>0, <2>1, InSeqTail
  <2>3. /\ <<Head(handles)>> \in Seq(Handles)
        /\ InSeq(<<Head(handles)>>) = {Head(handles)}
        /\ NoDup(<<Head(handles)>>)
    BY <2>2, InSeqSingle
  <2>4. InBatch = Others(s) \cup InSeq(batch[s])
    BY <1>3, <2>3, BatchUpdate DEF RecvFirst
  <2>5. /\ handles' = Tail(handles) /\ requested' = requested
        /\ batch' = [batch EXCEPT ![s] = <<Head(handles)>>]
    BY <1>3 DEF RecvFirst
  <2>6. /\ {Head(handles)} \cap Others(s) = {}
        /\ InSeq(Tail(handles)) \cap (Others(s) \cup {Head(handles)} \cup requested) = {}
        /\ (Others(s) \cup {Head(handles)}) \cap requested = {}
    BY <2>2, <2>4 DEF OnePlace
  <2> QED
    BY <2>2, <2>3, <2>5, <2>6, OnePlaceUpdate
<1>5. ASSUME NEW s \in Senders, DrainOne(s) PROVE OnePlace'
  <2>1. handles # << >> /\ NoDup(handles) /\ NoDup(batch[s])
    BY <1>5 DEF DrainOne, OnePlace
  <2>2. /\ Head(handles) \in Handles
        /\ Head(handles) \in InSeq(handles)
        /\ InSeq(Tail(handles)) = InSeq(handles) \ {Head(handles)}
        /\ NoDup(Tail(handles))
    BY <1>0, <2>1, InSeqTail
  <2> DEFINE b == Append(batch[s], Head(handles))
  <2>3. /\ b \in Seq(Handles)
        /\ InSeq(b) = InSeq(batch[s]) \cup {Head(handles)}
        /\ Head(handles) \notin InSeq(batch[s]) => NoDup(b)
    BY <1>0, <2>1, <2>2, InSeqAppend
  <2>4. batch' = [batch EXCEPT ![s] = b] /\ handles' = Tail(handles) /\ requested' = requested
    BY <1>5 DEF DrainOne
  <2> HIDE DEF b
  <2>5. InBatch = Others(s) \cup InSeq(batch[s]) /\ Others(s) \cap InSeq(batch[s]) = {}
    BY <2>3, <2>4, BatchUpdate
  <2>6. Head(handles) \notin Others(s) \cup InSeq(batch[s]) \cup requested
    BY <2>2, <2>5 DEF OnePlace
  <2>7. /\ NoDup(b) /\ NoDup(handles')
        /\ InSeq(b) \cap Others(s) = {}
        /\ InSeq(handles') \cap (Others(s) \cup InSeq(b) \cup requested') = {}
        /\ (Others(s) \cup InSeq(b)) \cap requested' = {}
    BY <2>2, <2>3, <2>4, <2>5, <2>6 DEF OnePlace
  <2> QED
    BY <2>3, <2>4, <2>7, OnePlaceUpdate
<1>7. ASSUME NEW s \in Senders, batch' = [batch EXCEPT ![s] = << >>],
             requested' = requested \cup InSeq(batch[s]), handles' = handles
      PROVE  OnePlace'
  <2>1. << >> \in Seq(Handles) /\ InSeq(<< >>) = {} /\ NoDup(<< >>)
    BY InSeqEmpty
  <2>2. InBatch = Others(s) \cup InSeq(batch[s]) /\ Others(s) \cap InSeq(batch[s]) = {}
    BY <1>7, <2>1, BatchUpdate
  <2>3. NoDup(handles')
    BY <1>7 DEF OnePlace
  <2> QED
    BY <1>7, <2>1, <2>2, <2>3, OnePlaceUpdate DEF OnePlace
<1> QED
  BY <1>1, <1>2, <1>3, <1>5, <1>7
     DEF Next, Sender, Terminated, vars, Close, Exit, DrainEnd, SendAnswered, SendError, Settle

\* Every request carries between one and MaxBatch entries.
LEMMA BoundsStep == Inv /\ [Next]_vars => BatchBounds'
<1> SUFFICES ASSUME Inv, [Next]_vars PROVE BatchBounds'
  OBVIOUS
<1> USE BatcherAssumption DEF Inv
<1>0. handles \in Seq(Handles) /\ \A s \in Senders : batch[s] \in Seq(Handles)
  BY DEF TypeOK
<1>2. ASSUME spc' = spc, batch' = batch PROVE BatchBounds'
  BY <1>2 DEF BatchBounds
<1>3. ASSUME NEW s \in Senders, RecvFirst(s) PROVE BatchBounds'
  <2>1. Head(handles) \in Handles
    BY <1>0, <1>3 DEF RecvFirst
  <2>2. <<Head(handles)>> \in Seq(Handles) /\ Len(<<Head(handles)>>) = 1
    BY <2>1, InSeqSingle
  <2> QED
    BY <1>3, <2>2 DEF RecvFirst, BatchBounds, TypeOK
<1>4. ASSUME NEW s \in Senders, Exit(s) PROVE BatchBounds'
  BY <1>4 DEF Exit, BatchBounds, TypeOK
<1>5. ASSUME NEW s \in Senders, DrainOne(s) PROVE BatchBounds'
  <2>1. Head(handles) \in Handles
    BY <1>0, <1>5 DEF DrainOne
  <2>2. /\ Append(batch[s], Head(handles)) \in Seq(Handles)
        /\ Len(Append(batch[s], Head(handles))) = Len(batch[s]) + 1
    BY <1>0, <2>1, InSeqAppend
  <2>3. Len(Append(batch[s], Head(handles))) \in 1 .. MaxBatch
    BY <1>0, <1>5, <2>2 DEF DrainOne
  <2> QED
    BY <1>5, <2>2, <2>3 DEF DrainOne, BatchBounds, TypeOK
<1>6. ASSUME NEW s \in Senders, DrainEnd(s) PROVE BatchBounds'
  BY <1>6 DEF DrainEnd, BatchBounds, TypeOK
<1>7. ASSUME NEW s \in Senders, batch' = [batch EXCEPT ![s] = << >>],
             spc' = [spc EXCEPT ![s] = "recv"]
      PROVE  BatchBounds'
  BY <1>7 DEF BatchBounds, TypeOK
<1> QED
  BY <1>2, <1>3, <1>4, <1>5, <1>6, <1>7
     DEF Next, Sender, Terminated, vars, Enqueue, Close, SendAnswered, SendError, Settle

\* The first part of DrainedOnExit.
ExitedLate == \A s \in Senders : spc[s] = "exited" => closed /\ handles = << >>

\* When every sender has left, the channel and the batches are empty.
LEMMA ExitDrains ==
  ASSUME BatcherAssumption, BatchBounds,
         ExitedLate,
         AllExited
  PROVE  Accepted = requested
<1>1. InSeq(handles) = {}
  BY InSeqEmpty DEF AllExited, BatcherAssumption, ExitedLate
<1>2. \A s \in Senders : InSeq(batch[s]) = {}
  BY InSeqEmpty DEF AllExited, BatchBounds
<1> QED
  BY <1>1, <1>2 DEF Accepted, InBatch

\* No sender leaves before the channel is closed and drained.
LEMMA DrainedStep == Inv /\ [Next]_vars => DrainedOnExit'
<1> SUFFICES ASSUME Inv, [Next]_vars PROVE DrainedOnExit'
  OBVIOUS
<1>1. ExitedLate'
  <2>0. ExitedLate /\ spc \in [Senders -> SenderStates]
    BY DEF Inv, DrainedOnExit, ExitedLate, TypeOK
  <2> USE <2>0 DEF ExitedLate
  <2>1. ASSUME NEW h \in Handles, Enqueue(h) PROVE ExitedLate'
    BY <2>1 DEF Enqueue
  <2>2. CASE Close
    BY <2>2 DEF Close
  <2>3. ASSUME NEW s \in Senders, RecvFirst(s) PROVE ExitedLate'
    BY <2>3 DEF RecvFirst
  <2>4. ASSUME NEW s \in Senders, Exit(s) PROVE ExitedLate'
    BY <2>4 DEF Exit
  <2>5. ASSUME NEW s \in Senders, DrainOne(s) PROVE ExitedLate'
    BY <2>5 DEF DrainOne
  <2>6. ASSUME NEW s \in Senders, DrainEnd(s) PROVE ExitedLate'
    BY <2>6 DEF DrainEnd
  <2>7. ASSUME NEW s \in Senders, handles' = handles, closed' = closed,
               spc' = [spc EXCEPT ![s] = "recv"]
        PROVE  ExitedLate'
    BY <2>7
  <2>8. CASE UNCHANGED vars
    BY <2>8 DEF vars
  <2> HIDE DEF ExitedLate
  <2> QED
    BY <2>1, <2>2, <2>3, <2>4, <2>5, <2>6, <2>7, <2>8
       DEF Next, Sender, Terminated, SendAnswered, SendError, Settle
<1>2. BatchBounds'
  BY BoundsStep
<1>3. (AllExited => Accepted = requested)'
  BY <1>1, <1>2, BatcherAssumption, ExitDrains, PTL
<1> QED
  BY <1>1, <1>3 DEF DrainedOnExit, ExitedLate

\* An answered request leaves every handle of it deleted or reported.
LEMMA ReportedStep == Inv /\ [Next]_vars => FailuresReported'
<1> SUFFICES ASSUME Inv, [Next]_vars PROVE FailuresReported'
  OBVIOUS
<1>0. requested \subseteq deleted \cup reported
  BY DEF Inv, FailuresReported
<1>1. ASSUME NEW s \in Senders, NEW ids \in SUBSET (0 .. MaxBatch), SendAnswered(s, ids)
      PROVE  FailuresReported'
  <2>1. batch[s] \in Seq(Handles)
    BY DEF Inv, TypeOK
  <2>2. ASSUME NEW i \in 1 .. Len(batch[s]), (i - 1) \in ids
        PROVE  batch[s][i] \in Reported(batch[s], ids)
    <3>1. i - 1 \in {j \in ids : 0 <= j /\ j < Len(batch[s])}
      BY <2>1, <2>2
    <3>2. batch[s][(i - 1) + 1] = batch[s][i]
      BY <2>1
    <3> QED
      BY <3>1, <3>2 DEF Reported
  <2>3. InSeq(batch[s]) \subseteq
          {batch[s][i] : i \in {j \in 1 .. Len(batch[s]) : (j - 1) \notin ids}}
          \cup Reported(batch[s], ids)
    BY <2>2 DEF InSeq
  <2> QED
    BY <1>0, <1>1, <2>3 DEF SendAnswered, Settle, FailuresReported
<1>2. ASSUME NEW s \in Senders, NEW gone \in SUBSET Handles, SendError(s, gone)
      PROVE  FailuresReported'
  BY <1>0, <1>2 DEF SendError, Settle, FailuresReported
<1>3. ASSUME UNCHANGED <<requested, deleted, reported>> PROVE FailuresReported'
  BY <1>0, <1>3 DEF FailuresReported
<1> QED
  BY <1>1, <1>2, <1>3
     DEF Next, Sender, Terminated, vars, Enqueue, Close, RecvFirst, Exit, DrainOne, DrainEnd

\* The initial state: an open, empty channel and idle senders.
LEMMA InvInit == Init => Inv
<1> SUFFICES ASSUME Init PROVE Inv
  OBVIOUS
<1> USE BatcherAssumption DEF Init
<1>1. InSeq(handles) = {} /\ NoDup(handles) /\ InBatch = {}
  BY InSeqEmpty DEF InBatch
<1>2. TypeOK
  <2>1. handles \in Seq(Handles) /\ Len(handles) <= Capacity
    OBVIOUS
  <2>2. spc \in [Senders -> SenderStates]
    BY DEF SenderStates
  <2>3. batch \in [Senders -> Seq(Handles)]
    OBVIOUS
  <2> QED
    BY <2>1, <2>2, <2>3 DEF TypeOK
<1>3. OnePlace
  BY <1>1, InSeqEmpty DEF OnePlace
<1>4. BatchBounds /\ DrainedOnExit /\ FailuresReported
  BY DEF BatchBounds, DrainedOnExit, FailuresReported, AllExited
<1> QED
  BY <1>2, <1>3, <1>4 DEF Inv

\* The conjunction is inductive.
THEOREM Invariance == Spec => []Inv
<1>1. Inv /\ [Next]_vars => Inv'
  BY TypeStep, OnePlaceStep, BoundsStep, DrainedStep, ReportedStep DEF Inv
<1> QED
  BY InvInit, <1>1, PTL DEF Spec

\* Every variable keeps its type and the channel its capacity.
THEOREM TypeCorrect == Spec => []TypeOK
BY Invariance, PTL DEF Inv

\* No committed receipt handle is lost or duplicated on its way from the
\* worker to an answered DeleteMessageBatch request.
THEOREM HandlesConserved == Spec => []OnePlace
BY Invariance, PTL DEF Inv

\* close drops nothing: the senders are gone only when every committed handle
\* was part of an answered request.
THEOREM GracefulClose == Spec => []DrainedOnExit
BY Invariance, PTL DEF Inv

\* A failed delete is always reported under its own receipt handle.
THEOREM FailuresAreReported == Spec => []FailuresReported
BY Invariance, PTL DEF Inv

-----------------------------------------------------------------------------
(* The batcher implements PendingDeletes.                                   *)

\* A request has at most as many distinct handles as its batch has entries.
LEMMA InSeqCardinality ==
  ASSUME NEW b \in Seq(Handles)
  PROVE  Cardinality(InSeq(b)) <= Len(b)
<1>1. b \in Surjection(1 .. Len(b), InSeq(b))
  BY DEF Surjection, InSeq
<1>2. Len(b) \in Nat
  OBVIOUS
<1>3. /\ IsFiniteSet(1 .. Len(b))
      /\ Cardinality(1 .. Len(b)) = IF 1 > Len(b) THEN 0 ELSE Len(b) - 1 + 1
  BY <1>2, FS_Interval
<1>4. Cardinality(1 .. Len(b)) = Len(b)
  BY <1>2, <1>3
<1>5. Cardinality(InSeq(b)) <= Cardinality(1 .. Len(b))
  BY <1>1, <1>3, FS_Surjection
<1> QED
  BY <1>4, <1>5

\* A batch is a finite set of handles.
LEMMA InSeqFinite ==
  ASSUME NEW b \in Seq(Handles)
  PROVE  Cardinality(InSeq(b)) \in Nat
<1>1. b \in Surjection(1 .. Len(b), InSeq(b))
  BY DEF Surjection, InSeq
<1>2. IsFiniteSet(1 .. Len(b))
  BY FS_Interval
<1>3. IsFiniteSet(InSeq(b))
  BY <1>1, <1>2, FS_Surjection
<1> QED
  BY <1>3, FS_CardinalityType

\* A sender that takes a handle off the channel has it: nothing is lost between
\* the channel and its batch.
LEMMA ReceiveKeeps ==
  ASSUME Inv, NEW s \in Senders, handles # << >>, handles' = Tail(handles),
         batch' = [batch EXCEPT ![s] = Append(batch[s], Head(handles))]
  PROVE  InSeq(handles)' \cup InBatch' = InSeq(handles) \cup InBatch
<1>1. TypeOK /\ OnePlace /\ handles \in Seq(Handles) /\ NoDup(handles) /\ batch[s] \in Seq(Handles)
  BY DEF Inv, TypeOK, OnePlace
<1>2. /\ Head(handles) \in Handles
      /\ Head(handles) \in InSeq(handles)
      /\ InSeq(Tail(handles)) = InSeq(handles) \ {Head(handles)}
  BY <1>1, InSeqTail
<1> DEFINE b == Append(batch[s], Head(handles))
<1>3. b \in Seq(Handles) /\ InSeq(b) = InSeq(batch[s]) \cup {Head(handles)}
  BY <1>1, <1>2, InSeqAppend
<1>4. batch' = [batch EXCEPT ![s] = b]
  OBVIOUS
<1> HIDE DEF b
<1>5. InBatch = Others(s) \cup InSeq(batch[s]) /\ InBatch' = Others(s) \cup InSeq(b)
  BY <1>1, <1>3, <1>4, BatchUpdate
<1>6. InSeq(handles)' = InSeq(handles) \ {Head(handles)}
  BY <1>2 DEF InSeq
<1> QED
  BY <1>2, <1>3, <1>5, <1>6

\* An answered request takes exactly its batch out of what is pending.
LEMMA SettleKeeps ==
  ASSUME Inv, NEW s \in Senders, handles' = handles,
         batch' = [batch EXCEPT ![s] = << >>]
  PROVE  /\ InSeq(handles)' \cup InBatch' = (InSeq(handles) \cup InBatch) \ InSeq(batch[s])
         /\ InSeq(batch[s]) \subseteq InBatch
<1>1. TypeOK /\ OnePlace
  BY DEF Inv
<1>2. << >> \in Seq(Handles) /\ InSeq(<< >>) = {}
  BY InSeqEmpty
<1>3. /\ InBatch = Others(s) \cup InSeq(batch[s])
      /\ InBatch' = Others(s) \cup InSeq(<< >>)
      /\ Others(s) \cap InSeq(batch[s]) = {}
  BY <1>1, <1>2, BatchUpdate
<1>4. InSeq(handles) \cap InSeq(batch[s]) = {} /\ InSeq(handles)' = InSeq(handles)
  BY <1>1, <1>3 DEF OnePlace, InSeq
<1> QED
  BY <1>2, <1>3, <1>4

\* What the senders do to the handles: they accept none and lose none, and only
\* delete what was accepted.
LEMMA SenderKeeps ==
  ASSUME Inv, NEW s \in Senders, Sender(s)
  PROVE  /\ Accepted' = Accepted
         /\ InSeq(handles)' \cup InBatch' \subseteq InSeq(handles) \cup InBatch
         /\ requested \subseteq requested'
         /\ deleted' \subseteq deleted \cup InSeq(batch[s])
         /\ InSeq(batch[s]) \subseteq InBatch
<1> DEFINE Pending == InSeq(handles) \cup InBatch
<1>0. InSeq(batch[s]) \subseteq InBatch
  BY DEF InBatch
<1>1. Accepted = Pending \cup requested /\ Accepted' = InSeq(handles)' \cup InBatch' \cup requested'
  BY DEF Accepted
<1>2. CASE RecvFirst(s)
  <2>1. batch[s] = << >> /\ handles \in Seq(Handles) /\ handles # << >> /\ Head(handles) \in Handles
    BY <1>2 DEF Inv, TypeOK, BatchBounds, RecvFirst
  <2>2. <<Head(handles)>> = Append(batch[s], Head(handles))
    BY <2>1
  <2>3. /\ handles' = Tail(handles)
        /\ batch' = [batch EXCEPT ![s] = Append(batch[s], Head(handles))]
        /\ requested' = requested /\ deleted' = deleted
    BY <1>2, <2>2 DEF RecvFirst
  <2> QED
    BY <1>0, <1>1, <2>1, <2>3, ReceiveKeeps
<1>3. CASE DrainOne(s)
  BY <1>0, <1>1, <1>3, ReceiveKeeps DEF DrainOne
<1>4. CASE Exit(s) \/ DrainEnd(s)
  <2>1. handles' = handles /\ batch' = batch /\ requested' = requested /\ deleted' = deleted
    BY <1>4 DEF Exit, DrainEnd
  <2>2. InSeq(handles)' = InSeq(handles) /\ InBatch' = InBatch
    BY <2>1, BatchSame DEF InSeq
  <2> QED
    BY <1>0, <1>1, <2>1, <2>2
<1>5. ASSUME handles' = handles, batch' = [batch EXCEPT ![s] = << >>],
             requested' = requested \cup InSeq(batch[s]),
             NEW gone \in SUBSET InSeq(batch[s]), deleted' = deleted \cup gone
      PROVE  /\ Accepted' = Accepted
             /\ InSeq(handles)' \cup InBatch' \subseteq Pending
             /\ requested \subseteq requested'
             /\ deleted' \subseteq deleted \cup InSeq(batch[s])
  BY <1>0, <1>1, <1>5, SettleKeeps
<1>6. ASSUME NEW ids \in SUBSET (0 .. MaxBatch), SendAnswered(s, ids)
      PROVE  /\ Accepted' = Accepted
             /\ InSeq(handles)' \cup InBatch' \subseteq Pending
             /\ requested \subseteq requested'
             /\ deleted' \subseteq deleted \cup InSeq(batch[s])
  <2> DEFINE gone == {batch[s][i] : i \in {j \in 1 .. Len(batch[s]) : (j - 1) \notin ids}}
  <2>1. gone \in SUBSET InSeq(batch[s])
    BY DEF InSeq
  <2>2. /\ handles' = handles /\ batch' = [batch EXCEPT ![s] = << >>]
        /\ requested' = requested \cup InSeq(batch[s]) /\ deleted' = deleted \cup gone
    BY <1>6 DEF SendAnswered, Settle
  <2> HIDE DEF gone
  <2> QED
    BY <1>5, <2>1, <2>2
<1>7. ASSUME NEW gone \in SUBSET Handles, SendError(s, gone)
      PROVE  /\ Accepted' = Accepted
             /\ InSeq(handles)' \cup InBatch' \subseteq Pending
             /\ requested \subseteq requested'
             /\ deleted' \subseteq deleted \cup InSeq(batch[s])
  BY <1>5, <1>7 DEF SendError, Settle
<1> QED
  BY <1>0, <1>2, <1>3, <1>4, <1>6, <1>7 DEF Sender

\* A step that moves handles between the channel and the batches, or none,
\* is a stuttering step of the promise.
LEMMA MoveStutters ==
  ASSUME InSeq(handles)' \cup InBatch' = InSeq(handles) \cup InBatch,
         requested' = requested, closed' = closed, AllExited' = AllExited
  PROVE  UNCHANGED Promise!vars
BY DEF Promise!vars

\* Every step of the batcher is a step of the promise.
LEMMA PromiseStep == Inv /\ [Next]_vars => [Promise!Next]_(Promise!vars)
<1> SUFFICES ASSUME Inv, [Next]_vars PROVE [Promise!Next]_(Promise!vars)
  OBVIOUS
<1> USE BatcherAssumption
<1>0. /\ TypeOK /\ OnePlace /\ BatchBounds /\ ExitedLate
      /\ handles \in Seq(Handles)
      /\ \A s \in Senders : batch[s] \in Seq(Handles) /\ InSeq(batch[s]) \subseteq Handles
  BY InSeqType DEF Inv, TypeOK, DrainedOnExit, ExitedLate
<1>1. ASSUME NEW h \in Handles, Enqueue(h) PROVE Promise!Next
  <2>1. InSeq(handles)' = InSeq(handles) \cup {h}
    BY <1>0, <1>1, InSeqAppend DEF Enqueue, InSeq
  <2>2. InBatch' = InBatch /\ AllExited' = AllExited
    BY <1>1, BatchSame DEF Enqueue, AllExited
  <2>3. Promise!Commit(h)
    BY <1>1, <2>1, <2>2 DEF Enqueue, Accepted, Promise!Commit
  <2> QED
    BY <2>3 DEF Promise!Next
<1>2. CASE Close
  <2>1. InSeq(handles)' = InSeq(handles) /\ InBatch' = InBatch /\ AllExited' = AllExited
    BY <1>2, BatchSame DEF Close, AllExited, InSeq
  <2> QED
    BY <1>2, <2>1 DEF Close, Promise!Close, Promise!Next
<1>3. ASSUME NEW s \in Senders, RecvFirst(s) PROVE UNCHANGED Promise!vars
  <2>1. batch[s] = << >> /\ handles # << >> /\ Head(handles) \in Handles
    BY <1>0, <1>3 DEF RecvFirst, BatchBounds
  <2>2. <<Head(handles)>> = Append(batch[s], Head(handles))
    BY <2>1
  <2>3. InSeq(handles)' \cup InBatch' = InSeq(handles) \cup InBatch
    BY <1>3, <2>1, <2>2, ReceiveKeeps DEF RecvFirst
  <2>4. AllExited' = AllExited
    BY <1>0, <1>3 DEF RecvFirst, AllExited, TypeOK
  <2> QED
    BY <1>3, <2>3, <2>4, MoveStutters DEF RecvFirst
<1>4. ASSUME NEW s \in Senders, Exit(s) PROVE [Promise!Next]_(Promise!vars)
  <2>1. InSeq(handles)' = InSeq(handles) /\ InBatch' = InBatch /\ ~AllExited
    BY <1>4, BatchSame DEF Exit, InSeq, AllExited
  <2>2. CASE ~AllExited'
    <3>1. AllExited' = AllExited
      BY <2>1, <2>2 DEF AllExited
    <3> QED
      BY <1>4, <2>1, <3>1, MoveStutters DEF Exit
  <2>3. CASE AllExited'
    <3>1. InSeq(handles) = {}
      BY <1>4, InSeqEmpty DEF Exit
    <3>2. \A t \in Senders : InSeq(batch[t]) = {}
      <4> SUFFICES ASSUME NEW t \in Senders PROVE batch[t] = << >>
        BY InSeqEmpty
      <4>1. spc[t] \in {"recv", "exited"}
        BY <1>0, <1>4, <2>3 DEF Exit, AllExited, TypeOK
      <4> QED
        BY <1>0, <4>1 DEF BatchBounds
    <3>3. InSeq(handles) \cup InBatch = {}
      BY <3>1, <3>2 DEF InBatch
    <3>4. Promise!Drain
      BY <1>4, <2>1, <2>3, <3>3 DEF Exit, Promise!Drain
    <3> QED
      BY <3>4 DEF Promise!Next
  <2> QED
    BY <2>2, <2>3
<1>5. ASSUME NEW s \in Senders, DrainOne(s) PROVE UNCHANGED Promise!vars
  <2>1. InSeq(handles)' \cup InBatch' = InSeq(handles) \cup InBatch
    BY <1>5, ReceiveKeeps DEF DrainOne
  <2>2. AllExited' = AllExited
    BY <1>5 DEF DrainOne, AllExited
  <2> QED
    BY <1>5, <2>1, <2>2, MoveStutters DEF DrainOne
<1>6. ASSUME NEW s \in Senders, DrainEnd(s) PROVE UNCHANGED Promise!vars
  <2>1. InSeq(handles)' = InSeq(handles) /\ InBatch' = InBatch
    BY <1>6, BatchSame DEF DrainEnd, InSeq
  <2>2. AllExited' = AllExited
    BY <1>0, <1>6 DEF DrainEnd, AllExited, TypeOK
  <2> QED
    BY <1>6, <2>1, <2>2, MoveStutters DEF DrainEnd
<1>7. ASSUME NEW s \in Senders, spc[s] = "send",
             batch' = [batch EXCEPT ![s] = << >>],
             spc' = [spc EXCEPT ![s] = "recv"],
             requested' = requested \cup InSeq(batch[s]),
             handles' = handles, closed' = closed
      PROVE  Promise!Next
  <2>1. /\ InSeq(handles)' \cup InBatch' = (InSeq(handles) \cup InBatch) \ InSeq(batch[s])
        /\ InSeq(batch[s]) \subseteq InSeq(handles) \cup InBatch
    BY <1>7, SettleKeeps
  <2>3. Len(batch[s]) \in 1 .. MaxBatch
    BY <1>0, <1>7 DEF BatchBounds
  <2>4. InSeq(batch[s]) # {} /\ Cardinality(InSeq(batch[s])) <= MaxBatch
    <3>1. batch[s][1] \in InSeq(batch[s])
      BY <2>3 DEF InSeq
    <3>2. Cardinality(InSeq(batch[s])) <= Len(batch[s])
      BY <1>0, InSeqCardinality
    <3>3. Cardinality(InSeq(batch[s])) \in Nat
      BY <1>0, InSeqFinite
    <3> QED
      BY <2>3, <3>1, <3>2, <3>3
  <2>5. ~AllExited /\ ~AllExited'
    BY <1>0, <1>7 DEF AllExited, TypeOK
  <2>6. Promise!Settle(InSeq(batch[s]))
    <3>1. AllExited' = AllExited
      BY <2>5 DEF AllExited
    <3> QED
      BY <1>7, <2>1, <2>4, <2>5, <3>1 DEF Promise!Settle, Promise!Cardinality, Cardinality
  <2>7. InSeq(batch[s]) \in SUBSET Handles
    BY <1>0
  <2> QED
    BY <2>6, <2>7 DEF Promise!Next
<1>8. CASE UNCHANGED vars
  <2>1. InSeq(handles)' = InSeq(handles) /\ InBatch' = InBatch /\ AllExited' = AllExited
    BY <1>8, BatchSame DEF vars, InSeq, AllExited
  <2> QED
    BY <1>8, <2>1, MoveStutters DEF vars
<1> QED
  BY <1>1, <1>2, <1>3, <1>4, <1>5, <1>6, <1>7, <1>8
     DEF Next, Sender, Terminated, SendAnswered, SendError, Settle

\* The batcher keeps the promise stated in PendingDeletes: handles are
\* accepted, settled once in requests of 1 to MaxBatch, and close returns only
\* when none is pending.
THEOREM KeepsPromise == Spec => Refinement
<1>1. Init => Promise!Init
  <2> SUFFICES ASSUME Init PROVE Promise!Init
    OBVIOUS
  <2>1. InSeq(handles) \cup InBatch = {} /\ ~AllExited
    BY InSeqEmpty, BatcherAssumption DEF Init, InBatch, AllExited
  <2> QED
    BY <2>1 DEF Init, Promise!Init
<1> QED
  BY <1>1, Invariance, PromiseStep, PTL DEF Spec, Refinement, Promise!Spec

=============================================================================
