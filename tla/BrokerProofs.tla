---------------------------- MODULE BrokerProofs ----------------------------
(***************************************************************************)
(* The safety of the broker's Run for any number of routes, any of which   *)
(* may be nil, fail or get stuck.                                          *)
(***************************************************************************)
EXTENDS Broker, TLAPS

\* The shared variable of Run is the head of the history of setErr.
FirstKept == firstErr = IF errors = << >> THEN NoError ELSE errors[1]

\* A consumer exists for the routes the start loop has passed, and for no other.
StartedInOrder == \A r \in Routes : cpc[r] = "none" <=> r >= next

\* The start loop is left after the last route or with an error.
LoopLeft == bpc # "loop" => next > R \/ errors # << >>

\* Somebody is behind a cancellation.
CancelExplained == ctx => outer \/ errors # << >> \/ bpc = "returned"

\* No consumer leaves its poll loop, or ends, without a cancellation; one
\* that failed has told setErr.
StopExplained ==
  \A r \in Routes : /\ cpc[r] \in {"draining", "stuck", "done"} => ctx
                    /\ cpc[r] = "failed" => errors # << >>

\* What Run returned.
ResultExplained ==
  bpc = "returned" =>
    /\ result # NoError => errors # << >> /\ result = errors[1]
    /\ ~timeout => /\ AllDone
                   /\ IF errors = << >> THEN result = NoError /\ outer ELSE result = errors[1]

\* CleanReturn needs to know why Run is past its loop (LoopLeft), that the
\* consumers then all exist (StartedInOrder), and that each of them ended
\* because of a cancellation (StopExplained) somebody is behind
\* (CancelExplained).
Inv ==
  /\ TypeOK
  /\ FirstKept
  /\ StartedInOrder
  /\ LoopLeft
  /\ CancelExplained
  /\ StopExplained
  /\ ResultExplained

-----------------------------------------------------------------------------

\* setErr: the history grows at its end, and the first error stays.
LEMMA SetErrKeepsFirst ==
  ASSUME TypeOK, FirstKept, NEW r \in Routes, SetErr(r)
  PROVE  /\ firstErr' \in Routes
         /\ errors' \in Seq(Routes)
         /\ errors' # << >>
         /\ errors # << >> => errors'[1] = errors[1]
         /\ FirstKept'
<1>1. /\ errors' = Append(errors, r)
      /\ errors \in Seq(Routes)
      /\ r # NoError
  BY DEF TypeOK, SetErr, NoError, Routes
<1>2. /\ errors' \in Seq(Routes)
      /\ errors' # << >>
      /\ errors = << >> => errors'[1] = r
      /\ errors # << >> => errors'[1] = errors[1]
  BY <1>1
<1>3. errors # << >> => errors[1] \in Routes
  BY <1>1
<1>4. firstErr' = IF errors = << >> THEN r ELSE errors[1]
  BY <1>1, <1>3 DEF SetErr, FirstKept, NoError, Routes
<1> QED
  BY <1>2, <1>3, <1>4 DEF FirstKept

\* Run returns only when somebody failed or the caller canceled, if it waited
\* for every consumer.
LEMMA AllDoneExplained ==
  ASSUME Inv, bpc = "wait", AllDone
  PROVE  errors # << >> \/ outer
<1> SUFFICES ASSUME errors = << >> PROVE outer
  OBVIOUS
<1>1. R \in Nat \ {0} /\ R \in Routes
  BY BrokerAssumption DEF Routes
<1>2. next > R
  BY DEF Inv, LoopLeft
<1>3. cpc[R] = "done"
  BY <1>1, <1>2 DEF Inv, StartedInOrder, AllDone, TypeOK
<1>4. ctx
  BY <1>1, <1>3 DEF Inv, StopExplained
<1> QED
  BY <1>4 DEF Inv, CancelExplained

\* Every initial state satisfies the invariant.
LEMMA InitInv == Init => Inv
<1> SUFFICES ASSUME Init PROVE Inv
  OBVIOUS
<1>1. TypeOK
  <2>1. cpc \in [Routes -> {"none", "starting", "polling", "draining", "stuck", "failed", "done"}]
    BY DEF Init
  <2>2. errors \in Seq(Routes)
    BY DEF Init
  <2>3. next \in 1 .. R + 1
    BY BrokerAssumption DEF Init
  <2> QED
    BY <2>1, <2>2, <2>3 DEF Init, TypeOK
<1>2. StartedInOrder
  BY DEF Init, StartedInOrder, Routes
<1>3. FirstKept /\ LoopLeft /\ CancelExplained /\ StopExplained /\ ResultExplained
  BY DEF Init, FirstKept, LoopLeft, CancelExplained, StopExplained, ResultExplained
<1> QED
  BY <1>1, <1>2, <1>3 DEF Inv

\* The goroutine of Run keeps the invariant.
LEMMA RunStep ==
  ASSUME Inv, Run
  PROVE  Inv'
<1> USE BrokerAssumption DEF Inv
<1>1. CASE StartConsumer
  <2>1. /\ next \in Routes /\ next' = next + 1
        /\ cpc' = [cpc EXCEPT ![next] = "starting"]
        /\ UNCHANGED <<timeout, outer, ctx, bpc, firstErr, errors, result>>
        /\ bpc = "loop"
    BY <1>1 DEF StartConsumer, TypeOK, Routes
  <2>2. TypeOK'
    BY <2>1 DEF TypeOK, Routes
  <2>3. StartedInOrder'
    BY <2>1 DEF TypeOK, StartedInOrder, Routes
  <2>4. StopExplained'
    BY <2>1 DEF TypeOK, StopExplained
  <2> QED
    BY <2>1, <2>2, <2>3, <2>4 DEF FirstKept, LoopLeft, CancelExplained, ResultExplained
<1>2. CASE RejectRoute
  <2>1. /\ next \in Routes /\ SetErr(next)
        /\ bpc' = "wait" /\ ctx'
        /\ UNCHANGED <<timeout, outer, next, cpc, result>>
    BY <1>2 DEF RejectRoute, TypeOK, Routes
  <2>2. /\ firstErr' \in Routes /\ errors' \in Seq(Routes) /\ errors' # << >>
        /\ FirstKept'
    BY <2>1, SetErrKeepsFirst
  <2>3. ctx' = TRUE
    BY <1>2 DEF RejectRoute
  <2> QED
    BY <2>1, <2>2, <2>3 DEF TypeOK, StartedInOrder, LoopLeft, CancelExplained, StopExplained, ResultExplained
<1>3. CASE AllStarted
  BY <1>3 DEF AllStarted, TypeOK, FirstKept, StartedInOrder, LoopLeft, CancelExplained,
     StopExplained, ResultExplained
<1>4. ASSUME ReturnFirstErr, bpc = "wait", timeout \/ AllDone
      PROVE  Inv'
  <2>1. /\ bpc' = "returned" /\ result' = firstErr /\ ctx' = TRUE
        /\ UNCHANGED <<timeout, outer, next, cpc, firstErr, errors>>
    BY <1>4 DEF ReturnFirstErr
  <2>2. ~timeout => AllDone /\ (errors # << >> \/ outer)
    BY <1>4, AllDoneExplained
  <2>3. AllDone' = AllDone
    BY <2>1 DEF AllDone
  <2>4. ResultExplained'
    BY <2>1, <2>2, <2>3 DEF ResultExplained, FirstKept
  <2> QED
    BY <1>4, <2>1, <2>4 DEF TypeOK, FirstKept, StartedInOrder, LoopLeft, CancelExplained, StopExplained
<1>5. CASE ReturnDone
  BY <1>4, <1>5 DEF ReturnDone
<1>6. CASE ReturnTimeout
  BY <1>4, <1>6 DEF ReturnTimeout
<1> QED
  BY <1>1, <1>2, <1>3, <1>5, <1>6 DEF Run

\* A consumer goroutine keeps the invariant.
LEMMA ConsumerStep ==
  ASSUME Inv, NEW r \in Routes, Consumer(r)
  PROVE  Inv'
<1> USE DEF Inv
\* Once Run has returned without a timeout there is no consumer to take a step.
<1>1. bpc = "returned" => timeout
  BY DEF Consumer, ConsumerFails, FailFast, StartPolling, StopPolling, Drained, GetStuck,
     ResultExplained, AllDone
<1>2. CASE ConsumerFails(r)
  <2>1. /\ SetErr(r)
        /\ cpc[r] = "starting" /\ cpc' = [cpc EXCEPT ![r] = "failed"]
        /\ UNCHANGED <<timeout, outer, ctx, bpc, next, result>>
    BY <1>2 DEF ConsumerFails
  <2>2. /\ firstErr' \in Routes /\ errors' \in Seq(Routes) /\ errors' # << >>
        /\ errors # << >> => errors'[1] = errors[1]
        /\ FirstKept'
    BY <2>1, SetErrKeepsFirst
  <2>3. TypeOK' /\ StartedInOrder' /\ StopExplained'
    BY <2>1, <2>2 DEF TypeOK, StartedInOrder, StopExplained
  <2>4. ResultExplained'
    BY <1>1, <2>1, <2>2 DEF ResultExplained
  <2> QED
    BY <2>1, <2>2, <2>3, <2>4 DEF LoopLeft, CancelExplained
<1>3. CASE FailFast(r)
  <2>1. /\ cpc[r] = "failed" /\ cpc' = [cpc EXCEPT ![r] = "done"]
        /\ ctx' = TRUE
        /\ UNCHANGED <<timeout, outer, bpc, next, firstErr, errors, result>>
    BY <1>3 DEF FailFast
  <2>2. TypeOK' /\ StartedInOrder' /\ StopExplained' /\ CancelExplained'
    BY <2>1 DEF TypeOK, StartedInOrder, StopExplained, CancelExplained
  <2> QED
    BY <1>1, <2>1, <2>2 DEF FirstKept, LoopLeft, ResultExplained
<1>4. ASSUME NEW s \in {"polling", "draining", "stuck", "done"},
             cpc[r] \notin {"none", "failed"}, s # "polling" => ctx,
             cpc' = [cpc EXCEPT ![r] = s],
             UNCHANGED <<timeout, outer, ctx, bpc, next, firstErr, errors, result>>
      PROVE  Inv'
  <2>1. TypeOK' /\ StartedInOrder' /\ StopExplained'
    BY <1>4 DEF TypeOK, StartedInOrder, StopExplained
  <2> QED
    BY <1>1, <1>4, <2>1 DEF FirstKept, LoopLeft, CancelExplained, ResultExplained
<1>5. CASE StartPolling(r)
  BY <1>4, <1>5 DEF StartPolling
<1>6. CASE StopPolling(r)
  BY <1>4, <1>6 DEF StopPolling
<1>7. CASE Drained(r)
  BY <1>4, <1>7 DEF Drained, StopExplained
<1>8. CASE GetStuck(r)
  BY <1>4, <1>8 DEF GetStuck, StopExplained
<1> QED
  BY <1>2, <1>3, <1>5, <1>6, <1>7, <1>8 DEF Consumer

\* The invariant is inductive.
LEMMA Inductive == Inv /\ [Next]_vars => Inv'
<1> SUFFICES ASSUME Inv, [Next]_vars PROVE Inv'
  OBVIOUS
<1>1. CASE Run
  BY <1>1, RunStep
<1>2. ASSUME NEW r \in Routes, Consumer(r) PROVE Inv'
  BY <1>2, ConsumerStep
<1>3. CASE Cancel
  <2>1. /\ outer' = TRUE /\ ctx' = TRUE /\ bpc # "returned"
        /\ UNCHANGED <<timeout, bpc, next, cpc, firstErr, errors, result>>
    BY <1>3 DEF Cancel
  <2> QED
    BY <2>1 DEF Inv, TypeOK, FirstKept, StartedInOrder, LoopLeft, CancelExplained, StopExplained,
       ResultExplained
<1>4. CASE UNCHANGED vars
  BY <1>4 DEF vars, Inv, TypeOK, FirstKept, StartedInOrder, LoopLeft, CancelExplained,
     StopExplained, ResultExplained, AllDone
<1> QED
  BY <1>1, <1>2, <1>3, <1>4 DEF Next, Over

-----------------------------------------------------------------------------

\* Run starts in Inv and no step of it or of a consumer leaves it.
LEMMA Invariance == Spec => []Inv
BY InitInv, Inductive, PTL DEF Spec

\* The start loop of Run stays within its routes, and every variable of Run and
\* its consumer goroutines keeps its type.
THEOREM TypeCorrect == Spec => []TypeOK
<1>1. Inv => TypeOK
  BY DEF Inv
<1> QED
  BY <1>1, Invariance, PTL

\* Run returns the earliest error that any of its consumers, or the start loop,
\* handed to setErr, however many fail and whenever.
THEOREM FirstErrorWins == Spec => []FirstErrorReturned
<1>1. Inv => FirstErrorReturned
  BY DEF Inv, ResultExplained, FirstErrorReturned
<1> QED
  BY <1>1, Invariance, PTL

\* Without a shutdown timeout Run returns when every consumer goroutine it
\* started is done, and nil only if the caller canceled.
THEOREM ReturnsClean == Spec => []CleanReturn
<1>1. Inv => CleanReturn
  BY DEF Inv, ResultExplained, CleanReturn
<1> QED
  BY <1>1, Invariance, PTL

=============================================================================
