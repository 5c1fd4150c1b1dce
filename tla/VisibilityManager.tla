------------------------- MODULE VisibilityManager -------------------------
(***************************************************************************)
(* One message in flight: the handler and worker (consumer/dispatch.go     *)
(* process, consumer/message.go Backoff and Dispatch) and the visibility   *)
(* goroutine (consumer/visibility.go run) that race over it.               *)
(*                                                                         *)
(* Time advances in seconds.  The goroutine and its API calls are fast     *)
(* against a second: time does not advance while one of its select cases   *)
(* is ready.  `left' is the time until the queue (external) would deliver  *)
(* the message again.                                                      *)
(***************************************************************************)
EXTENDS Integers, Sequences

CONSTANTS VT,           \* visibility timeout of the route, at least 11
          Margin,       \* visibilityRenewalMargin, 10 in the code
          MaxVis,       \* maxVisibilityTimeout, 43200 in the code
          Limit,        \* extension limit of the route
          Models,       \* scheduled, or not, as the visibility managers may be
          Delays,       \* backoff delays a handler asks for, in milliseconds
          MaxBackoffs,  \* bound on the Backoff calls of one handler run
          MayCancel,    \* the run context may be canceled
          MaxFaults     \* bound on failed ChangeMessageVisibility calls

ASSUME VisibilityAssumption ==
  /\ VT \in Nat /\ Margin \in Nat \ {0} /\ MaxVis \in Nat
  /\ Margin < VT /\ VT <= MaxVis
  /\ Limit \in Nat
  /\ Models \subseteq BOOLEAN /\ MayCancel \in BOOLEAN
  /\ Delays \subseteq Int
  /\ MaxBackoffs \in Nat /\ MaxFaults \in Nat

VARIABLES
  scheduled,   \* newScheduledVisibilityManager: the Scheduled Retry model's manager
  hpc,         \* where the worker is: handler, blocked in Backoff, returned, done
  err,         \* the handler returned an error
  backedOff,   \* the atomic flag of the message
  backoffCh,   \* the backoff channel, of capacity one
  blockedOn,   \* the delay a blocked Backoff call wants to send
  backoffs,    \* Backoff calls so far
  dispatched,  \* the dispatched channel is closed
  vmpc,        \* the visibility goroutine runs or has exited
  count,       \* its local variables
  extension,
  timer,       \* seconds until the ticker fires
  tick,        \* the ticker channel holds a tick
  left,        \* seconds of visibility timeout left
  age,         \* seconds since the message was received, up to Horizon
  applied,     \* the delays ChangeMessageVisibility was asked for by backoffs (history)
  cancelled,
  faults

workerVars == <<hpc, err, backedOff, backoffCh, blockedOn, backoffs, dispatched>>
vmVars == <<scheduled, vmpc, count, extension, tick>>
timeVars == <<timer, left, age>>
history == <<applied>>

vars == <<workerVars, vmVars, timeVars, history, cancelled, faults>>

\* Mutant: the renewal comes no earlier than the expiry.
IntervalNoMargin == VT

\* interval: the margin before expiry, and never less than a second.
Interval == IF VT - Margin < 1 THEN 1 ELSE VT - Margin

\* The bounds changeVisibility puts on a timeout.
Clamp(t) == IF t < 0 THEN 0 ELSE IF t > MaxVis THEN MaxVis ELSE t

\* int32(delay.Seconds()): a delay is cut to whole seconds, towards zero.
Seconds(delay) == IF delay < 0 THEN -((-delay) \div 1000) ELSE delay \div 1000

\* What the renewals add up to when every call succeeds: the last of the
\* Limit + 1 ticks asks for Limit + 1 timeouts.
Guaranteed == (Limit + 1) * Interval + Clamp((Limit + 1) * VT)

Horizon == Guaranteed + 1

Init ==
  /\ scheduled \in Models
  /\ hpc = "handling"
  /\ err = FALSE
  /\ backedOff = FALSE
  /\ backoffCh = << >>
  /\ blockedOn = << >>
  /\ backoffs = 0
  /\ dispatched = FALSE
  /\ vmpc = "run"
  /\ count = 0
  /\ extension = VT
  /\ timer = Interval
  /\ tick = FALSE
  /\ left = VT
  /\ age = 0
  /\ applied = << >>
  /\ cancelled = FALSE
  /\ faults = 0

-----------------------------------------------------------------------------
(* The worker and its handler.                                              *)

\* Backoff: the flag is set, then the delay is sent; the channel takes one.
Backoff(d) ==
  /\ hpc = "handling"
  /\ backoffs < MaxBackoffs
  /\ backoffs' = backoffs + 1
  /\ backedOff' = TRUE
  /\ IF backoffCh = << >>
       THEN backoffCh' = <<d>> /\ UNCHANGED <<hpc, blockedOn>>
       ELSE hpc' = "blocked" /\ blockedOn' = <<d>> /\ UNCHANGED backoffCh
  /\ UNCHANGED <<err, dispatched, vmVars, timeVars, history, cancelled, faults>>

\* A blocked Backoff call gets through.
BackoffSent ==
  /\ hpc = "blocked"
  /\ backoffCh = << >>
  /\ backoffCh' = blockedOn
  /\ blockedOn' = << >>
  /\ hpc' = "handling"
  /\ UNCHANGED <<err, backedOff, backoffs, dispatched, vmVars, timeVars, history,
                 cancelled, faults>>

HandlerReturns ==
  /\ hpc = "handling"
  /\ hpc' = "returned"
  /\ err' \in BOOLEAN
  /\ UNCHANGED <<backedOff, backoffCh, blockedOn, backoffs, dispatched, vmVars,
                 timeVars, history, cancelled, faults>>

\* process after the handler: under the Visibility model a backed-off message
\* is left to the goroutine, any other is dispatched; processScheduled always
\* dispatches.  (What is deleted is Consumer's and ScheduledRetry's subject.)
AfterHandler ==
  /\ hpc = "returned"
  /\ hpc' = "done"
  /\ dispatched' = (scheduled \/ ~backedOff)
  /\ UNCHANGED <<err, backedOff, backoffCh, blockedOn, backoffs, vmVars, timeVars, history,
                 cancelled, faults>>

Worker ==
  \/ \E d \in Delays : Backoff(d)
  \/ BackoffSent
  \/ HandlerReturns
  \/ AfterHandler

-----------------------------------------------------------------------------
(* The visibility goroutine.                                                *)

\* changeVisibility: the new timeout counts from now; an error (always one
\* when ctx is canceled) is logged and swallowed.
ChangeVisibility(t) ==
  \/ ~cancelled /\ left' = Clamp(t) /\ UNCHANGED faults
  \/ ~cancelled /\ faults < MaxFaults /\ faults' = faults + 1 /\ UNCHANGED left
  \/ cancelled /\ UNCHANGED <<left, faults>>

\* The loop is at its select: it has not used up the extension limit.
Selecting == vmpc = "run" /\ count <= Limit

VMExit ==
  /\ vmpc' = "exited"
  /\ UNCHANGED <<scheduled, count, extension, tick>>

\* Mutant: the loop goes on without looking at its channels.
VMLimitContinues ==
  /\ vmpc = "run"
  /\ count > Limit
  /\ UNCHANGED vars

\* The limit check at the top of the loop.
VMLimit ==
  /\ vmpc = "run"
  /\ count > Limit
  /\ VMExit
  /\ UNCHANGED <<workerVars, timeVars, history, cancelled, faults>>

\* case <-ctx.Done() and case <-msg.dispatchSignal()
VMStop ==
  /\ Selecting
  /\ cancelled \/ dispatched
  /\ VMExit
  /\ UNCHANGED <<workerVars, timeVars, history, cancelled, faults>>

\* Mutant: the loop goes on after it applied a backoff.
VMBackoffStays ==
  /\ Selecting
  /\ ~scheduled
  /\ backoffCh # << >>
  /\ ChangeVisibility(Seconds(Head(backoffCh)))
  /\ applied' = Append(applied, Seconds(Head(backoffCh)))
  /\ backoffCh' = << >>
  /\ UNCHANGED <<vmVars, hpc, err, backedOff, blockedOn, backoffs, dispatched,
                 timer, age, cancelled>>

\* Mutant: the signal is read and the call forgotten.
VMBackoffDropped ==
  /\ Selecting
  /\ ~scheduled
  /\ backoffCh # << >>
  /\ backoffCh' = << >>
  /\ VMExit
  /\ UNCHANGED <<hpc, err, backedOff, blockedOn, backoffs, dispatched,
                 timeVars, history, cancelled, faults>>

\* case delay := <-msg.backoffSignal(), Visibility model only.
VMBackoff ==
  /\ Selecting
  /\ ~scheduled
  /\ backoffCh # << >>
  /\ ChangeVisibility(Seconds(Head(backoffCh)))
  /\ applied' = Append(applied, Seconds(Head(backoffCh)))
  /\ backoffCh' = << >>
  /\ VMExit
  /\ UNCHANGED <<hpc, err, backedOff, blockedOn, backoffs, dispatched,
                 timer, age, cancelled>>

\* case <-ticker.C: the first tick renews to the route's timeout, each later
\* one asks for one timeout more.
VMTick ==
  /\ Selecting
  /\ tick
  /\ tick' = FALSE
  /\ count' = count + 1
  /\ extension' = IF count > 0 THEN extension + VT ELSE extension
  /\ ChangeVisibility(extension')
  /\ UNCHANGED <<workerVars, scheduled, vmpc, timer, age, applied, cancelled>>

VM ==
  \/ VMLimit
  \/ VMStop
  \/ VMBackoff
  \/ VMTick

VMReady ==
  /\ vmpc = "run"
  /\ count > Limit \/ cancelled \/ dispatched \/ tick \/ (~scheduled /\ backoffCh # << >>)

-----------------------------------------------------------------------------

\* A second passes.  The ticker drops a tick nobody took, and stops with the
\* goroutine.
Elapse ==
  /\ ~VMReady
  /\ hpc # "returned"
  /\ left' = IF left > 0 THEN left - 1 ELSE 0
  /\ age' = IF age < Horizon THEN age + 1 ELSE age
  /\ IF vmpc = "exited"
       THEN UNCHANGED <<timer, tick>>
       ELSE /\ timer' = IF timer = 1 THEN Interval ELSE timer - 1
            /\ tick' = (tick \/ timer = 1)
  /\ UNCHANGED <<workerVars, scheduled, vmpc, count, extension, history, cancelled, faults>>

Cancel ==
  /\ MayCancel
  /\ ~cancelled
  /\ cancelled' = TRUE
  /\ UNCHANGED <<workerVars, vmVars, timeVars, history, faults>>

Next == Worker \/ VM \/ Elapse \/ Cancel

Spec == Init /\ [][Next]_vars

\* Handlers return, both goroutines are scheduled and time passes.
Fairness ==
  /\ WF_vars(HandlerReturns)
  /\ WF_vars(BackoffSent \/ AfterHandler)
  /\ WF_vars(VM)
  /\ WF_vars(Elapse)

FairSpec == Spec /\ Fairness

-----------------------------------------------------------------------------

\* Every variable has its type; what the goroutine asks SQS for is within the
\* range SQS takes.
TypeOK ==
  /\ scheduled \in Models
  /\ hpc \in {"handling", "blocked", "returned", "done"}
  /\ err \in BOOLEAN
  /\ backedOff \in BOOLEAN
  /\ backoffCh \in Seq(Delays) /\ Len(backoffCh) <= 1
  /\ blockedOn \in Seq(Delays) /\ (hpc = "blocked" <=> Len(blockedOn) = 1)
  /\ backoffs \in 0 .. MaxBackoffs
  /\ dispatched \in BOOLEAN
  /\ vmpc \in {"run", "exited"}
  /\ count \in 0 .. Limit + 1
  /\ extension \in VT .. (Limit + 1) * VT
  /\ timer \in 1 .. Interval
  /\ tick \in BOOLEAN
  /\ left \in 0 .. MaxVis
  /\ age \in 0 .. Horizon
  /\ applied \in Seq(Int)
  /\ cancelled \in BOOLEAN
  /\ faults \in 0 .. MaxFaults

\* While its renewals succeed, a message is not redelivered under its handler:
\* it stays hidden for all of the time the Limit + 1 renewals add up to.
HiddenWhileHandled ==
  (hpc = "handling" /\ ~backedOff /\ ~cancelled /\ faults = 0 /\ age < Guaranteed) => left > 0

\* A backoff is the last word on a message's visibility: once it was asked for,
\* no tick extends the message again.
BackoffIsLast == [][applied # << >> => left' <= left /\ applied' = applied]_vars

\* The visibility goroutine never leaks: it returns once the worker is done.
VMReturns == (hpc = "done") ~> (vmpc = "exited")

\* A requested backoff reaches the queue, unless shutdown or the extension
\* limit ended the goroutine first.
BackoffOrGone ==
  (backedOff /\ ~scheduled) ~> (applied # << >> \/ cancelled \/ count > Limit)

=============================================================================
