------------------------------- MODULE Broker -------------------------------
(***************************************************************************)
(* broker/broker.go: Run starts one consumer goroutine per route under a   *)
(* child context, keeps the first error, cancels everything on any error,  *)
(* and waits for the consumers, with or without a shutdown timeout.        *)
(*                                                                         *)
(* A consumer is seen from outside: Run of consumer/consumer.go fails      *)
(* before it polls, or polls until its context is canceled, drains, and    *)
(* returns nil.  A route is its position; an error is the route it is of.  *)
(***************************************************************************)
EXTENDS Naturals, Sequences

CONSTANTS R,           \* number of routes
          NilRoutes,   \* routes that may be nil, which consumer.New refuses
          FailRoutes,  \* routes whose consumer may fail to start
          Timeouts,    \* whether WithShutdownTimeout may be, or not be, configured
          StuckRoutes  \* routes whose consumer may never finish draining

Routes == 1 .. R

ASSUME BrokerAssumption ==
  /\ R \in Nat \ {0}
  /\ NilRoutes \subseteq Routes
  /\ FailRoutes \subseteq Routes
  /\ StuckRoutes \subseteq Routes
  /\ Timeouts \subseteq BOOLEAN

NoError == 0

VARIABLES timeout,   \* a shutdown timeout is configured
          outer,     \* the caller canceled the context given to Run
          ctx,       \* the child context is canceled
          bpc,       \* where Run is
          next,      \* the route the start loop is at
          cpc,       \* route -> where its consumer goroutine is
          firstErr,  \* the shared variable of Run
          errors,    \* every error passed to setErr, in order (history)
          result     \* what Run returned

vars == <<timeout, outer, ctx, bpc, next, cpc, firstErr, errors, result>>

Init ==
  /\ timeout \in Timeouts
  /\ outer = FALSE
  /\ ctx = FALSE
  /\ bpc = "loop"
  /\ next = 1
  /\ cpc = [r \in Routes |-> "none"]
  /\ firstErr = NoError
  /\ errors = << >>
  /\ result = NoError

\* Mutant: a later error replaces the first one.
SetErrLast(r) ==
  /\ firstErr' = r
  /\ errors' = Append(errors, r)

\* setErr, under the mutex: the first error stays.
SetErr(r) ==
  /\ firstErr' = IF firstErr = NoError THEN r ELSE firstErr
  /\ errors' = Append(errors, r)

-----------------------------------------------------------------------------
(* The goroutine of Run.                                                    *)

\* consumer.New succeeds; the consumer goroutine starts.
StartConsumer ==
  /\ bpc = "loop"
  /\ next <= R
  /\ cpc' = [cpc EXCEPT ![next] = "starting"]
  /\ next' = next + 1
  /\ UNCHANGED <<timeout, outer, ctx, bpc, firstErr, errors, result>>

\* consumer.New fails: setErr, cancel, break.
RejectRoute ==
  /\ bpc = "loop"
  /\ next <= R
  /\ next \in NilRoutes
  /\ SetErr(next)
  /\ ctx' = TRUE
  /\ bpc' = "wait"
  /\ UNCHANGED <<timeout, outer, next, cpc, result>>

\* Every route has its consumer; waitForConsumers follows, and from here on
\* the timer of a configured shutdown timeout is running.
AllStarted ==
  /\ bpc = "loop"
  /\ next > R
  /\ bpc' = "wait"
  /\ UNCHANGED <<timeout, outer, ctx, next, cpc, firstErr, errors, result>>

\* wg.Wait() holds: no consumer goroutine is left.
AllDone == \A r \in Routes : cpc[r] \in {"none", "done"}

\* Mutant: the deferred cancel is missing.
ReturnNoCancel ==
  /\ bpc' = "returned"
  /\ result' = firstErr
  /\ UNCHANGED <<timeout, outer, ctx, next, cpc, firstErr, errors>>

\* Run returns firstErr, and its deferred cancel cancels the child context.
ReturnFirstErr ==
  /\ bpc' = "returned"
  /\ result' = firstErr
  /\ ctx' = TRUE
  /\ UNCHANGED <<timeout, outer, next, cpc, firstErr, errors>>

\* Mutant: the wait ends once the consumers are told to stop.
ReturnDoneEarly ==
  /\ bpc = "wait"
  /\ ctx
  /\ ReturnFirstErr

\* waitForConsumers, the done case.
ReturnDone ==
  /\ bpc = "wait"
  /\ AllDone
  /\ ReturnFirstErr

\* Mutant: the wait goes on after the timer fired.
ReturnTimeoutWaits ==
  /\ bpc = "wait"
  /\ timeout
  /\ AllDone
  /\ ReturnFirstErr

\* waitForConsumers, the timer case: the timer started with the wait, not
\* with the cancellation, so this needs neither ctx nor outer.
ReturnTimeout ==
  /\ bpc = "wait"
  /\ timeout
  /\ ReturnFirstErr

Run ==
  \/ StartConsumer
  \/ RejectRoute
  \/ AllStarted
  \/ ReturnDone
  \/ ReturnTimeout

-----------------------------------------------------------------------------
(* A consumer goroutine.                                                    *)

\* Run of the consumer fails before it polls, by itself or because the context
\* it resolves the queue URL under is canceled: setErr ...
ConsumerFails(r) ==
  /\ cpc[r] = "starting"
  /\ r \in FailRoutes \/ ctx
  /\ SetErr(r)
  /\ cpc' = [cpc EXCEPT ![r] = "failed"]
  /\ UNCHANGED <<timeout, outer, ctx, bpc, next, result>>

\* Mutant: a consumer's error does not stop the others.
FailFastNoCancel(r) ==
  /\ cpc[r] = "failed"
  /\ cpc' = [cpc EXCEPT ![r] = "done"]
  /\ UNCHANGED <<timeout, outer, ctx, bpc, next, firstErr, errors, result>>

\* ... and then cancel, both before wg.Done.
FailFast(r) ==
  /\ cpc[r] = "failed"
  /\ ctx' = TRUE
  /\ cpc' = [cpc EXCEPT ![r] = "done"]
  /\ UNCHANGED <<timeout, outer, bpc, next, firstErr, errors, result>>

StartPolling(r) ==
  /\ cpc[r] = "starting"
  /\ cpc' = [cpc EXCEPT ![r] = "polling"]
  /\ UNCHANGED <<timeout, outer, ctx, bpc, next, firstErr, errors, result>>

\* Polling ends only by cancellation.
StopPolling(r) ==
  /\ cpc[r] = "polling"
  /\ ctx
  /\ cpc' = [cpc EXCEPT ![r] = "draining"]
  /\ UNCHANGED <<timeout, outer, ctx, bpc, next, firstErr, errors, result>>

\* The consumer's in-flight work is done and its Run returned nil.
Drained(r) ==
  /\ cpc[r] = "draining"
  /\ cpc' = [cpc EXCEPT ![r] = "done"]
  /\ UNCHANGED <<timeout, outer, ctx, bpc, next, firstErr, errors, result>>

\* A handler does not return: the drain never ends.
GetStuck(r) ==
  /\ cpc[r] = "draining"
  /\ r \in StuckRoutes
  /\ cpc' = [cpc EXCEPT ![r] = "stuck"]
  /\ UNCHANGED <<timeout, outer, ctx, bpc, next, firstErr, errors, result>>

Consumer(r) ==
  \/ ConsumerFails(r)
  \/ FailFast(r)
  \/ StartPolling(r)
  \/ StopPolling(r)
  \/ Drained(r)
  \/ GetStuck(r)

-----------------------------------------------------------------------------

\* The caller cancels the context of Run, and with it the child context.
Cancel ==
  /\ ~outer
  /\ bpc # "returned"
  /\ outer' = TRUE
  /\ ctx' = TRUE
  /\ UNCHANGED <<timeout, bpc, next, cpc, firstErr, errors, result>>

\* A consumer that came to rest: it was never started, ended, or is stuck.
AtRest(r) == cpc[r] \in {"none", "done", "stuck"}

\* Nothing is left to run: Run has returned, or it waits for a stuck consumer.
Over ==
  /\ \A r \in Routes : AtRest(r)
  /\ bpc = "returned" \/ (bpc = "wait" /\ ~timeout /\ ~AllDone)
  /\ UNCHANGED vars

Next ==
  \/ Run
  \/ \E r \in Routes : Consumer(r)
  \/ Cancel
  \/ Over

Spec == Init /\ [][Next]_vars

\* Run and the consumers are scheduled, and a configured timer fires.  Nothing
\* obliges the caller to cancel.
Fairness ==
  /\ WF_vars(Run)
  /\ \A r \in Routes : WF_vars(Consumer(r))

FairSpec == Spec /\ Fairness

-----------------------------------------------------------------------------

\* Every variable of Run and of its consumer goroutines has its type; the start
\* loop stops at the last route.
TypeOK ==
  /\ timeout \in Timeouts
  /\ outer \in BOOLEAN
  /\ ctx \in BOOLEAN
  /\ bpc \in {"loop", "wait", "returned"}
  /\ next \in 1 .. R + 1
  /\ cpc \in [Routes -> {"none", "starting", "polling", "draining", "stuck", "failed", "done"}]
  /\ firstErr \in Routes \cup {NoError}
  /\ errors \in Seq(Routes)
  /\ result \in Routes \cup {NoError}

\* "the broker records the first such error ... that first error is returned":
\* with several consumers failing at once, Run returns the earliest error.
FirstErrorReturned ==
  (bpc = "returned" /\ result # NoError) => result = errors[1]

\* Without a shutdown timeout Run never abandons a consumer: it returns when
\* every consumer goroutine it started is done, and then with the first error
\* if there was any, or else nil because the caller canceled.
CleanReturn ==
  (bpc = "returned" /\ ~timeout) =>
    /\ AllDone
    /\ IF errors = << >> THEN result = NoError /\ outer ELSE result = errors[1]

\* WithShutdownTimeout is "the maximum time Run waits for in-flight consumers
\* to finish after the context is canceled": Run does not return while its
\* consumers run and nobody canceled or failed.
TimeoutAfterCancel == (bpc = "returned" /\ ~AllDone) => outer \/ errors # << >>

\* "fails fast": an error stops every consumer, whatever stage it is in.
FailFastStops == (errors # << >>) ~> (\A r \in Routes : AtRest(r))

\* After cancellation Run returns: unless a consumer is stuck, and with a
\* shutdown timeout even then.
ShutdownReturns ==
  outer ~> (bpc = "returned" \/ (~timeout /\ \E r \in Routes : cpc[r] = "stuck"))

\* No consumer outlives Run for good, whether it was abandoned or not.
NoConsumerLeft == (bpc = "returned") ~> (\A r \in Routes : AtRest(r))

=============================================================================
