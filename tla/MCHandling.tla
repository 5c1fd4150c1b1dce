----------------------------- MODULE MCHandling -----------------------------
(***************************************************************************)
(* Two messages, two workers, two receives before the redrive; four ways   *)
(* to build the process.                                                   *)
(***************************************************************************)
EXTENDS Handling, TLC

CONSTANTS w1, w2, r1, r2

MCWorkers == {w1, w2}
MCRoutes == {r1, r2}

\* One route with both workers and both messages, nothing in its chain.
OneRoute ==
  [home |-> <<r1, r1>>, place |-> w1 :> r1 @@ w2 :> r1, global |-> << >>, own |-> << >>,
   perGroupID |-> FALSE, typed |-> FALSE, bad |-> {}, maxReceiveCount |-> 2, onDLQ |-> FALSE,
   foreign |-> {}]

\* A message group whose head may fail, Recovery outside Metrics.
Ordered ==
  [OneRoute EXCEPT !.perGroupID = TRUE, !.global = <<"recovery">>, !.own = <<"metrics">>]

\* Workers that compete, Recovery inside Metrics.
Concurrent == [OneRoute EXCEPT !.own = <<"metrics", "recovery">>,
                                !.typed = TRUE, !.bad = {1}]

\* Two consumers, typed handlers, one body that does not decode, no Recovery,
\* an OnDLQ callback: the process can die in both ways.
Mortal ==
  [OneRoute EXCEPT !.home = <<r1, r2>>, !.place = w1 :> r1 @@ w2 :> r2,
                   !.global = <<"otel">>, !.own = <<"logging">>,
                   !.typed = TRUE, !.bad = {2}, !.onDLQ = TRUE]

\* Two consumers that share the registry with an application that has taken
\* the gauge's name.
Sharing ==
  [OneRoute EXCEPT !.home = <<r1, r2>>, !.place = w1 :> r1 @@ w2 :> r2,
                   !.global = <<"recovery">>, !.own = <<"metrics">>,
                   !.typed = TRUE, !.bad = {1, 2}, !.maxReceiveCount = 0,
                   !.foreign = {"inflight"}]

MCConfigs == {Ordered, Concurrent, Mortal, Sharing}

=============================================================================
