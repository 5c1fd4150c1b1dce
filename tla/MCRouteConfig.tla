---------------------------- MODULE MCRouteConfig ---------------------------
(***************************************************************************)
(* Arguments on both sides of every bound the options check.               *)
(***************************************************************************)
EXTENDS Setup

Cfg(i, d, n, b, m) == [identity |-> i, dlq |-> d, maxRetryCount |-> n, base |-> b, max |-> m]

MCScheduledConfigs ==
  {Cfg(TRUE, TRUE, 0, 1, 1),
   Cfg(TRUE, TRUE, 2147483647, 0, 86400000),
   Cfg(TRUE, TRUE, 3, 0, 999),
   Cfg(TRUE, TRUE, 3, 5000, 4000),
   Cfg(TRUE, TRUE, 3, 1000, 86400001),
   Cfg(TRUE, TRUE, -1, 1000, 2000),
   Cfg(FALSE, TRUE, 3, 1000, 2000),
   Cfg(TRUE, FALSE, 3, 1000, 2000)}

AnyModel == {0, 1, 2}
\* The Scheduled model is selected by WithScheduledRetry only.
NotScheduled == {0, 2}

MCMaxReceiveCounts == {0, 1}
MCVisibilityTimeouts == {-1, 10, 11, 12}
MCPoolSizes == {0, 1}
MCBatchSizes == {0, 1, 10, 11}
MCLimits == {-1, 0}
MCWaitTimes == {-1, 20, 21}
MCModes == {1, 2}
MCLists == {{0, 1}}
MCTimeouts == {0, 1}

\* Uints of two bits: no retry, two retries, and the limit no attempt exceeds.
MCRetryCounts == {2}
MCPingTimeouts == {0, 1}
MCPingRetryLimits == {0, 2, 3}
MCPlans == {<<"sqs">>, <<"sqs", "scheduler">>, <<"own", "scheduler">>, <<"own">>, <<"sns">>}

=============================================================================
