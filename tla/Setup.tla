------------------------------- MODULE Setup --------------------------------
(***************************************************************************)
(* An application from its connection to its first failing message: it     *)
(* makes its clients (ClientSetup), then a route and the consumer or       *)
(* broker that runs it with those clients (RouteConfig).                   *)
(***************************************************************************)
EXTENDS ClientSetup, RouteConfig

vars == <<clientVars, routeVars>>

Init == ClientInit /\ RouteInit

\* The application has its clients and goes on to its route.  An SQS client of
\* the library can batch deletes; one of the application's own need not.
HandOver ==
  /\ stage = "next"
  /\ plan = << >>
  /\ stage' = "ready"
  /\ cfg' = NoConfig
  /\ cancelled' = FALSE
  /\ clients' = {}
  /\ pc' = "options"
  /\ client' = [sqs |-> clients \cap {"sqs", "own"} # {}, batch |-> "sqs" \in clients,
                scheduler |-> "scheduler" \in clients]
  /\ UNCHANGED <<conn, plan, ping, applied, attempt, expired, route, given, count, runner, scheduler>>

\* The application gave up, was refused, or its first message is through.
Over == (stage = "failed" \/ RouteOver) /\ UNCHANGED vars

Next ==
  \/ ClientNext /\ UNCHANGED routeVars
  \/ HandOver
  \/ RouteNext /\ UNCHANGED clientVars
  \/ Over

Spec == Init /\ [][Next]_vars /\ ClientFairness

=============================================================================
