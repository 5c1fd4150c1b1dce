---------------------------- MODULE RouteConfig -----------------------------
(***************************************************************************)
(* From options to a running consumer: router.New with the options of      *)
(* router/options.go, the consumer made by consumer.New or by a broker     *)
(* with their options, the checks Run of consumer/consumer.go makes before *)
(* it polls, newDispatcher, and the first message that a worker takes      *)
(* through process or processScheduled.                                    *)
(*                                                                         *)
(* Options are applied in order and each sees what the earlier ones left.  *)
(* Durations are in milliseconds, timeouts in seconds.  Text (queue name,  *)
(* ARNs, URLs) is present or missing, and a list of names or middlewares   *)
(* is the set of its members.                                              *)
(***************************************************************************)
EXTENDS Integers

CONSTANTS RetryModels,         \* arguments of WithRetryModel
          ScheduledConfigs,    \* configurations WithScheduledRetry assembles
          MaxReceiveCounts,    \* arguments of WithDLQ
          VisibilityTimeouts,  \* arguments of WithVisibilityTimeout
          PoolSizes,           \* arguments of WithWorkerPoolSize
          BatchSizes,          \* arguments of WithMaxMessages
          Limits,              \* arguments of WithExtensionLimit
          WaitTimes,           \* arguments of WithWaitTimeSeconds
          Modes,               \* arguments of WithRunMode
          Lists,               \* arguments of WithCustomGroupFields and WithMiddleware
          Timeouts,            \* arguments of WithRetryTimeout and WithShutdownTimeout
          MaxOptions,          \* bound on the options given to router.New
          MaxRunnerOptions     \* bound on those given to consumer.New or broker.New

Parallel == 0
PerGroupID == 1

VisibilityRetryModel == 0
ScheduledRetryModel == 1

minBackoff == 1
maxBackoffGuard == 86400000
defaultBaseBackoff == 1000
maxMaxRetryCount == 2147483647
maxReceiveMessages == 10
maxWaitTimeSeconds == 20
minVisibilityTimeout == 11
visibilityRenewalMargin == 10

ScheduledConfig ==
  [identity : BOOLEAN, dlq : BOOLEAN, maxRetryCount : Int, base : Int, max : Int]

ASSUME RouteAssumption ==
  /\ RetryModels \subseteq Int
  /\ ScheduledConfigs \subseteq ScheduledConfig
  /\ MaxReceiveCounts \subseteq Int
  /\ VisibilityTimeouts \subseteq Int
  /\ PoolSizes \subseteq Int
  /\ BatchSizes \subseteq Int
  /\ Limits \subseteq Int
  /\ WaitTimes \subseteq Int
  /\ Modes \subseteq Int
  /\ Lists \subseteq SUBSET Nat
  /\ Timeouts \subseteq Int
  /\ MaxOptions \in Nat
  /\ MaxRunnerOptions \in Nat

VARIABLES pc,         \* where the set-up is
          route,      \* the Route under construction
          given,      \* kinds of the options applied so far (history)
          count,      \* options applied so far
          client,     \* the clients the application has: [sqs, batch, scheduler]
          runner,     \* the Consumer, or the Broker that makes it, under construction
          scheduler   \* the dispatcher has scheduledRetry, retryScheduler, dlqPublisher

routeVars == <<pc, route, given, count, client, runner, scheduler>>

\* No ScheduledRetryConfig.
Nil == {}

\* An empty field name, or a nil middleware, in a list.
Blank == 0

NotBlank(list) == list \ {Blank}

Defaults ==
  [workerPoolSize |-> 5, maxMessages |-> 10, waitTimeSeconds |-> 10, visibilityTimeout |-> 30,
   extensionLimit |-> 2, runMode |-> Parallel, customGroupFields |-> {}, middlewares |-> {},
   retryModel |-> VisibilityRetryModel, scheduledRetry |-> Nil, dlq |-> FALSE,
   deleteBatch |-> FALSE]

\* The fields of Consumer and Broker that options set; the logger is left out.
\* A shutdown timeout of 0 is none.
NoRunner ==
  [kind |-> "none", retryTimeout |-> 5, shutdownTimeout |-> 0, globalMiddlewares |-> {},
   scheduler |-> FALSE, metrics |-> FALSE]

\* New with a queue name and a handler, once the application has its clients.
RouteInit ==
  /\ pc = "clients"
  /\ route = Defaults
  /\ given = {}
  /\ count = 0
  /\ client = [sqs |-> FALSE, batch |-> FALSE, scheduler |-> FALSE]
  /\ runner = NoRunner
  /\ scheduler = FALSE

-----------------------------------------------------------------------------
(* router.New.                                                              *)

\* The next option is of the given kind: it is refused, which ends New with an
\* error, unless ok holds, and then it makes the route new.
Apply(kind, ok, new) ==
  /\ pc = "options"
  /\ count < MaxOptions
  /\ count' = count + 1
  /\ given' = given \cup {kind}
  /\ IF ok THEN route' = new /\ UNCHANGED pc ELSE pc' = "refused" /\ UNCHANGED route
  /\ UNCHANGED <<client, runner, scheduler>>

WithWorkerPoolSize(n) == Apply("pool", n >= 1, [route EXCEPT !.workerPoolSize = n])

WithMaxMessages(n) ==
  Apply("batchSize", 1 <= n /\ n <= maxReceiveMessages, [route EXCEPT !.maxMessages = n])

WithExtensionLimit(n) == Apply("limit", n >= 0, [route EXCEPT !.extensionLimit = n])

WithWaitTimeSeconds(n) ==
  Apply("wait", 0 <= n /\ n <= maxWaitTimeSeconds, [route EXCEPT !.waitTimeSeconds = n])

WithRunMode(m) == Apply("mode", m \in {Parallel, PerGroupID}, [route EXCEPT !.runMode = m])

\* The last list of fields counts, without its empty names.
WithCustomGroupFields(fs) ==
  Apply("fields", TRUE, [route EXCEPT !.customGroupFields = NotBlank(fs)])

\* Middlewares add up, without the nil ones.
WithMiddleware(mws) ==
  Apply("middleware", TRUE, [route EXCEPT !.middlewares = @ \cup NotBlank(mws)])

WithVisibilityTimeout(s) == Apply("visibility", TRUE, [route EXCEPT !.visibilityTimeout = s])

WithDeleteBatch == Apply("deleteBatch", TRUE, [route EXCEPT !.deleteBatch = TRUE])

WithRetryModel(m) ==
  Apply("model", m \in {VisibilityRetryModel, ScheduledRetryModel},
        [route EXCEPT !.retryModel = m])

\* Mutant: the conflict is seen in one order only.
WithDLQNoConflict(n) == Apply("dlq", n >= 1, [route EXCEPT !.dlq = TRUE])

WithDLQ(n) ==
  Apply("dlq", n >= 1 /\ route.scheduledRetry = Nil, [route EXCEPT !.dlq = TRUE])

WithinGuard(d) == minBackoff <= d /\ d <= maxBackoffGuard

\* Mutant: the two delays are checked one by one only.
ValidScheduledRetryApart(cfg) ==
  /\ ~route.dlq
  /\ cfg.identity
  /\ cfg.dlq
  /\ 0 <= cfg.maxRetryCount /\ cfg.maxRetryCount <= maxMaxRetryCount
  /\ WithinGuard(cfg.base)
  /\ WithinGuard(cfg.max)

\* validateScheduledRetry.
ValidScheduledRetry(cfg) ==
  /\ ~route.dlq
  /\ cfg.identity
  /\ cfg.dlq
  /\ 0 <= cfg.maxRetryCount /\ cfg.maxRetryCount <= maxMaxRetryCount
  /\ WithinGuard(cfg.base)
  /\ WithinGuard(cfg.max)
  /\ cfg.max >= cfg.base

\* The base delay defaults to a second when it is unset, before validation.
WithScheduledRetry(cfg) ==
  LET full == IF cfg.base = 0 THEN [cfg EXCEPT !.base = defaultBaseBackoff] ELSE cfg
  IN  Apply("scheduled", ValidScheduledRetry(full),
            [route EXCEPT !.retryModel = ScheduledRetryModel, !.scheduledRetry = {full}])

\* Every option is applied; the visibility timeout is clamped up.
Built ==
  /\ pc = "options"
  /\ pc' = "built"
  /\ route' = IF route.visibilityTimeout <= minVisibilityTimeout
                THEN [route EXCEPT !.visibilityTimeout = minVisibilityTimeout]
                ELSE route
  /\ count' = 0
  /\ UNCHANGED <<given, client, runner, scheduler>>

RouterNew ==
  \/ \E n \in PoolSizes : WithWorkerPoolSize(n)
  \/ \E n \in BatchSizes : WithMaxMessages(n)
  \/ \E n \in Limits : WithExtensionLimit(n)
  \/ \E n \in WaitTimes : WithWaitTimeSeconds(n)
  \/ \E m \in Modes : WithRunMode(m)
  \/ \E fs \in Lists : WithCustomGroupFields(fs)
  \/ \E mws \in Lists : WithMiddleware(mws)
  \/ \E s \in VisibilityTimeouts : WithVisibilityTimeout(s)
  \/ WithDeleteBatch
  \/ \E m \in RetryModels : WithRetryModel(m)
  \/ \E n \in MaxReceiveCounts : WithDLQ(n)
  \/ \E cfg \in ScheduledConfigs : WithScheduledRetry(cfg)
  \/ Built

-----------------------------------------------------------------------------
(* consumer.New and broker.New.                                             *)

\* Either needs an SQS client; the route is the one New returned.
NewRunner(kind) ==
  /\ pc = "built"
  /\ IF client.sqs THEN pc' = "runner" /\ runner' = [runner EXCEPT !.kind = kind]
                   ELSE pc' = "stopped" /\ UNCHANGED runner
  /\ UNCHANGED <<route, given, count, client, scheduler>>

\* The next option of a runner of one of these kinds; an invalid one ends its
\* construction.
RunnerOption(kinds, ok, new) ==
  /\ pc = "runner"
  /\ runner.kind \in kinds
  /\ count < MaxRunnerOptions
  /\ count' = count + 1
  /\ IF ok THEN runner' = new /\ UNCHANGED pc ELSE pc' = "stopped" /\ UNCHANGED runner
  /\ UNCHANGED <<route, given, client, scheduler>>

WithRetryTimeout(d) ==
  RunnerOption({"consumer", "broker"}, d > 0, [runner EXCEPT !.retryTimeout = d])

WithGlobalMiddleware(mws) ==
  RunnerOption({"consumer", "broker"}, TRUE,
               [runner EXCEPT !.globalMiddlewares = @ \cup NotBlank(mws)])

WithShutdownTimeout(d) == RunnerOption({"broker"}, d > 0, [runner EXCEPT !.shutdownTimeout = d])

\* A nil scheduler client or recorder is ignored.
WithSchedulerClient(nil) ==
  /\ nil \/ client.scheduler
  /\ RunnerOption({"consumer"}, TRUE, [runner EXCEPT !.scheduler = @ \/ ~nil])

WithMetrics(nil) == RunnerOption({"consumer"}, TRUE, [runner EXCEPT !.metrics = @ \/ ~nil])

\* What Run of the broker forwards to consumer.New: neither the scheduler client
\* nor the recorder.
Forward ==
  [NoRunner EXCEPT !.kind = "consumer", !.retryTimeout = runner.retryTimeout,
                   !.globalMiddlewares = runner.globalMiddlewares]

\* The consumer is complete; Run follows.
RunnerReady ==
  /\ pc = "runner"
  /\ pc' = "ready"
  /\ runner' = IF runner.kind = "broker" THEN Forward ELSE runner
  /\ UNCHANGED <<route, given, count, client, scheduler>>

Assemble ==
  \/ \E kind \in {"consumer", "broker"} : NewRunner(kind)
  \/ \E d \in Timeouts : WithRetryTimeout(d) \/ WithShutdownTimeout(d)
  \/ \E mws \in Lists : WithGlobalMiddleware(mws)
  \/ \E nil \in BOOLEAN : WithSchedulerClient(nil) \/ WithMetrics(nil)
  \/ RunnerReady

-----------------------------------------------------------------------------
(* consumer.Run up to its first message.                                    *)

Scheduled == route.retryModel = ScheduledRetryModel

\* Run fails fast: no scheduler client for a Scheduled-model route, or a
\* client that cannot batch deletes on a route that wants it.
RunRefuses ==
  /\ pc = "ready"
  /\ (Scheduled /\ ~runner.scheduler) \/ (route.deleteBatch /\ ~client.batch)
  /\ pc' = "stopped"
  /\ UNCHANGED <<route, given, count, client, runner, scheduler>>

\* newDispatcher: the collaborators of the Scheduled Retry model exist only
\* with that model, a configuration and a scheduler client.
RunStarts ==
  /\ pc = "ready"
  /\ Scheduled => runner.scheduler
  /\ route.deleteBatch => client.batch
  /\ scheduler' = (Scheduled /\ route.scheduledRetry # Nil /\ runner.scheduler)
  /\ pc' = "running"
  /\ UNCHANGED <<route, given, count, client, runner>>

\* The handler of the first message fails.  processScheduled reads
\* MaxRetryCount through d.scheduledRetry; nil ends the process.
FirstFailure ==
  /\ pc = "running"
  /\ pc' = IF Scheduled /\ ~scheduler THEN "panicked" ELSE "processed"
  /\ UNCHANGED <<route, given, count, client, runner, scheduler>>

RouteOver == pc \in {"refused", "stopped", "panicked", "processed"}

RouteNext == RouterNew \/ Assemble \/ RunRefuses \/ RunStarts \/ FirstFailure

-----------------------------------------------------------------------------

Accepted == pc \notin {"clients", "options", "refused"}

\* "Configuring both WithScheduledRetry and the observe-only WithDLQ on the
\* same route is a configuration error, regardless of option order", whatever
\* other options, a WithRetryModel that switches back included, come between.
DLQExclusive == Accepted => ~({"dlq", "scheduled"} \subseteq given)

\* What the poll loop, workerIndex, Chain, computeBackoff and the extension
\* ticker rely on holds of every route that New returns and of the consumer it
\* ends up in, by itself or under a broker: there are workers and room for a
\* batch, the run mode is known, no middleware is nil, the delays are ordered
\* and bounded, with the default filled in, and the extension interval and the
\* wait after a failed receive are positive.  A consumer that runs can batch the
\* deletes and schedule the retries its configuration asks for.
RouteUsable ==
  Accepted =>
    /\ route.workerPoolSize >= 1
    /\ route.maxMessages \in 1 .. maxReceiveMessages
    /\ route.waitTimeSeconds \in 0 .. maxWaitTimeSeconds
    /\ route.runMode \in {Parallel, PerGroupID}
    /\ Blank \notin route.customGroupFields \cup route.middlewares \cup runner.globalMiddlewares
    /\ runner.retryTimeout >= 1
    /\ pc = "running" => /\ route.deleteBatch => client.batch
                         /\ Scheduled /\ route.scheduledRetry # Nil => scheduler /\ client.scheduler
    /\ route.extensionLimit >= 0
    /\ \A cfg \in route.scheduledRetry :
         /\ WithinGuard(cfg.base) /\ WithinGuard(cfg.max)
         /\ cfg.base <= cfg.max
    /\ route.visibilityTimeout - visibilityRenewalMargin >= 1

\* "a misconfigured route is never built and consumption never starts for it":
\* no worker of a consumer that started runs into a missing collaborator.
NoPanic == pc # "panicked"

=============================================================================
