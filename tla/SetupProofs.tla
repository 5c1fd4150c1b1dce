---------------------------- MODULE SetupProofs ----------------------------
(***************************************************************************)
(* What router.New, the constructors of the runners and consumer.Run       *)
(* guarantee of a route, for any options in any order and number.          *)
(***************************************************************************)
EXTENDS Setup, TLAPS

\* A configuration that validateScheduledRetry lets through.
ValidConfigs ==
  {c \in ScheduledConfig : WithinGuard(c.base) /\ WithinGuard(c.max) /\ c.base <= c.max}

\* What the options leave of a route.
RouteRecords ==
  [workerPoolSize : Nat \ {0}, maxMessages : 1 .. maxReceiveMessages,
   waitTimeSeconds : 0 .. maxWaitTimeSeconds, visibilityTimeout : Int, extensionLimit : Nat,
   runMode : {Parallel, PerGroupID}, customGroupFields : SUBSET (Nat \ {Blank}),
   middlewares : SUBSET (Nat \ {Blank}), retryModel : {VisibilityRetryModel, ScheduledRetryModel},
   scheduledRetry : SUBSET ValidConfigs, dlq : BOOLEAN, deleteBatch : BOOLEAN]

RunnerRecords ==
  [kind : {"none", "consumer", "broker"}, retryTimeout : Nat \ {0}, shutdownTimeout : Nat,
   globalMiddlewares : SUBSET (Nat \ {Blank}), scheduler : BOOLEAN, metrics : BOOLEAN]

\* What a route r has of the options in g: one of the two that exclude each
\* other at most.
Chosen(r, g) ==
  /\ "dlq" \in g <=> r.dlq
  /\ "scheduled" \in g <=> r.scheduledRetry # Nil
  /\ ~(r.dlq /\ r.scheduledRetry # Nil)

\* A route that goes its way has what its options asked for, and a runner has
\* the clients of its application only.
Inv ==
  /\ pc \in {"clients", "options", "refused", "built", "runner", "ready", "stopped", "running",
             "panicked", "processed"}
  /\ stage # "ready" => RouteInit
  /\ route \in RouteRecords
  /\ runner \in RunnerRecords
  /\ client \in [sqs : BOOLEAN, batch : BOOLEAN, scheduler : BOOLEAN]
  /\ pc # "refused" => Chosen(route, given)
  /\ Accepted => route.visibilityTimeout >= minVisibilityTimeout
  /\ runner.scheduler => client.scheduler
  /\ pc = "running" => /\ route.deleteBatch => client.batch
                       /\ Scheduled /\ route.scheduledRetry # Nil => scheduler /\ client.scheduler

\* The Scheduled model is the one of a scheduled retry.
Paired ==
  /\ Scheduled => route.scheduledRetry # Nil
  /\ pc = "running" /\ Scheduled => scheduler
  /\ NoPanic

-----------------------------------------------------------------------------
(* The options of a route.                                                  *)

\* The constants that bound a route.
LEMMA Numbers ==
  /\ maxReceiveMessages = 10 /\ maxWaitTimeSeconds = 20 /\ minVisibilityTimeout = 11
  /\ Parallel = 0 /\ PerGroupID = 1 /\ Blank = 0 /\ Nil = {}
  /\ VisibilityRetryModel = 0 /\ ScheduledRetryModel = 1
  BY DEF maxReceiveMessages, maxWaitTimeSeconds, minVisibilityTimeout, Parallel, PerGroupID, Blank,
         Nil, VisibilityRetryModel, ScheduledRetryModel

\* The route New begins with.
LEMMA DefaultsType == Defaults \in RouteRecords /\ Chosen(Defaults, {})
  BY Numbers DEF Defaults, RouteRecords, Chosen

\* An option that Apply takes or refuses keeps the invariant when the route it
\* makes is sound.
LEMMA OptionStep ==
  ASSUME Inv, NEW kind, pc = "options", given' = given \cup {kind},
         \/ pc' = "refused" /\ UNCHANGED route
         \/ UNCHANGED pc /\ route' \in RouteRecords /\ Chosen(route', given'),
         UNCHANGED <<client, runner, scheduler, clientVars>>
  PROVE  Inv'
<1>1. stage' = stage /\ stage = "ready"
  BY DEF Inv, clientVars, RouteInit
<1> QED
  BY <1>1 DEF Inv, Accepted

\* An option that has no part in what excludes what.
LEMMA PlainStep ==
  ASSUME Inv, UNCHANGED clientVars, NEW kind, kind # "dlq", kind # "scheduled",
         NEW ok \in BOOLEAN, NEW new, Apply(kind, ok, new),
         ok => /\ new \in RouteRecords
               /\ new.dlq = route.dlq /\ new.scheduledRetry = route.scheduledRetry
  PROVE  Inv'
<1>1. /\ pc = "options" /\ given' = given \cup {kind} /\ UNCHANGED <<client, runner, scheduler>>
      /\ \/ ok /\ route' = new /\ UNCHANGED pc
         \/ ~ok /\ pc' = "refused" /\ UNCHANGED route
  BY DEF Apply
<1>2. Chosen(route, given)
  BY <1>1 DEF Inv
<1>3. ok => Chosen(new, given')
  BY <1>1, <1>2 DEF Chosen
<1> QED
  BY <1>1, <1>3, OptionStep

\* The options that set a number.
LEMMA NumberStep ==
  ASSUME Inv, UNCHANGED clientVars,
         \/ \E n \in PoolSizes : WithWorkerPoolSize(n)
         \/ \E n \in BatchSizes : WithMaxMessages(n)
         \/ \E n \in Limits : WithExtensionLimit(n)
         \/ \E n \in WaitTimes : WithWaitTimeSeconds(n)
         \/ \E s \in VisibilityTimeouts : WithVisibilityTimeout(s)
  PROVE  Inv'
<1> USE Numbers
<1>1. route \in RouteRecords
  BY DEF Inv
<1>2. ASSUME NEW n \in PoolSizes, WithWorkerPoolSize(n)
      PROVE  Inv'
  <2> DEFINE new == [route EXCEPT !.workerPoolSize = n]
             ok == n >= 1
  <2>1. n \in Int
    BY RouteAssumption
  <2>2. ok => /\ new \in RouteRecords
              /\ new.dlq = route.dlq /\ new.scheduledRetry = route.scheduledRetry
    BY <1>1, <2>1 DEF RouteRecords
  <2>3. Apply("pool", ok, new) /\ ok \in BOOLEAN
    BY <1>2 DEF WithWorkerPoolSize
  <2>4. "pool" # "dlq" /\ "pool" # "scheduled"
    OBVIOUS
  <2> HIDE DEF ok, new
  <2> QED
    BY <2>2, <2>3, <2>4, PlainStep, Zenon
<1>3. ASSUME NEW n \in BatchSizes, WithMaxMessages(n)
      PROVE  Inv'
  <2> DEFINE new == [route EXCEPT !.maxMessages = n]
             ok == 1 <= n /\ n <= maxReceiveMessages
  <2>1. n \in Int
    BY RouteAssumption
  <2>2. ok => /\ new \in RouteRecords
              /\ new.dlq = route.dlq /\ new.scheduledRetry = route.scheduledRetry
    BY <1>1, <2>1 DEF RouteRecords
  <2>3. Apply("batchSize", ok, new) /\ ok \in BOOLEAN
    BY <1>3 DEF WithMaxMessages
  <2>4. "batchSize" # "dlq" /\ "batchSize" # "scheduled"
    OBVIOUS
  <2> HIDE DEF ok, new
  <2> QED
    BY <2>2, <2>3, <2>4, PlainStep, Zenon
<1>4. ASSUME NEW n \in Limits, WithExtensionLimit(n)
      PROVE  Inv'
  <2> DEFINE new == [route EXCEPT !.extensionLimit = n]
             ok == n >= 0
  <2>1. n \in Int
    BY RouteAssumption
  <2>2. ok => /\ new \in RouteRecords
              /\ new.dlq = route.dlq /\ new.scheduledRetry = route.scheduledRetry
    BY <1>1, <2>1 DEF RouteRecords
  <2>3. Apply("limit", ok, new) /\ ok \in BOOLEAN
    BY <1>4 DEF WithExtensionLimit
  <2>4. "limit" # "dlq" /\ "limit" # "scheduled"
    OBVIOUS
  <2> HIDE DEF ok, new
  <2> QED
    BY <2>2, <2>3, <2>4, PlainStep, Zenon
<1>5. ASSUME NEW n \in WaitTimes, WithWaitTimeSeconds(n)
      PROVE  Inv'
  <2> DEFINE new == [route EXCEPT !.waitTimeSeconds = n]
             ok == 0 <= n /\ n <= maxWaitTimeSeconds
  <2>1. n \in Int
    BY RouteAssumption
  <2>2. ok => /\ new \in RouteRecords
              /\ new.dlq = route.dlq /\ new.scheduledRetry = route.scheduledRetry
    BY <1>1, <2>1 DEF RouteRecords
  <2>3. Apply("wait", ok, new) /\ ok \in BOOLEAN
    BY <1>5 DEF WithWaitTimeSeconds
  <2>4. "wait" # "dlq" /\ "wait" # "scheduled"
    OBVIOUS
  <2> HIDE DEF ok, new
  <2> QED
    BY <2>2, <2>3, <2>4, PlainStep, Zenon
<1>6. ASSUME NEW s \in VisibilityTimeouts, WithVisibilityTimeout(s)
      PROVE  Inv'
  <2> DEFINE new == [route EXCEPT !.visibilityTimeout = s]
             ok == TRUE
  <2>1. s \in Int
    BY RouteAssumption
  <2>2. ok => /\ new \in RouteRecords
              /\ new.dlq = route.dlq /\ new.scheduledRetry = route.scheduledRetry
    BY <1>1, <2>1 DEF RouteRecords
  <2>3. Apply("visibility", ok, new) /\ ok \in BOOLEAN
    BY <1>6 DEF WithVisibilityTimeout
  <2>4. "visibility" # "dlq" /\ "visibility" # "scheduled"
    OBVIOUS
  <2> HIDE DEF ok, new
  <2> QED
    BY <2>2, <2>3, <2>4, PlainStep, Zenon
<1> QED
  BY <1>2, <1>3, <1>4, <1>5, <1>6

\* The options that set the run mode, the lists, the model and the batching.
LEMMA ChoiceStep ==
  ASSUME Inv, UNCHANGED clientVars,
         \/ \E m \in Modes : WithRunMode(m)
         \/ \E fs \in Lists : WithCustomGroupFields(fs)
         \/ \E mws \in Lists : WithMiddleware(mws)
         \/ \E m \in RetryModels : WithRetryModel(m)
         \/ WithDeleteBatch
  PROVE  Inv'
<1> USE Numbers
<1>1. route \in RouteRecords
  BY DEF Inv
<1>2. ASSUME NEW m \in Modes, WithRunMode(m)
      PROVE  Inv'
  <2> DEFINE new == [route EXCEPT !.runMode = m]
             ok == m \in {Parallel, PerGroupID}
  <2>1. m \in Int
    BY RouteAssumption
  <2>2. ok => /\ new \in RouteRecords
              /\ new.dlq = route.dlq /\ new.scheduledRetry = route.scheduledRetry
    BY <1>1, <2>1 DEF RouteRecords
  <2>3. Apply("mode", ok, new) /\ ok \in BOOLEAN
    BY <1>2 DEF WithRunMode
  <2>4. "mode" # "dlq" /\ "mode" # "scheduled"
    OBVIOUS
  <2> HIDE DEF ok, new
  <2> QED
    BY <2>2, <2>3, <2>4, PlainStep, Zenon
<1>3. ASSUME NEW fs \in Lists, WithCustomGroupFields(fs)
      PROVE  Inv'
  <2> DEFINE new == [route EXCEPT !.customGroupFields = NotBlank(fs)]
             ok == TRUE
  <2>1. fs \subseteq Nat
    BY RouteAssumption
  <2>2. ok => /\ new \in RouteRecords
              /\ new.dlq = route.dlq /\ new.scheduledRetry = route.scheduledRetry
    BY <1>1, <2>1 DEF RouteRecords, NotBlank
  <2>3. Apply("fields", ok, new) /\ ok \in BOOLEAN
    BY <1>3 DEF WithCustomGroupFields
  <2>4. "fields" # "dlq" /\ "fields" # "scheduled"
    OBVIOUS
  <2> HIDE DEF ok, new
  <2> QED
    BY <2>2, <2>3, <2>4, PlainStep, Zenon
<1>4. ASSUME NEW mws \in Lists, WithMiddleware(mws)
      PROVE  Inv'
  <2> DEFINE new == [route EXCEPT !.middlewares = @ \cup NotBlank(mws)]
             ok == TRUE
  <2>1. mws \subseteq Nat
    BY RouteAssumption
  <2>2. ok => /\ new \in RouteRecords
              /\ new.dlq = route.dlq /\ new.scheduledRetry = route.scheduledRetry
    BY <1>1, <2>1 DEF RouteRecords, NotBlank
  <2>3. Apply("middleware", ok, new) /\ ok \in BOOLEAN
    BY <1>4 DEF WithMiddleware
  <2>4. "middleware" # "dlq" /\ "middleware" # "scheduled"
    OBVIOUS
  <2> HIDE DEF ok, new
  <2> QED
    BY <2>2, <2>3, <2>4, PlainStep, Zenon
<1>5. ASSUME NEW m \in RetryModels, WithRetryModel(m)
      PROVE  Inv'
  <2> DEFINE new == [route EXCEPT !.retryModel = m]
             ok == m \in {VisibilityRetryModel, ScheduledRetryModel}
  <2>1. m \in Int
    BY RouteAssumption
  <2>2. ok => /\ new \in RouteRecords
              /\ new.dlq = route.dlq /\ new.scheduledRetry = route.scheduledRetry
    BY <1>1, <2>1 DEF RouteRecords
  <2>3. Apply("model", ok, new) /\ ok \in BOOLEAN
    BY <1>5 DEF WithRetryModel
  <2>4. "model" # "dlq" /\ "model" # "scheduled"
    OBVIOUS
  <2> HIDE DEF ok, new
  <2> QED
    BY <2>2, <2>3, <2>4, PlainStep, Zenon
<1>6. ASSUME WithDeleteBatch
      PROVE  Inv'
  <2> DEFINE new == [route EXCEPT !.deleteBatch = TRUE]
             ok == TRUE
  <2>1. ok => /\ new \in RouteRecords
              /\ new.dlq = route.dlq /\ new.scheduledRetry = route.scheduledRetry
    BY <1>1 DEF RouteRecords
  <2>2. Apply("deleteBatch", ok, new) /\ ok \in BOOLEAN
    BY <1>6 DEF WithDeleteBatch
  <2>3. "deleteBatch" # "dlq" /\ "deleteBatch" # "scheduled"
    OBVIOUS
  <2> HIDE DEF ok, new
  <2> QED
    BY <2>1, <2>2, <2>3, PlainStep, Zenon
<1> QED
  BY <1>2, <1>3, <1>4, <1>5, <1>6

\* The two options that exclude each other: either is refused once the other is
\* given.
LEMMA ExclusiveStep ==
  ASSUME Inv, UNCHANGED clientVars,
         \/ \E n \in MaxReceiveCounts : WithDLQ(n)
         \/ \E c \in ScheduledConfigs : WithScheduledRetry(c)
  PROVE  Inv'
<1> USE Numbers
<1>1. route \in RouteRecords /\ (pc = "options" => Chosen(route, given))
  BY DEF Inv
<1>2. ASSUME NEW n \in MaxReceiveCounts, WithDLQ(n)
      PROVE  Inv'
  <2> DEFINE new == [route EXCEPT !.dlq = TRUE]
  <2>1. /\ pc = "options" /\ given' = given \cup {"dlq"} /\ UNCHANGED <<client, runner, scheduler>>
        /\ \/ route.scheduledRetry = Nil /\ route' = new /\ UNCHANGED pc
           \/ pc' = "refused" /\ UNCHANGED route
    BY <1>2 DEF WithDLQ, Apply
  <2>2. /\ new \in RouteRecords /\ new.dlq
        /\ new.scheduledRetry = route.scheduledRetry
    BY <1>1 DEF RouteRecords
  <2>3. route.scheduledRetry = Nil => Chosen(new, given')
    BY <1>1, <2>1, <2>2 DEF Chosen
  <2> HIDE DEF new
  <2> QED
    BY <2>1, <2>2, <2>3, OptionStep
<1>3. ASSUME NEW c \in ScheduledConfigs, WithScheduledRetry(c)
      PROVE  Inv'
  <2> DEFINE full == IF c.base = 0 THEN [c EXCEPT !.base = defaultBaseBackoff] ELSE c
             new == [route EXCEPT !.retryModel = ScheduledRetryModel, !.scheduledRetry = {full}]
  <2>1. /\ pc = "options" /\ given' = given \cup {"scheduled"}
        /\ UNCHANGED <<client, runner, scheduler>>
        /\ \/ ValidScheduledRetry(full) /\ route' = new /\ UNCHANGED pc
           \/ pc' = "refused" /\ UNCHANGED route
    BY <1>3 DEF WithScheduledRetry, Apply
  <2>2. full \in ScheduledConfig
    BY RouteAssumption DEF ScheduledConfig, defaultBaseBackoff
  <2>3. ValidScheduledRetry(full) => full \in ValidConfigs /\ ~route.dlq
    BY <2>2 DEF ValidScheduledRetry, ValidConfigs, ScheduledConfig, WithinGuard
  <2> HIDE DEF full
  <2>4. ValidScheduledRetry(full) => /\ new \in RouteRecords /\ new.dlq = route.dlq
                                     /\ new.scheduledRetry # Nil
    BY <1>1, <2>3 DEF RouteRecords
  <2>5. ValidScheduledRetry(full) => Chosen(new, given')
    BY <1>1, <2>1, <2>3, <2>4 DEF Chosen
  <2> HIDE DEF new
  <2> QED
    BY <2>1, <2>4, <2>5, OptionStep
<1> QED
  BY <1>2, <1>3

\* router.New returns its route.
LEMMA BuiltStep ==
  ASSUME Inv, UNCHANGED clientVars, Built
  PROVE  Inv'
<1> USE Numbers
<1>1. /\ pc = "options" /\ pc' = "built" /\ UNCHANGED <<given, client, runner, scheduler>>
      /\ route' = IF route.visibilityTimeout <= minVisibilityTimeout
                    THEN [route EXCEPT !.visibilityTimeout = minVisibilityTimeout] ELSE route
  BY DEF Built
<1>2. /\ route \in RouteRecords /\ Chosen(route, given) /\ stage' = stage /\ stage = "ready"
      /\ route.visibilityTimeout \in Int
  BY <1>1 DEF Inv, RouteInit, clientVars, RouteRecords
<1>3. /\ route' \in RouteRecords /\ route'.visibilityTimeout >= minVisibilityTimeout
      /\ route'.dlq = route.dlq /\ route'.scheduledRetry = route.scheduledRetry
  BY <1>1, <1>2 DEF RouteRecords
<1>4. Chosen(route', given')
  BY <1>1, <1>2, <1>3 DEF Chosen
<1> QED
  BY <1>1, <1>2, <1>3, <1>4 DEF Inv

-----------------------------------------------------------------------------
(* The runner and its first message.                                        *)

\* Once New has returned, what is left to do changes neither the route nor the
\* clients, and the runner only within what its constructor checks.
LEMMA AfterNew ==
  ASSUME Inv, UNCHANGED <<clientVars, route, given, client>>, Accepted,
         pc' \in {"built", "runner", "ready", "stopped", "running", "panicked", "processed"},
         runner' \in RunnerRecords, runner'.scheduler => client.scheduler,
         pc' = "running" => /\ route.deleteBatch => client.batch
                            /\ Scheduled /\ route.scheduledRetry # Nil => scheduler' /\ client.scheduler
  PROVE  Inv'
<1>1. /\ stage' = stage /\ stage = "ready" /\ pc # "refused" /\ Accepted'
      /\ route' = route /\ given' = given /\ client' = client
  BY DEF Inv, RouteInit, clientVars, Accepted
<1> QED
  BY <1>1 DEF Inv, Scheduled

\* An option of the runner.
LEMMA RunnerOptionStep ==
  ASSUME Inv, UNCHANGED clientVars, NEW kinds, NEW ok \in BOOLEAN, NEW new,
         RunnerOption(kinds, ok, new),
         ok => new \in RunnerRecords /\ (new.scheduler => client.scheduler)
  PROVE  Inv'
<1>1. /\ pc = "runner" /\ pc' \in {"runner", "stopped"} /\ UNCHANGED <<route, given, client, scheduler>>
      /\ (ok /\ runner' = new) \/ runner' = runner
  BY DEF RunnerOption
<1>2. runner \in RunnerRecords /\ (runner.scheduler => client.scheduler)
  BY DEF Inv
<1>3. Accepted /\ runner' \in RunnerRecords /\ (runner'.scheduler => client.scheduler)
  BY <1>1, <1>2 DEF Accepted
<1> QED
  BY <1>1, <1>3, AfterNew

\* Every option of consumer.New and broker.New, their checks, and what the
\* broker forwards.
LEMMA AssembleStep ==
  ASSUME Inv, UNCHANGED clientVars, Assemble
  PROVE  Inv'
<1> USE Numbers
<1>1. /\ runner \in RunnerRecords /\ (runner.scheduler => client.scheduler)
      /\ client \in [sqs : BOOLEAN, batch : BOOLEAN, scheduler : BOOLEAN]
  BY DEF Inv
<1>2. ASSUME NEW kind \in {"consumer", "broker"}, NewRunner(kind)
      PROVE  Inv'
  <2>1. /\ pc = "built" /\ pc' \in {"runner", "stopped"}
        /\ UNCHANGED <<route, given, client, scheduler>>
        /\ runner' = [runner EXCEPT !.kind = kind] \/ runner' = runner
    BY <1>2 DEF NewRunner
  <2>2. Accepted /\ runner' \in RunnerRecords /\ (runner'.scheduler => client.scheduler)
    BY <1>1, <2>1 DEF Accepted, RunnerRecords
  <2> QED
    BY <2>1, <2>2, AfterNew
<1>3. ASSUME NEW d \in Timeouts, WithRetryTimeout(d) \/ WithShutdownTimeout(d)
      PROVE  Inv'
  <2> DEFINE retry == [runner EXCEPT !.retryTimeout = d]
             shutdown == [runner EXCEPT !.shutdownTimeout = d]
             ok == d > 0
  <2>1. d \in Int
    BY RouteAssumption
  <2>2. /\ ok => retry \in RunnerRecords /\ (retry.scheduler => client.scheduler)
        /\ ok => shutdown \in RunnerRecords /\ (shutdown.scheduler => client.scheduler)
    BY <1>1, <2>1 DEF RunnerRecords
  <2>3. /\ ok \in BOOLEAN
        /\ \/ RunnerOption({"consumer", "broker"}, ok, retry)
           \/ RunnerOption({"broker"}, ok, shutdown)
    BY <1>3 DEF WithRetryTimeout, WithShutdownTimeout
  <2> HIDE DEF retry, shutdown, ok
  <2>4. CASE RunnerOption({"consumer", "broker"}, ok, retry)
    BY <2>2, <2>3, <2>4, RunnerOptionStep, Zenon
  <2>5. CASE RunnerOption({"broker"}, ok, shutdown)
    BY <2>2, <2>3, <2>5, RunnerOptionStep, Zenon
  <2> QED
    BY <2>3, <2>4, <2>5
<1>4. ASSUME NEW mws \in Lists, WithGlobalMiddleware(mws)
      PROVE  Inv'
  <2> DEFINE new == [runner EXCEPT !.globalMiddlewares = @ \cup NotBlank(mws)]
             ok == TRUE
  <2>1. mws \subseteq Nat
    BY RouteAssumption
  <2>2. ok => new \in RunnerRecords /\ (new.scheduler => client.scheduler)
    BY <1>1, <2>1 DEF RunnerRecords, NotBlank
  <2>3. ok \in BOOLEAN /\ RunnerOption({"consumer", "broker"}, ok, new)
    BY <1>4 DEF WithGlobalMiddleware
  <2> HIDE DEF new, ok
  <2> QED
    BY <2>2, <2>3, RunnerOptionStep, Zenon
<1>5. ASSUME NEW nil \in BOOLEAN, WithSchedulerClient(nil) \/ WithMetrics(nil)
      PROVE  Inv'
  <2> DEFINE sched == [runner EXCEPT !.scheduler = @ \/ ~nil]
             recorder == [runner EXCEPT !.metrics = @ \/ ~nil]
             ok == TRUE
  <2>1. recorder \in RunnerRecords /\ (recorder.scheduler => client.scheduler)
    BY <1>1 DEF RunnerRecords
  <2>2. nil \/ client.scheduler => sched \in RunnerRecords /\ (sched.scheduler => client.scheduler)
    BY <1>1 DEF RunnerRecords
  <2>3. /\ ok \in BOOLEAN
        /\ \/ (nil \/ client.scheduler) /\ RunnerOption({"consumer"}, ok, sched)
           \/ RunnerOption({"consumer"}, ok, recorder)
    BY <1>5 DEF WithSchedulerClient, WithMetrics
  <2> HIDE DEF sched, recorder, ok
  <2>4. CASE (nil \/ client.scheduler) /\ RunnerOption({"consumer"}, ok, sched)
    BY <2>2, <2>3, <2>4, RunnerOptionStep, Zenon
  <2>5. CASE RunnerOption({"consumer"}, ok, recorder)
    BY <2>1, <2>3, <2>5, RunnerOptionStep, Zenon
  <2> QED
    BY <2>3, <2>4, <2>5
<1>6. CASE RunnerReady
  <2>1. /\ pc = "runner" /\ pc' = "ready" /\ UNCHANGED <<route, given, client, scheduler>>
        /\ runner' = Forward \/ runner' = runner
    BY <1>6 DEF RunnerReady
  <2>2. Forward \in RunnerRecords /\ ~Forward.scheduler
    BY <1>1 DEF Forward, NoRunner, RunnerRecords
  <2>3. Accepted /\ runner' \in RunnerRecords /\ (runner'.scheduler => client.scheduler)
    BY <1>1, <2>1, <2>2 DEF Accepted
  <2> QED
    BY <2>1, <2>3, AfterNew
<1> QED
  BY <1>2, <1>3, <1>4, <1>5, <1>6 DEF Assemble

\* Run refuses or starts, and its first message fails.
LEMMA RunStep ==
  ASSUME Inv, UNCHANGED clientVars, RunRefuses \/ RunStarts \/ FirstFailure
  PROVE  Inv'
<1>1. /\ pc \in {"ready", "running"} /\ pc' \in {"stopped", "running", "panicked", "processed"}
      /\ UNCHANGED <<route, given, client, runner>>
      /\ pc' = "running" => /\ Scheduled => runner.scheduler
                            /\ route.deleteBatch => client.batch
                            /\ scheduler' = (Scheduled /\ route.scheduledRetry # Nil /\ runner.scheduler)
  BY DEF RunRefuses, RunStarts, FirstFailure
<1>2. Accepted /\ runner \in RunnerRecords /\ (runner.scheduler => client.scheduler)
  BY <1>1 DEF Inv, Accepted
<1> QED
  BY <1>1, <1>2, AfterNew

-----------------------------------------------------------------------------

\* The inductive invariant.
THEOREM Invariance == Spec => []Inv
<1> USE Numbers
<1>1. Init => Inv
  <2> SUFFICES ASSUME Init PROVE Inv
    OBVIOUS
  <2>1. /\ RouteInit /\ pc = "clients" /\ route = Defaults /\ given = {} /\ runner = NoRunner
        /\ client = [sqs |-> FALSE, batch |-> FALSE, scheduler |-> FALSE]
    BY DEF Init, RouteInit
  <2>2. NoRunner \in RunnerRecords /\ ~NoRunner.scheduler
    BY DEF NoRunner, RunnerRecords
  <2> QED
    BY <2>1, <2>2, DefaultsType DEF Inv, Accepted
<1>2. ASSUME Inv, ClientNext, UNCHANGED routeVars
      PROVE  Inv'
  <2>1. stage' # "ready" \/ stage' = stage
    BY <1>2 DEF ClientNext, Connect, ConnOption, WithRegion, WithAccessKey, WithSessionToken,
       WithProfile, WithEndpoint, WithRetryCount, ConnNew, Construct, Begin, PingOption,
       WithPingTimeout, WithPingRetryLimit, WithoutConnectivityCheck, Unchecked, Return, Validate,
       Attempt, AttemptSucceeds, AttemptFails, BudgetExpires, CancelSetup
  <2>2. stage # "ready"
    BY <1>2 DEF ClientNext, Connect, ConnOption, WithRegion, WithAccessKey, WithSessionToken,
       WithProfile, WithEndpoint, WithRetryCount, ConnNew, Construct, Begin, PingOption,
       WithPingTimeout, WithPingRetryLimit, WithoutConnectivityCheck, Unchecked, Validate,
       Attempt, AttemptSucceeds, AttemptFails, BudgetExpires, CancelSetup
  <2>3. UNCHANGED <<pc, route, given, count, client, runner, scheduler>>
    BY <1>2 DEF routeVars
  <2> QED
    BY <1>2, <2>2, <2>3 DEF Inv, RouteInit, Accepted, Scheduled
<1>3. ASSUME Inv, HandOver
      PROVE  Inv'
  <2>1. /\ stage = "next" /\ stage' = "ready" /\ pc' = "options"
        /\ client' \in [sqs : BOOLEAN, batch : BOOLEAN, scheduler : BOOLEAN]
        /\ UNCHANGED <<route, given, count, runner, scheduler>>
    BY <1>3 DEF HandOver
  <2>2. RouteInit /\ ~runner.scheduler
    BY <1>3, <2>1 DEF Inv, RouteInit, NoRunner
  <2>3. ~Accepted'
    BY <2>1 DEF Accepted
  <2> QED
    BY <1>3, <2>1, <2>2, <2>3 DEF Inv, RouteInit
<1>4. ASSUME Inv, RouteNext, UNCHANGED clientVars
      PROVE  Inv'
  BY <1>4, NumberStep, ChoiceStep, ExclusiveStep, BuiltStep, AssembleStep, RunStep
     DEF RouteNext, RouterNew
<1>5. ASSUME Inv, UNCHANGED vars
      PROVE  Inv'
  <2>1. UNCHANGED <<stage, pc, route, given, count, client, runner, scheduler>>
    BY <1>5 DEF vars, routeVars, clientVars
  <2> QED
    BY <1>5, <2>1 DEF Inv, RouteInit, Accepted, Scheduled
<1>6. Inv /\ [Next]_vars => Inv'
  BY <1>2, <1>3, <1>4, <1>5 DEF Next, Over
<1> QED
  BY <1>1, <1>6, PTL DEF Spec

\* WithDLQ and WithScheduledRetry never end up in one route, in either order and
\* whatever comes between and after them.
THEOREM Exclusive == Spec => []DLQExclusive
<1>1. Inv => DLQExclusive
  BY DEF Inv, DLQExclusive, Accepted, Chosen
<1> QED
  BY <1>1, Invariance, PTL

\* A route that New returns, and the runner it ends up in, are within every bound
\* that the consumer relies on, for any arguments the options are given.
THEOREM Usable == Spec => []RouteUsable
<1>1. Inv => RouteUsable
  <2> SUFFICES ASSUME Inv, Accepted PROVE RouteUsable
    BY DEF RouteUsable
  <2>1. /\ route \in RouteRecords /\ runner \in RunnerRecords
        /\ route.visibilityTimeout >= minVisibilityTimeout
        /\ pc = "running" => /\ route.deleteBatch => client.batch
                             /\ Scheduled /\ route.scheduledRetry # Nil => scheduler /\ client.scheduler
    BY DEF Inv
  <2>2. /\ route.workerPoolSize >= 1 /\ route.maxMessages \in 1 .. maxReceiveMessages
        /\ route.waitTimeSeconds \in 0 .. maxWaitTimeSeconds
        /\ route.runMode \in {Parallel, PerGroupID} /\ route.extensionLimit >= 0
        /\ runner.retryTimeout >= 1
        /\ Blank \notin route.customGroupFields \cup route.middlewares \cup runner.globalMiddlewares
        /\ route.visibilityTimeout \in Int /\ route.scheduledRetry \subseteq ValidConfigs
    BY <2>1 DEF RouteRecords, RunnerRecords
  <2>3. route.visibilityTimeout - visibilityRenewalMargin >= 1
    BY <2>1, <2>2 DEF visibilityRenewalMargin, minVisibilityTimeout
  <2> QED
    BY <2>1, <2>2, <2>3 DEF RouteUsable, ValidConfigs
<1> QED
  BY <1>1, Invariance, PTL

-----------------------------------------------------------------------------
(* No missing collaborator.                                                 *)

\* Where WithRetryModel is not given the Scheduled model, only
\* WithScheduledRetry selects it.
LEMMA RouterPairs ==
  ASSUME ScheduledRetryModel \notin RetryModels, Inv, Paired, RouterNew
  PROVE  Paired'
<1> USE Numbers
<1>1. /\ pc = "options" /\ pc' \in {"options", "refused", "built"} /\ UNCHANGED scheduler
      /\ \/ UNCHANGED <<route>>
         \/ /\ route'.scheduledRetry = route.scheduledRetry
            /\ route'.retryModel \in {route.retryModel} \cup RetryModels
         \/ route'.scheduledRetry # Nil
  <2>1. route \in RouteRecords
    BY DEF Inv
  <2> USE DEF Apply, RouteRecords
  <2>2. CASE \E n \in PoolSizes : WithWorkerPoolSize(n)
    BY <2>1, <2>2 DEF WithWorkerPoolSize
  <2>3. CASE \E n \in BatchSizes : WithMaxMessages(n)
    BY <2>1, <2>3 DEF WithMaxMessages
  <2>4. CASE \E n \in Limits : WithExtensionLimit(n)
    BY <2>1, <2>4 DEF WithExtensionLimit
  <2>5. CASE \E n \in WaitTimes : WithWaitTimeSeconds(n)
    BY <2>1, <2>5 DEF WithWaitTimeSeconds
  <2>6. CASE \E m \in Modes : WithRunMode(m)
    BY <2>1, <2>6 DEF WithRunMode
  <2>7. CASE \E fs \in Lists : WithCustomGroupFields(fs)
    BY <2>1, <2>7 DEF WithCustomGroupFields
  <2>8. CASE \E mws \in Lists : WithMiddleware(mws)
    BY <2>1, <2>8 DEF WithMiddleware
  <2>9. CASE \E s \in VisibilityTimeouts : WithVisibilityTimeout(s)
    BY <2>1, <2>9 DEF WithVisibilityTimeout
  <2>10. CASE WithDeleteBatch
    BY <2>1, <2>10 DEF WithDeleteBatch
  <2>11. CASE \E m \in RetryModels : WithRetryModel(m)
    BY <2>1, <2>11 DEF WithRetryModel
  <2>12. CASE \E n \in MaxReceiveCounts : WithDLQ(n)
    BY <2>1, <2>12 DEF WithDLQ
  <2>13. CASE \E c \in ScheduledConfigs : WithScheduledRetry(c)
    <3>1. PICK c \in ScheduledConfigs : WithScheduledRetry(c)
      BY <2>13
    <3> DEFINE full == IF c.base = 0 THEN [c EXCEPT !.base = defaultBaseBackoff] ELSE c
               new == [route EXCEPT !.retryModel = ScheduledRetryModel, !.scheduledRetry = {full}]
    <3>2. /\ pc = "options" /\ UNCHANGED scheduler
          /\ (UNCHANGED pc /\ route' = new) \/ (pc' = "refused" /\ UNCHANGED route)
      BY <3>1 DEF WithScheduledRetry
    <3> HIDE DEF full
    <3>3. new.scheduledRetry # Nil
      BY <2>1
    <3> QED
      BY <3>2, <3>3
  <2>14. CASE Built
    BY <2>1, <2>14 DEF Built
  <2> QED
    BY <2>2, <2>3, <2>4, <2>5, <2>6, <2>7, <2>8, <2>9, <2>10, <2>11, <2>12, <2>13, <2>14
       DEF RouterNew
<1> QED
  BY <1>1 DEF Paired, Scheduled, NoPanic

\* "a misconfigured route is never built and consumption never starts for it":
\* as long as an application does not select the Scheduled model by
\* WithRetryModel, no worker of a consumer that Run started runs into a missing
\* collaborator, whatever its other options are.
THEOREM NeverPanics == ScheduledRetryModel \notin RetryModels => (Spec => []NoPanic)
<1> SUFFICES ASSUME ScheduledRetryModel \notin RetryModels
             PROVE  Spec => []NoPanic
  OBVIOUS
<1> USE Numbers
<1>1. Init => Paired
  BY DEF Init, RouteInit, Paired, Scheduled, NoPanic, Defaults
<1>2. ASSUME Inv, Paired, Assemble
      PROVE  Paired'
  <2>1. pc' \in {"runner", "stopped", "ready"} /\ UNCHANGED route
    BY <1>2 DEF Assemble, NewRunner, RunnerOption, WithRetryTimeout, WithShutdownTimeout,
       WithGlobalMiddleware, WithSchedulerClient, WithMetrics, RunnerReady
  <2> QED
    BY <1>2, <2>1 DEF Paired, Scheduled, NoPanic
<1>3. ASSUME Inv, Paired, RunRefuses \/ RunStarts \/ FirstFailure
      PROVE  Paired'
  BY <1>3 DEF RunRefuses, RunStarts, FirstFailure, Paired, Scheduled, NoPanic
<1>4. ASSUME Inv, Paired, HandOver
      PROVE  Paired'
  BY <1>4 DEF HandOver, Paired, Scheduled, NoPanic
<1>5. ASSUME Inv, Paired, UNCHANGED routeVars
      PROVE  Paired'
  BY <1>5 DEF routeVars, Paired, Scheduled, NoPanic
<1>6. Inv /\ Paired /\ [Next]_vars => Paired'
  BY <1>2, <1>3, <1>4, <1>5, RouterPairs DEF Next, Over, RouteNext, vars
<1>7. Paired => NoPanic
  BY DEF Paired
<1> QED
  BY <1>1, <1>6, <1>7, Invariance, PTL DEF Spec

=============================================================================
