------------------------------ MODULE Handling ------------------------------
(***************************************************************************)
(* A message on its way through the middleware chain to the handler and    *)
(* back, and what process of consumer/dispatch.go makes of the outcome     *)
(* under the Visibility model: Chain, Recovery, Metrics, Logging and OTel  *)
(* of middleware/, the typed handlers of typed/, observeDLQ with its       *)
(* recorder and callback, and SQS (external), which counts receives and    *)
(* redrives a message received Policy times to its dead letter queue.      *)
(*                                                                         *)
(* The consumers of one process share a Prometheus registry and die        *)
(* together when a panic leaves a worker; messages they held come back     *)
(* when the visibility timeout runs out.  A message's receive count bounds *)
(* how often anything can happen to it, so there is no budget of faults.   *)
(***************************************************************************)
EXTENDS Naturals, Sequences, FiniteSets, Functions

CONSTANTS N,        \* messages 1..N, in queue order
          Workers,  \* worker goroutines
          Routes,   \* routes, each with a consumer of its own
          Policy,   \* maxReceiveCount of the queues' redrive policy
          Configs   \* what the process may be built from

Msgs == 1 .. N

Kinds == {"recovery", "metrics", "logging", "otel"}

\* The collectors of Metrics in the order of their registration.
Collectors == <<"received", "processed", "errors", "duration", "inflight", "dlq">>

Config ==
  [home : [Msgs -> Routes],       \* the queue a message is in
   place : [Workers -> Routes],   \* the consumer a worker belongs to
   global : Seq(Kinds),           \* WithGlobalMiddleware
   own : Seq(Kinds),              \* router.WithMiddleware
   perGroupID : BOOLEAN,          \* each queue is one message group
   typed : BOOLEAN,               \* the handler is made by typed.WrapHandler
   bad : SUBSET Msgs,             \* messages whose body does not decode
   maxReceiveCount : Nat,         \* router.WithDLQ; 0 if it is not given
   onDLQ : BOOLEAN,               \* router.WithOnDLQ
   foreign : SUBSET Range(Collectors)]  \* names the application has taken

ASSUME HandlingAssumption ==
  /\ N \in Nat
  /\ IsFiniteSet(Workers) /\ IsFiniteSet(Routes)
  /\ Policy \in Nat \ {0}
  /\ Configs \subseteq Config
  /\ \A c \in Configs : /\ c.maxReceiveCount \in {0, Policy}
                        /\ Range(c.home) \subseteq Range(c.place)

VARIABLES
  config,     \* how the process is built
  up,         \* "yes", or what ended the process
  sqs,        \* message -> "visible", "inflight", "gone" or "dlq"
  rcv,        \* message -> its receive count; the current receipt
  todo,       \* route -> deliveries no worker has taken yet
  poisoned,   \* batches, named by their first delivery, whose barrier has failed
  wk,         \* worker -> what it is doing
  registry,   \* collector name -> "free", "ours" or "foreign"
  collector,  \* route -> the collectors it got so far, "shared" or "private"
  seen,       \* route -> what its counters, spans and log records show
  did,        \* route -> outcomes of its handler since the process started
  hist        \* message -> what became of its deliveries (history)

queueVars == <<sqs, rcv>>
buildVars == <<registry, collector>>

vars == <<config, up, queueVars, todo, poisoned, wk, buildVars, seen, did, hist>>

\* Counters, spans by status and log records.
Fields == {"received", "inc", "dec", "observed", "success", "error", "errors",
           "started", "ok", "failed", "unset", "logged", "processed", "logFailed"}

Outcomes == {"nil", "error", "panic"}

Fates == {"run", "ok", "err", "back", "signalled"}

Zero(S) == [x \in S |-> 0]

NoJob == [msg |-> 0, count |-> 0, batch |-> <<0, 0>>]

\* The registry when the process starts.
Registered == [c \in Range(Collectors) |-> IF c \in config.foreign THEN "foreign" ELSE "free"]

Free == [pc |-> "idle", at |-> 0, res |-> "nil", backed |-> FALSE, job |-> NoJob]

Init ==
  /\ config \in Configs
  /\ up = "yes"
  /\ sqs = [m \in Msgs |-> "visible"]
  /\ rcv = Zero(Msgs)
  /\ todo = [r \in Routes |-> << >>]
  /\ poisoned = {}
  /\ wk = [w \in Workers |-> Free]
  /\ registry = Registered
  /\ collector = [r \in Routes |-> << >>]
  /\ seen = [r \in Routes |-> Zero(Fields)]
  /\ did = [r \in Routes |-> Zero(Outcomes)]
  /\ hist = [m \in Msgs |-> Zero(Fates)]

Route(w) == config.place[w]

\* One more of fate f for message m.
Note(m, f) == hist' = [hist EXCEPT ![m][f] = @ + 1]

-----------------------------------------------------------------------------
(* The chain.                                                               *)

\* newDispatcher and Chain: the consumer's middlewares outside the route's, the
\* first of the list the outermost layer.
Layers == config.global \o config.own

Has(kind) == kind \in Range(Layers)

\* A panic inside a middleware of this kind is recovered before it gets there.
Shielded(kind) ==
  \E i, j \in 1 .. Len(Layers) : i < j /\ Layers[i] = kind /\ Layers[j] = "recovery"

\* What a middleware shows on the way in.
OnEnter(l) ==
  CASE l = "metrics" -> {"received", "inc"}
    [] l = "otel" -> {"started"}
    [] l = "logging" -> {"logged"}
    [] OTHER -> {}

\* Mutant: the gauge goes down at the end of the function, not in a defer.
MetricsExitNoDefer(res) ==
  CASE res = "nil" -> {"observed", "success", "dec"}
    [] res = "error" -> {"observed", "errors", "error", "dec"}
    [] OTHER -> {}

\* A panic runs only the deferred calls: of Metrics the gauge goes down ...
MetricsExit(res) ==
  CASE res = "nil" -> {"observed", "success", "dec"}
    [] res = "error" -> {"observed", "errors", "error", "dec"}
    [] OTHER -> {"dec"}

\* ... and of OTel the span ends, with no status set.
OTelExit(res) == {CASE res = "nil" -> "ok" [] res = "error" -> "failed" [] OTHER -> "unset"}

LoggingExit(res) ==
  CASE res = "nil" -> {"processed"} [] res = "error" -> {"logFailed"} [] OTHER -> {}

\* What a middleware shows on the way out.
OnExit(l, res) ==
  CASE l = "metrics" -> MetricsExit(res)
    [] l = "otel" -> OTelExit(res)
    [] l = "logging" -> LoggingExit(res)
    [] OTHER -> {}

\* Every layer hands on what it got, but Recovery turns a panic into ErrPanic.
Passes(l, res) == IF l = "recovery" /\ res = "panic" THEN "error" ELSE res

\* The collector behind a field; spans and log records have none.
CollectorOf(f) ==
  CASE f = "received" -> "received"
    [] f \in {"inc", "dec"} -> "inflight"
    [] f = "observed" -> "duration"
    [] f \in {"success", "error"} -> "processed"
    [] f = "errors" -> "errors"
    [] OTHER -> "none"

\* What goes to a collector outside the registry is never exported.
Exported(r, f) ==
  \A i \in 1 .. Len(collector[r]) : Collectors[i] = CollectorOf(f) => collector[r][i] = "shared"

Show(r, F) ==
  seen' = [seen EXCEPT ![r] = [f \in Fields |-> IF f \in F /\ Exported(r, f)
                                                  THEN @[f] + 1 ELSE @[f]]]

\* registerCounterVec and its siblings: the equivalent collector that is
\* registered already is used; the new one otherwise, which is unregistered
\* when the name belongs to something else.
CollectorFor(name) == IF registry[name] = "foreign" THEN "private" ELSE "shared"

\* Metrics builds the chain of r: the next collector is registered.
Register(r) ==
  /\ up = "yes"
  /\ Has("metrics")
  /\ r \in Range(config.place)
  /\ Len(collector[r]) < Len(Collectors)
  /\ LET name == Collectors[Len(collector[r]) + 1]
     IN  /\ collector' = [collector EXCEPT ![r] = Append(@, CollectorFor(name))]
         /\ registry' = [registry EXCEPT ![name] = IF @ = "free" THEN "ours" ELSE @]
  /\ UNCHANGED <<config, up, queueVars, todo, poisoned, wk, seen, did, hist>>

\* The consumer of r is built.
Built(r) == Has("metrics") => Len(collector[r]) = Len(Collectors)

-----------------------------------------------------------------------------
(* SQS and the poll loop.                                                   *)

\* What ReceiveMessage may return: in a message group nothing is delivered
\* while something is in flight, and always the oldest messages.
Batches(r) ==
  LET queue == {m \in Msgs : config.home[m] = r}
      visible == {m \in queue : sqs[m] = "visible" /\ rcv[m] < Policy}
  IN  {S \in SUBSET visible :
         /\ S # {}
         /\ config.perGroupID => /\ \A m \in queue : sqs[m] # "inflight"
                                 /\ \A m \in S, n \in queue :
                                      n < m /\ sqs[n] = "visible" => n \in S}

\* The messages of S in queue order.
InOrder(S) ==
  {q \in [1 .. Cardinality(S) -> S] : \A i, j \in DOMAIN q : i < j => q[i] < q[j]}

\* poll receives a batch, which gets a barrier of its own.
Receive(r, S) ==
  /\ up = "yes"
  /\ Built(r)
  /\ todo[r] = << >>
  /\ sqs' = [m \in Msgs |-> IF m \in S THEN "inflight" ELSE sqs[m]]
  /\ rcv' = [m \in Msgs |-> IF m \in S THEN rcv[m] + 1 ELSE rcv[m]]
  /\ \E order \in InOrder(S) :
       todo' = [todo EXCEPT ![r] = [i \in 1 .. Len(order) |->
                  [msg |-> order[i], count |-> rcv[order[i]] + 1,
                   batch |-> <<order[1], rcv[order[1]] + 1>>]]]
  /\ UNCHANGED <<config, up, poisoned, wk, buildVars, seen, did, hist>>

\* The visibility timeout of m runs out, in a worker's hands or not.
Expire(m) ==
  /\ sqs[m] = "inflight"
  /\ sqs' = [sqs EXCEPT ![m] = "visible"]
  /\ UNCHANGED <<config, up, rcv, todo, poisoned, wk, buildVars, seen, did, hist>>

\* SQS moves a message that was received Policy times.
Redrive(m) ==
  /\ sqs[m] = "visible"
  /\ rcv[m] = Policy
  /\ sqs' = [sqs EXCEPT ![m] = "dlq"]
  /\ UNCHANGED <<config, up, rcv, todo, poisoned, wk, buildVars, seen, did, hist>>

-----------------------------------------------------------------------------
(* A worker: process.                                                       *)

\* A group has one worker, by groupIndex; in Parallel mode any worker is free
\* to get the message.
Serves(w, r) ==
  IF config.perGroupID THEN w = CHOOSE v \in Workers : Route(v) = r ELSE Route(w) = r

\* Mutant: one barrier for the life of the consumer, not one per batch.
HeldBackForever(d) == config.perGroupID /\ poisoned # {}

\* orderedGroups and barrier.failed.
HeldBack(d) == config.perGroupID /\ d.batch \in poisoned

\* Mutant: a held-back message waits at the worker instead of being let go.
HoldRequeues(w) ==
  LET r == Route(w)
  IN  /\ wk[w].pc = "idle"
      /\ Serves(w, r)
      /\ todo[r] # << >>
      /\ HeldBack(Head(todo[r]))
      /\ todo' = [todo EXCEPT ![r] = Append(Tail(@), Head(@))]
      /\ UNCHANGED <<config, up, queueVars, poisoned, wk, buildVars, seen, did, hist>>

\* holdForOrder: the receive is spent, the handler does not run.
Hold(w) ==
  LET r == Route(w)
  IN  /\ wk[w].pc = "idle"
      /\ Serves(w, r)
      /\ todo[r] # << >>
      /\ HeldBack(Head(todo[r]))
      /\ todo' = [todo EXCEPT ![r] = Tail(@)]
      /\ UNCHANGED <<config, up, queueVars, poisoned, wk, buildVars, seen, did, hist>>

\* process calls the wrapped handler.
Take(w) ==
  LET r == Route(w)
  IN  /\ wk[w].pc = "idle"
      /\ Serves(w, r)
      /\ todo[r] # << >>
      /\ ~HeldBack(Head(todo[r]))
      /\ todo' = [todo EXCEPT ![r] = Tail(@)]
      /\ wk' = [wk EXCEPT ![w] = [Free EXCEPT !.pc = "in", !.at = 1, !.job = Head(todo[r])]]
      /\ UNCHANGED <<config, up, queueVars, poisoned, buildVars, seen, did, hist>>

\* The next layer on the way in.
Enter(w) ==
  /\ wk[w].pc = "in"
  /\ wk[w].at <= Len(Layers)
  /\ Show(Route(w), OnEnter(Layers[wk[w].at]))
  /\ wk' = [wk EXCEPT ![w].at = @ + 1]
  /\ UNCHANGED <<config, up, queueVars, todo, poisoned, buildVars, did, hist>>

\* Decode of the codec.
Decodes(m) == m \notin config.bad

\* WrapHandler: a body that does not decode is an error, and the typed function
\* is not called.  It has no access to Backoff; a plain handler does.
Results(m) ==
  IF config.typed
    THEN [res : IF Decodes(m) THEN Outcomes ELSE {"error"}, backed : {FALSE}]
    ELSE [res : Outcomes, backed : BOOLEAN]

\* The handler runs: it returns nil or an error, or panics.
Handle(w) ==
  /\ wk[w].pc = "in"
  /\ wk[w].at = Len(Layers) + 1
  /\ \E o \in Results(wk[w].job.msg) :
       /\ wk' = [wk EXCEPT ![w].pc = "out", ![w].at = @ - 1, ![w].res = o.res, ![w].backed = o.backed]
       /\ did' = [did EXCEPT ![Route(w)][o.res] = @ + 1]
  /\ Note(wk[w].job.msg, "run")
  /\ UNCHANGED <<config, up, queueVars, todo, poisoned, buildVars, seen>>

\* The next layer on the way out.
Exit(w) ==
  /\ wk[w].pc = "out"
  /\ wk[w].at > 0
  /\ LET l == Layers[wk[w].at]
     IN  /\ Show(Route(w), OnExit(l, wk[w].res))
         /\ wk' = [wk EXCEPT ![w].at = @ - 1, ![w].res = Passes(l, @)]
  /\ UNCHANGED <<config, up, queueVars, todo, poisoned, buildVars, did, hist>>

\* Deliveries of m whose handler has not run.
InHand(m) ==
  LET waiting(r) == {i \in 1 .. Len(todo[r]) : todo[r][i].msg = m}
      taken == {w \in Workers : wk[w].pc = "in" /\ wk[w].job.msg = m}
  IN  Cardinality(waiting(config.home[m])) + Cardinality(taken)

\* A panic leaves the goroutine of a worker: the process ends.
Die(why) ==
  /\ up' = why
  /\ todo' = [r \in Routes |-> << >>]
  /\ wk' = [w \in Workers |-> Free]
  /\ registry' = Registered
  /\ collector' = [r \in Routes |-> << >>]
  /\ seen' = [r \in Routes |-> Zero(Fields)]
  /\ did' = [r \in Routes |-> Zero(Outcomes)]
  /\ UNCHANGED <<config, queueVars, poisoned, hist>>

\* No layer recovered the handler's panic.
HandlerPanics(w) ==
  /\ wk[w].pc = "out"
  /\ wk[w].at = 0
  /\ wk[w].res = "panic"
  /\ Die("handler")

\* The process is started again.
Restart ==
  /\ up # "yes"
  /\ up' = "yes"
  /\ UNCHANGED <<config, queueVars, todo, poisoned, wk, buildVars, seen, did, hist>>

\* failGroup.
FailGroup(w) ==
  poisoned' = IF config.perGroupID THEN poisoned \cup {wk[w].job.batch} ELSE poisoned

\* Mutant: the threshold is exclusive.
ExhaustedExclusive(d) == config.maxReceiveCount > 0 /\ d.count > config.maxReceiveCount

\* observeDLQ: WithDLQ is configured and the receive count reached it.
Exhausted(d) == config.maxReceiveCount > 0 /\ d.count >= config.maxReceiveCount

\* process after the handler: a backed-off message is left alone, whatever the
\* handler returned; an error fails the group and may be the last one; success
\* leads to the delete.
Settle(w) ==
  LET d == wk[w].job
      failed == wk[w].backed \/ wk[w].res = "error"
      fate == IF wk[w].backed THEN "back" ELSE IF failed THEN "err" ELSE "ok"
      next == CASE fate = "ok" -> "delete"
                [] fate = "err" /\ Exhausted(d) -> "signal"
                [] OTHER -> "idle"
  IN  /\ wk[w].pc = "out"
      /\ wk[w].at = 0
      /\ wk[w].res # "panic"
      /\ IF failed THEN FailGroup(w) ELSE UNCHANGED poisoned
      /\ wk' = [wk EXCEPT ![w] = IF next = "idle" THEN Free ELSE [@ EXCEPT !.pc = next]]
      /\ Note(d.msg, fate)
      /\ UNCHANGED <<config, up, queueVars, todo, buildVars, seen, did>>

\* Mutant: emitMetric does not recover, and the recorder panics.
SignalBare(w) ==
  /\ wk[w].pc = "signal"
  /\ Die("recorder")

\* observeDLQ logs and calls the recorder, whose panic emitMetric recovers.
Signal(w) ==
  /\ wk[w].pc = "signal"
  /\ Note(wk[w].job.msg, "signalled")
  /\ wk' = [wk EXCEPT ![w] = IF config.onDLQ THEN [@ EXCEPT !.pc = "callback"] ELSE Free]
  /\ UNCHANGED <<config, up, queueVars, todo, poisoned, buildVars, seen, did>>

\* The OnDLQ callback returns, or panics with nobody to recover it.
Callback(w) ==
  /\ wk[w].pc = "callback"
  /\ \/ /\ wk' = [wk EXCEPT ![w] = Free]
        /\ UNCHANGED <<config, up, queueVars, todo, poisoned, buildVars, seen, did, hist>>
     \/ Die("callback")

\* deleteMessage: it may fail, and under an old receipt it has no effect.
Delete(w) ==
  LET d == wk[w].job
  IN  /\ wk[w].pc = "delete"
      /\ \/ sqs' = IF sqs[d.msg] = "inflight" /\ rcv[d.msg] = d.count
                     THEN [sqs EXCEPT ![d.msg] = "gone"] ELSE sqs
         \/ UNCHANGED sqs
      /\ wk' = [wk EXCEPT ![w] = Free]
      /\ UNCHANGED <<config, up, rcv, todo, poisoned, buildVars, seen, did, hist>>

Worker(w) ==
  \/ Hold(w)
  \/ Take(w)
  \/ Enter(w)
  \/ Handle(w)
  \/ Exit(w)
  \/ HandlerPanics(w)
  \/ Settle(w)
  \/ Signal(w)
  \/ Callback(w)
  \/ Delete(w)

-----------------------------------------------------------------------------

Poll(r) == \E S \in Batches(r) : Receive(r, S)

Settled == \A m \in Msgs : sqs[m] \in {"gone", "dlq"}

AtRest == \A w \in Workers : wk[w].pc = "idle"

\* Every message is deleted or redriven.
Done == Settled /\ up = "yes" /\ AtRest /\ UNCHANGED vars

Next ==
  \/ \E r \in Routes : Register(r) \/ Poll(r)
  \/ \E w \in Workers : Worker(w)
  \/ \E m \in Msgs : Expire(m) \/ Redrive(m)
  \/ Restart
  \/ Done

Spec == Init /\ [][Next]_vars

\* Goroutines are scheduled, handlers return or panic, SQS delivers, times out
\* and redrives, and a supervisor restarts a dead process.
Fairness ==
  /\ \A r \in Routes : WF_vars(Register(r)) /\ WF_vars(Poll(r))
  /\ \A w \in Workers : WF_vars(Worker(w))
  /\ \A m \in Msgs : WF_vars(Expire(m)) /\ WF_vars(Redrive(m))
  /\ WF_vars(Restart)

FairSpec == Spec /\ Fairness

-----------------------------------------------------------------------------

\* Every variable has its type and a worker's position is within its chain.
TypeOK ==
  /\ config \in Configs
  /\ up \in {"yes", "handler", "callback"}
  /\ sqs \in [Msgs -> {"visible", "inflight", "gone", "dlq"}]
  /\ rcv \in [Msgs -> 0 .. Policy]
  /\ todo \in [Routes -> Seq([msg : Msgs, count : 1 .. Policy,
                          batch : Msgs \X (1 .. Policy)])]
  /\ poisoned \subseteq Msgs \X (1 .. Policy)
  /\ wk \in [Workers -> [pc : {"idle", "in", "out", "signal", "callback", "delete"},
                         at : Nat, res : Outcomes, backed : BOOLEAN,
                         job : [msg : 0 .. N, count : 0 .. Policy,
                                batch : (0 .. N) \X (0 .. Policy)]]]
  /\ \A w \in Workers : wk[w].at <= Len(Layers) + 1
  /\ registry \in [Range(Collectors) -> {"free", "ours", "foreign"}]
  /\ collector \in [Routes -> Seq({"shared", "private"})]
  /\ seen \in [Routes -> [Fields -> Nat]]
  /\ did \in [Routes -> [Outcomes -> Nat]]
  /\ hist \in [Msgs -> [Fates -> Nat]]

\* What the field should show after the runs of a route's handler.
Expected(r, f) ==
  LET sum == did[r]["nil"] + did[r]["error"] + did[r]["panic"]
      failed(kind) == did[r]["error"] + IF Shielded(kind) THEN did[r]["panic"] ELSE 0
      Of(kind, n) == IF Has(kind) THEN n ELSE 0
  IN  CASE f \in {"received", "inc", "dec"} -> Of("metrics", sum)
        [] f \in {"error", "errors"} -> Of("metrics", failed("metrics"))
        [] f = "success" -> Of("metrics", did[r]["nil"])
        [] f = "observed" -> Of("metrics", did[r]["nil"] + failed("metrics"))
        [] f = "started" -> Of("otel", sum)
        [] f = "ok" -> Of("otel", did[r]["nil"])
        [] f = "failed" -> Of("otel", failed("otel"))
        [] f = "unset" -> Of("otel", sum - did[r]["nil"] - failed("otel"))
        [] f = "logged" -> Of("logging", sum)
        [] f = "processed" -> Of("logging", did[r]["nil"])
        [] f = "logFailed" -> Of("logging", failed("logging"))

\* Metrics, OTel and Logging tell the truth however workers interleave, panics
\* unwind and consumers share the registry: with no message inside a route's
\* chain the in-flight gauge is back at zero, every span has ended with the
\* status of its run, and every run is counted once, as success or as error;
\* only a panic that no Recovery stopped further inside is counted as received
\* and as nothing else.  A name the application took is not exported at all.
ObserversTruthful ==
  \A r \in Routes :
    (\A w \in Workers : Route(w) = r => wk[w].pc \notin {"in", "out"}) =>
      \A f \in Fields :
        seen[r][f] = IF CollectorOf(f) \in config.foreign THEN 0 ELSE Expected(r, f)

\* Recovery "rather than being allowed to crash the process": with Recovery
\* anywhere in the chain only a panic of the OnDLQ callback ends the process,
\* neither one of the handler nor one of the metrics recorder.
RecoveryShields ==
  \/ up = "yes"
  \/ up = "handler" /\ ~Has("recovery")
  \/ up = "callback" /\ config.onDLQ

\* Nothing can end the process.
CannotDie == Has("recovery") /\ ~config.onDLQ

\* "observe-only": with a MaxReceiveCount that mirrors the redrive policy, a
\* message is signalled as exhausted at most once and is never deleted after;
\* one that SQS redrives after nothing but errors has been signalled, or is
\* about to be.
DLQSignals ==
  \A m \in Msgs :
    /\ hist[m]["signalled"] <= 1
    /\ hist[m]["signalled"] = 1 => sqs[m] # "gone"
    /\ (CannotDie /\ config.maxReceiveCount > 0 /\ sqs[m] = "dlq" /\ hist[m]["err"] = Policy) =>
         \/ hist[m]["signalled"] = 1
         \/ \E w \in Workers : wk[w].pc = "signal" /\ wk[w].job.msg = m

\* A message that SQS redrives has had its Policy handler runs, unless it was
\* held back behind an earlier message of its group that failed: each hold
\* spends a receive without a run.
DLQExplained ==
  \A m \in Msgs :
    (CannotDie /\ sqs[m] = "dlq" /\ InHand(m) = 0) =>
      \/ hist[m]["run"] = Policy
      \/ /\ config.perGroupID
         /\ \E n \in Msgs : /\ n < m /\ config.home[n] = config.home[m]
                            /\ hist[n]["err"] + hist[n]["back"] > 0

\* A message leaves the queue for good only after a run of its handler that
\* returned nil and asked for no backoff: a body that does not decode, an
\* error, a panic or a crash never deletes it.  And every message leaves: it
\* is deleted or redriven, whatever dies on the way.
Resolved ==
  /\ [](\A m \in Msgs : sqs[m] = "gone" => hist[m]["ok"] > 0)
  /\ <>[]Settled

=============================================================================
