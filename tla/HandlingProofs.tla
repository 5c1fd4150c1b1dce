--------------------------- MODULE HandlingProofs ---------------------------
(***************************************************************************)
(* The safety of the Handling model for any messages, workers and routes,  *)
(* any chains of middleware and any redrive policy.                        *)
(***************************************************************************)
EXTENDS Handling, FiniteSetTheorems, SequenceTheorems, TLAPS

\* What a worker holds is a delivery of a message of its route, no younger than
\* the message's last receive.
Held ==
  \A w \in Workers : wk[w].pc # "idle" =>
    LET d == wk[w].job
    IN  /\ d.msg \in Msgs /\ d.count \in 1 .. Policy /\ d.count <= rcv[d.msg]
        /\ config.home[d.msg] = Route(w)
        /\ d.batch \in Msgs \X (1 .. Policy) /\ d.batch[2] <= rcv[d.batch[1]]
        /\ config.home[d.batch[1]] = Route(w)

\* So is what waits for a worker ...
Waiting ==
  \A r \in Routes : \A i \in 1 .. Len(todo[r]) :
    LET d == todo[r][i]
    IN  /\ d.count <= rcv[d.msg]
        /\ config.home[d.msg] = r
        /\ d.batch[2] <= rcv[d.batch[1]]
        /\ config.home[d.batch[1]] = r

\* ... in queue order.
Sorted ==
  \A r \in Routes : \A i, j \in 1 .. Len(todo[r]) : i < j => todo[r][i].msg < todo[r][j].msg

\* No message is in a dead letter queue before its last receive.
Deliveries ==
  /\ Held
  /\ Waiting
  /\ Sorted
  /\ \A m \in Msgs : sqs[m] = "dlq" => rcv[m] = Policy

\* No receive of a message is at two workers, or at one and still waiting.
HeldOnce ==
  /\ \A v, w \in Workers :
       v # w /\ wk[v].pc # "idle" /\ wk[w].pc # "idle" /\ wk[v].job.msg = wk[w].job.msg =>
         wk[v].job.count # wk[w].job.count
  /\ \A w \in Workers : \A r \in Routes : \A i \in 1 .. Len(todo[r]) :
       wk[w].pc # "idle" /\ wk[w].job.msg = todo[r][i].msg =>
         wk[w].job.count # todo[r][i].count

\* A panic on its way out has met no Recovery yet, a worker is in the callback
\* only if there is one, and what ended the process could.
PanicsOutside ==
  /\ \A w \in Workers :
       /\ wk[w].pc = "out" /\ wk[w].res = "panic" =>
            \A j \in 1 .. Len(Layers) : Layers[j] = "recovery" => j <= wk[w].at
       /\ wk[w].pc = "callback" => config.onDLQ
  /\ RecoveryShields

\* The inductive invariant.
Inv ==
  /\ TypeOK
  /\ Deliveries
  /\ HeldOnce
  /\ PanicsOutside

-----------------------------------------------------------------------------

\* A handler's run that ended well is on record before the delete that follows
\* it, and the message gone after it.
GoneAfterSuccess ==
  /\ \A w \in Workers : wk[w].pc = "delete" => hist[wk[w].job.msg]["ok"] > 0
  /\ \A m \in Msgs : sqs[m] = "gone" => hist[m]["ok"] > 0

\* The receive of m that a delete would still act on is in someone's hands, so
\* m is there.
LastReceiveThere ==
  /\ \A w \in Workers :
       wk[w].pc # "idle" /\ wk[w].job.count = rcv[wk[w].job.msg] => sqs[wk[w].job.msg] # "gone"
  /\ \A r \in Routes : \A i \in 1 .. Len(todo[r]) :
       todo[r][i].count = rcv[todo[r][i].msg] => sqs[todo[r][i].msg] # "gone"

\* The last receive of m has yet to be signalled, or deleted.
LastOpen(m) ==
  \/ \E r \in Routes : \E i \in 1 .. Len(todo[r]) :
       todo[r][i].msg = m /\ todo[r][i].count = Policy
  \/ \E w \in Workers : /\ wk[w].pc \in {"in", "out", "signal", "delete"}
                        /\ wk[w].job.msg = m /\ wk[w].job.count = Policy

\* A signal is about the last receive, whose worker is done with it.
SignalledLast ==
  /\ \A w \in Workers : wk[w].pc = "signal" => wk[w].job.count = Policy
  /\ \A m \in Msgs :
       /\ hist[m]["signalled"] <= 1
       /\ hist[m]["signalled"] = 1 => sqs[m] # "gone" /\ rcv[m] = Policy /\ ~LastOpen(m)

\* The receives of m that no handler has run for yet, and those not settled.
Unrun(m) ==
  {c \in 1 .. Policy :
     \/ \E r \in Routes : \E i \in 1 .. Len(todo[r]) : todo[r][i].msg = m /\ todo[r][i].count = c
     \/ \E w \in Workers : wk[w].pc = "in" /\ wk[w].job.msg = m /\ wk[w].job.count = c}

Unsettled(m) ==
  {c \in 1 .. Policy :
     \/ \E r \in Routes : \E i \in 1 .. Len(todo[r]) : todo[r][i].msg = m /\ todo[r][i].count = c
     \/ \E w \in Workers : /\ wk[w].pc \in {"in", "out"}
                           /\ wk[w].job.msg = m /\ wk[w].job.count = c}

\* The last receive of m is over and was not signalled.
Unsignalled(m) ==
  /\ rcv[m] = Policy
  /\ Policy \notin Unsettled(m)
  /\ hist[m]["signalled"] = 0
  /\ \A w \in Workers : wk[w].pc = "signal" => wk[w].job.msg # m

\* A receive that is over failed at most once, the last one only if it is
\* signalled.
ErrorsCounted ==
  CannotDie /\ config.maxReceiveCount > 0 =>
    \A m \in Msgs :
      hist[m]["err"] + Cardinality(Unsettled(m)) + (IF Unsignalled(m) THEN 1 ELSE 0) <= rcv[m]

\* An earlier message of m's group has failed.
Preceded(m) ==
  \E n \in Msgs : n < m /\ config.home[n] = config.home[m] /\ hist[n]["err"] + hist[n]["back"] > 0

\* What waits under a barrier that failed is behind a message that failed, and
\* a worker is at an earlier message than those that wait under its barrier.
BarriersExplained ==
  /\ \A b \in poisoned : b[2] <= rcv[b[1]]
  /\ \A r \in Routes : \A i \in 1 .. Len(todo[r]) :
       todo[r][i].batch \in poisoned => Preceded(todo[r][i].msg)
  /\ \A w \in Workers : \A r \in Routes : \A i \in 1 .. Len(todo[r]) :
       wk[w].pc # "idle" /\ wk[w].job.batch = todo[r][i].batch => wk[w].job.msg < todo[r][i].msg

\* A receive that is over had a run of the handler, or was held back.
RunsCounted ==
  CannotDie =>
    \A m \in Msgs :
      \/ config.perGroupID /\ Preceded(m)
      \/ hist[m]["run"] + Cardinality(Unrun(m)) = rcv[m]

-----------------------------------------------------------------------------
(* Types.                                                                   *)

Jobs == [msg : 0 .. N, count : 0 .. Policy, batch : (0 .. N) \X (0 .. Policy)]

WorkerStates ==
  [pc : {"idle", "in", "out", "signal", "callback", "delete"}, at : Nat, res : Outcomes,
   backed : BOOLEAN, job : Jobs]

Tasks == [msg : Msgs, count : 1 .. Policy, batch : Msgs \X (1 .. Policy)]

\* What the process is built from: its chain is a sequence of middlewares.
LEMMA ConfigType ==
  ASSUME config \in Configs
  PROVE  /\ config.home \in [Msgs -> Routes]
         /\ config.place \in [Workers -> Routes]
         /\ Layers \in Seq(Kinds)
         /\ Len(Layers) \in Nat
         /\ config.foreign \subseteq Range(Collectors)
         /\ config.maxReceiveCount \in {0, Policy}
<1>1. config \in Config
  BY HandlingAssumption
<1>2. config.global \in Seq(Kinds) /\ config.own \in Seq(Kinds)
  BY <1>1 DEF Config
<1>3. config.global \o config.own \in Seq(Kinds)
  BY <1>2, ConcatProperties, Zenon
<1>4. Layers \in Seq(Kinds) /\ Len(Layers) \in Nat
  BY <1>3, LenProperties DEF Layers
<1> QED
  BY <1>1, <1>4, HandlingAssumption DEF Config

\* A worker that has nothing to do has the type of a worker.
LEMMA FreeType == Free \in WorkerStates
BY HandlingAssumption DEF Free, NoJob, WorkerStates, Jobs, Outcomes

\* The state of the workers, spelled with the sets above.
LEMMA WorkerType ==
  ASSUME TypeOK
  PROVE  /\ wk \in [Workers -> WorkerStates]
         /\ todo \in [Routes -> Seq(Tasks)]
         /\ \A w \in Workers : Route(w) \in Routes
         /\ N \in Nat /\ Policy \in Nat \ {0}
BY ConfigType, HandlingAssumption DEF TypeOK, WorkerStates, Jobs, Tasks, Route

\* The counters, spans and log records are counted up.
LEMMA ShowType ==
  ASSUME TypeOK, NEW r \in Routes, NEW F, Show(r, F)
  PROVE  seen' \in [Routes -> [Fields -> Nat]]
BY DEF TypeOK, Show

\* So is the record of what became of a message.
LEMMA NoteType ==
  ASSUME TypeOK, NEW m \in Msgs, NEW f \in Fates, Note(m, f)
  PROVE  hist' \in [Msgs -> [Fates -> Nat]]
BY DEF TypeOK, Note

\* The process ends, of one of the causes there are.
LEMMA DieType ==
  ASSUME TypeOK, NEW why \in {"handler", "callback"}, Die(why)
  PROVE  TypeOK'
<1>1. Registered \in [Range(Collectors) -> {"free", "ours", "foreign"}]
  BY DEF Registered
<1>2. wk' \in [Workers -> WorkerStates] /\ \A w \in Workers : wk'[w].at = 0
  BY FreeType DEF Die, Free
<1>3. UNCHANGED <<config, sqs, rcv, poisoned, hist>> /\ Layers' = Layers
  BY DEF Die, queueVars, Layers
<1>4. Len(Layers) \in Nat
  BY ConfigType DEF TypeOK
<1>5. up' = why /\ todo' \in [Routes -> Seq(Tasks)]
  BY DEF Die
<1>6. registry' = Registered /\ collector' \in [Routes -> Seq({"shared", "private"})]
  BY DEF Die
<1>7. seen' \in [Routes -> [Fields -> Nat]] /\ did' \in [Routes -> [Outcomes -> Nat]]
  BY DEF Die, Zero
<1>8. \A w \in Workers : wk'[w].at <= Len(Layers') + 1
  BY <1>2, <1>3, <1>4
<1> QED
  BY <1>1, <1>2, <1>3, <1>5, <1>6, <1>7, <1>8 DEF TypeOK, WorkerStates, Jobs, Tasks

-----------------------------------------------------------------------------
(* What the actions do.                                                     *)

\* The head and the tail of what waits.
LEMMA QueueParts ==
  ASSUME TypeOK, NEW r \in Routes, todo[r] # << >>
  PROVE  /\ Len(todo[r]) \in Nat /\ Len(todo[r]) >= 1
         /\ Head(todo[r]) = todo[r][1] /\ Head(todo[r]) \in Tasks
         /\ Tail(todo[r]) \in Seq(Tasks)
         /\ Len(Tail(todo[r])) = Len(todo[r]) - 1
         /\ \A i \in 1 .. Len(todo[r]) - 1 : Tail(todo[r])[i] = todo[r][i + 1]
<1>1. todo[r] \in Seq(Tasks)
  BY WorkerType
<1> QED
  BY <1>1, HeadTailProperties

\* What a batch is made of: visible messages of the route that have receives
\* left.
LEMMA BatchType ==
  ASSUME TypeOK, NEW r \in Routes, NEW S \in Batches(r)
  PROVE  /\ S \subseteq Msgs /\ IsFiniteSet(S) /\ Cardinality(S) \in Nat \ {0}
         /\ \A m \in S : config.home[m] = r /\ sqs[m] = "visible" /\ rcv[m] < Policy
<1>1. S \subseteq Msgs /\ S # {} /\ \A m \in S : config.home[m] = r /\ sqs[m] = "visible" /\ rcv[m] < Policy
  BY DEF Batches
<1>2. IsFiniteSet(Msgs)
  BY HandlingAssumption, FS_Interval DEF Msgs
<1> QED
  BY <1>1, <1>2, FS_Subset, FS_CardinalityType, FS_EmptySet

\* In queue order every message has a place.
LEMMA InOrderOnto ==
  ASSUME TypeOK, NEW r \in Routes, NEW S \in Batches(r), NEW q \in InOrder(S)
  PROVE  \A m \in S : \E i \in 1 .. Cardinality(S) : q[i] = m
<1>1. S \subseteq Msgs /\ IsFiniteSet(S) /\ Cardinality(S) \in Nat \ {0}
  BY BatchType
<1> DEFINE P == 1 .. Cardinality(S)
<1>2. /\ q \in [P -> S] /\ \A i, j \in P : i < j => q[i] < q[j]
      /\ \A i \in P : q[i] \in Nat
  <2>1. q \in [P -> S] /\ \A i, j \in DOMAIN q : i < j => q[i] < q[j]
    BY DEF InOrder
  <2>2. DOMAIN q = P
    BY <2>1
  <2>3. S \subseteq Nat
    BY <1>1, HandlingAssumption DEF Msgs
  <2> HIDE DEF P
  <2> QED
    BY <2>1, <2>2, <2>3
<1>3. \A i, j \in P : q[i] = q[j] => i = j
  <2>1. ASSUME NEW i \in P, NEW j \in P, i # j
        PROVE  q[i] # q[j]
    <3>1. i < j \/ j < i
      BY <1>1, <2>1
    <3> QED
      BY <1>2, <3>1
  <2> QED
    BY <2>1
<1>4. q \in Injection(P, S)
  BY <1>2, <1>3 DEF Injection, IsInjective
<1>5. Cardinality(P) = Cardinality(S)
  BY <1>1, FS_Interval
<1>6. q \in Surjection(P, S)
  BY <1>1, <1>4, <1>5, FS_Injection
<1> QED
  BY <1>6 DEF Surjection

\* A receive adds deliveries with a new receipt and a new barrier, in order.
LEMMA ReceiveEffect ==
  ASSUME TypeOK, NEW r \in Routes, NEW S \in Batches(r), Receive(r, S)
  PROVE  /\ todo'[r] \in Seq(Tasks)
         /\ todo' = [todo EXCEPT ![r] = todo'[r]]
         /\ \E b \in S : \A i \in 1 .. Len(todo'[r]) :
              /\ todo'[r][i].msg \in S
              /\ todo'[r][i].count = rcv[todo'[r][i].msg] + 1
              /\ todo'[r][i].batch = <<b, rcv[b] + 1>>
         /\ \A m \in S : \E i \in 1 .. Len(todo'[r]) : todo'[r][i].msg = m
         /\ \A i, j \in 1 .. Len(todo'[r]) : i < j => todo'[r][i].msg < todo'[r][j].msg
         /\ sqs' = [m \in Msgs |-> IF m \in S THEN "inflight" ELSE sqs[m]]
         /\ rcv' = [m \in Msgs |-> IF m \in S THEN rcv[m] + 1 ELSE rcv[m]]
         /\ up = "yes" /\ Built(r) /\ todo[r] = << >>
         /\ UNCHANGED <<config, up, poisoned, wk, buildVars, seen, did, hist>>
<1>1. PICK order \in InOrder(S) :
        todo' = [todo EXCEPT ![r] = [i \in 1 .. Len(order) |->
                  [msg |-> order[i], count |-> rcv[order[i]] + 1,
                   batch |-> <<order[1], rcv[order[1]] + 1>>]]]
  BY DEF Receive
<1> DEFINE q == [i \in 1 .. Len(order) |->
                  [msg |-> order[i], count |-> rcv[order[i]] + 1,
                   batch |-> <<order[1], rcv[order[1]] + 1>>]]
<1>2. /\ S \subseteq Msgs /\ Cardinality(S) \in Nat \ {0}
      /\ \A m \in S : rcv[m] < Policy
  BY BatchType
<1>3. /\ order \in [1 .. Cardinality(S) -> S] /\ Len(order) = Cardinality(S)
      /\ \A i, j \in 1 .. Len(order) : i < j => order[i] < order[j]
  BY <1>2 DEF InOrder
<1>4. \A m \in S : m \in Msgs /\ rcv[m] + 1 \in 1 .. Policy
  BY <1>2, HandlingAssumption DEF TypeOK
<1>5. order[1] \in S /\ \A i \in 1 .. Len(order) : order[i] \in S
  BY <1>2, <1>3
<1>6. q \in Seq(Tasks) /\ Len(q) = Len(order)
  <2>1. order[1] \in Msgs /\ rcv[order[1]] + 1 \in 1 .. Policy
    BY <1>4, <1>5
  <2>2. <<order[1], rcv[order[1]] + 1>> \in Msgs \X (1 .. Policy)
    BY <2>1
  <2>3. ASSUME NEW i \in 1 .. Len(order)
        PROVE  [msg |-> order[i], count |-> rcv[order[i]] + 1,
                batch |-> <<order[1], rcv[order[1]] + 1>>] \in Tasks
    BY <1>4, <1>5, <2>2 DEF Tasks
  <2>4. q \in [1 .. Len(order) -> Tasks]
    BY <2>3
  <2> QED
    BY <1>2, <1>3, <2>4
<1>7. todo'[r] = q /\ todo' = [todo EXCEPT ![r] = todo'[r]]
  BY <1>1, WorkerType
<1>8. \A i \in 1 .. Len(q) : /\ q[i].msg = order[i] /\ q[i].count = rcv[order[i]] + 1
                              /\ q[i].batch = <<order[1], rcv[order[1]] + 1>>
  BY <1>6
<1>9. \A i, j \in 1 .. Len(q) : i < j => q[i].msg < q[j].msg
  BY <1>3, <1>6, <1>8
<1> HIDE DEF q
<1>10. \A m \in S : \E i \in 1 .. Len(q) : q[i].msg = m
  <2>1. \A m \in S : \E i \in 1 .. Cardinality(S) : order[i] = m
    BY InOrderOnto
  <2> QED
    BY <1>3, <1>6, <1>8, <2>1
<1>11. \E b \in S : \A i \in 1 .. Len(q) :
         q[i].msg \in S /\ q[i].count = rcv[q[i].msg] + 1 /\ q[i].batch = <<b, rcv[b] + 1>>
  BY <1>5, <1>6, <1>8
<1>12. /\ sqs' = [m \in Msgs |-> IF m \in S THEN "inflight" ELSE sqs[m]]
       /\ rcv' = [m \in Msgs |-> IF m \in S THEN rcv[m] + 1 ELSE rcv[m]]
       /\ up = "yes" /\ Built(r) /\ todo[r] = << >>
       /\ UNCHANGED <<config, up, poisoned, wk, buildVars, seen, did, hist>>
  BY DEF Receive
<1> QED
  BY <1>6, <1>7, <1>9, <1>10, <1>11, <1>12

\* A delivery is taken from the head of the queue of the worker's route.
LEMMA TailType ==
  ASSUME TypeOK, NEW r \in Routes, todo[r] # << >>, todo' = [todo EXCEPT ![r] = Tail(@)]
  PROVE  todo' \in [Routes -> Seq(Tasks)]
BY WorkerType, QueueParts

\* A worker that changes stays within its chain.
LEMMA MoveType ==
  ASSUME TypeOK, NEW w \in Workers, NEW s \in WorkerStates, s.at <= Len(Layers) + 1,
         wk' = [wk EXCEPT ![w] = s], UNCHANGED config
  PROVE  wk' \in [Workers -> WorkerStates] /\ \A v \in Workers : wk'[v].at <= Len(Layers') + 1
<1>1. wk \in [Workers -> WorkerStates] /\ \A v \in Workers : wk[v].at <= Len(Layers) + 1
  BY WorkerType DEF TypeOK
<1>2. Layers' = Layers
  BY DEF Layers
<1> QED
  BY <1>1, <1>2

\* What the workers do keeps the types.
LEMMA WorkerKeepsType ==
  ASSUME TypeOK, Deliveries, NEW w \in Workers, Worker(w)
  PROVE  TypeOK'
<1> DEFINE Kept == /\ config' \in Configs
                   /\ up' \in {"yes", "handler", "callback"}
                   /\ sqs' \in [Msgs -> {"visible", "inflight", "gone", "dlq"}]
                   /\ rcv' \in [Msgs -> 0 .. Policy]
                   /\ registry' \in [Range(Collectors) -> {"free", "ours", "foreign"}]
                   /\ collector' \in [Routes -> Seq({"shared", "private"})]
           Moved == /\ todo' \in [Routes -> Seq(Tasks)]
                    /\ poisoned' \subseteq Msgs \X (1 .. Policy)
                    /\ wk' \in [Workers -> WorkerStates]
                    /\ \A v \in Workers : wk'[v].at <= Len(Layers') + 1
                    /\ seen' \in [Routes -> [Fields -> Nat]]
                    /\ did' \in [Routes -> [Outcomes -> Nat]]
                    /\ hist' \in [Msgs -> [Fates -> Nat]]
<1>1. Kept /\ Moved => TypeOK'
  BY DEF TypeOK, WorkerStates, Jobs, Tasks
<1>2. /\ wk[w] \in WorkerStates /\ wk[w].at <= Len(Layers) + 1 /\ Route(w) \in Routes
      /\ Len(Layers) \in Nat
  BY WorkerType, ConfigType DEF TypeOK
<1>3. UNCHANGED <<config, up, sqs, rcv, registry, collector>> => Kept
  BY DEF TypeOK
<1>4. /\ todo \in [Routes -> Seq(Tasks)] /\ wk \in [Workers -> WorkerStates]
      /\ poisoned \subseteq Msgs \X (1 .. Policy)
      /\ seen \in [Routes -> [Fields -> Nat]] /\ did \in [Routes -> [Outcomes -> Nat]]
      /\ hist \in [Msgs -> [Fates -> Nat]]
  BY WorkerType DEF TypeOK
<1>5. CASE Hold(w)
  <2>1. UNCHANGED <<config, up, sqs, rcv, registry, collector, poisoned, wk, seen, did, hist>>
    BY <1>5 DEF Hold, queueVars, buildVars
  <2>2. todo' \in [Routes -> Seq(Tasks)]
    BY <1>2, <1>5, TailType DEF Hold
  <2>3. \A v \in Workers : wk'[v].at <= Len(Layers') + 1
    BY <2>1 DEF TypeOK, Layers
  <2> QED
    BY <1>1, <1>3, <1>4, <2>1, <2>2, <2>3
<1>6. CASE Take(w)
  <2>1. UNCHANGED <<config, up, sqs, rcv, registry, collector, poisoned, seen, did, hist>>
    BY <1>6 DEF Take, queueVars, buildVars
  <2>2. todo' \in [Routes -> Seq(Tasks)] /\ todo[Route(w)] # << >>
    BY <1>2, <1>6, TailType DEF Take
  <2> DEFINE s == [Free EXCEPT !.pc = "in", !.at = 1, !.job = Head(todo[Route(w)])]
  <2>3. wk' = [wk EXCEPT ![w] = s]
    BY <1>6 DEF Take
  <2>4. Head(todo[Route(w)]) \in Jobs
    BY <1>2, <2>2, QueueParts, WorkerType DEF Tasks, Jobs, Msgs
  <2>5. s \in WorkerStates /\ s.at = 1
    BY <2>4, FreeType DEF WorkerStates, Free
  <2> HIDE DEF s
  <2>6. s.at <= Len(Layers) + 1
    BY <1>2, <2>5
  <2>7. /\ wk' \in [Workers -> WorkerStates]
        /\ \A v \in Workers : wk'[v].at <= Len(Layers') + 1
    BY <2>1, <2>3, <2>5, <2>6, MoveType
  <2> QED
    BY <1>1, <1>3, <1>4, <2>1, <2>2, <2>7
<1>7. CASE Enter(w)
  <2>1. UNCHANGED <<config, up, sqs, rcv, registry, collector, todo, poisoned, did, hist>>
    BY <1>7 DEF Enter, queueVars, buildVars
  <2>2. seen' \in [Routes -> [Fields -> Nat]]
    BY <1>2, <1>7, ShowType DEF Enter
  <2>3. /\ wk' = [wk EXCEPT ![w] = [wk[w] EXCEPT !.at = wk[w].at + 1]]
        /\ wk[w].at <= Len(Layers)
    BY <1>4, <1>7 DEF Enter
  <2>4. /\ [wk[w] EXCEPT !.at = wk[w].at + 1] \in WorkerStates
        /\ [wk[w] EXCEPT !.at = wk[w].at + 1].at <= Len(Layers) + 1
    BY <1>2, <2>3 DEF WorkerStates
  <2>5. /\ wk' \in [Workers -> WorkerStates]
        /\ \A v \in Workers : wk'[v].at <= Len(Layers') + 1
    BY <2>1, <2>3, <2>4, MoveType
  <2> QED
    BY <1>1, <1>3, <1>4, <2>1, <2>2, <2>5
<1>8. CASE Handle(w)
  <2>1. UNCHANGED <<config, up, sqs, rcv, registry, collector, todo, poisoned, seen>>
    BY <1>8 DEF Handle, queueVars, buildVars
  <2>2. PICK o \in Results(wk[w].job.msg) :
          /\ wk' = [wk EXCEPT ![w].pc = "out", ![w].at = @ - 1, ![w].res = o.res,
                              ![w].backed = o.backed]
          /\ did' = [did EXCEPT ![Route(w)][o.res] = @ + 1]
    BY <1>8 DEF Handle
  <2>3. o.res \in Outcomes /\ o.backed \in BOOLEAN
    BY DEF Results, Outcomes
  <2>4. did' \in [Routes -> [Outcomes -> Nat]]
    BY <1>2, <1>4, <2>2, <2>3
  <2>5. hist' \in [Msgs -> [Fates -> Nat]]
    <3>1. wk[w].job.msg \in Msgs
      BY <1>8 DEF Handle, Deliveries, Held, Waiting, Sorted
    <3> QED
      BY <1>8, <3>1, NoteType DEF Handle, Fates
  <2> DEFINE s == [wk[w] EXCEPT !.pc = "out", !.at = wk[w].at - 1, !.res = o.res,
                                !.backed = o.backed]
  <2>6. wk' = [wk EXCEPT ![w] = s]
    BY <1>4, <2>2
  <2>7. wk[w].at = Len(Layers) + 1
    BY <1>8 DEF Handle
  <2>8. s \in WorkerStates /\ s.at <= Len(Layers) + 1
    <3>1. wk[w].at - 1 \in Nat /\ wk[w].at - 1 <= Len(Layers) + 1
      BY <1>2, <2>7
    <3> QED
      BY <1>2, <2>3, <3>1 DEF WorkerStates
  <2> HIDE DEF s
  <2>9. /\ wk' \in [Workers -> WorkerStates]
        /\ \A v \in Workers : wk'[v].at <= Len(Layers') + 1
    BY <2>1, <2>6, <2>8, MoveType
  <2> QED
    BY <1>1, <1>3, <1>4, <2>1, <2>4, <2>5, <2>9
<1>9. CASE Exit(w)
  <2>1. UNCHANGED <<config, up, sqs, rcv, registry, collector, todo, poisoned, did, hist>>
    BY <1>9 DEF Exit, queueVars, buildVars
  <2>2. seen' \in [Routes -> [Fields -> Nat]]
    BY <1>2, <1>9, ShowType DEF Exit
  <2> DEFINE res == Passes(Layers[wk[w].at], wk[w].res)
             s == [wk[w] EXCEPT !.at = wk[w].at - 1, !.res = res]
  <2>3. wk' = [wk EXCEPT ![w] = s] /\ wk[w].at > 0
    BY <1>4, <1>9 DEF Exit
  <2>4. res \in Outcomes
    BY <1>2 DEF Passes, Outcomes, WorkerStates
  <2>5. s \in WorkerStates /\ s.at <= Len(Layers) + 1
    <3>1. wk[w].at \in Nat
      BY <1>2 DEF WorkerStates
    <3>2. wk[w].at - 1 \in Nat /\ wk[w].at - 1 <= Len(Layers) + 1
      BY <1>2, <2>3, <3>1
    <3> HIDE DEF res
    <3> QED
      BY <1>2, <2>4, <3>2 DEF WorkerStates
  <2> HIDE DEF s
  <2>6. /\ wk' \in [Workers -> WorkerStates]
        /\ \A v \in Workers : wk'[v].at <= Len(Layers') + 1
    BY <2>1, <2>3, <2>5, MoveType
  <2> QED
    BY <1>1, <1>3, <1>4, <2>1, <2>2, <2>6
<1>10. CASE HandlerPanics(w)
  BY <1>10, DieType DEF HandlerPanics
<1>11. CASE Settle(w)
  <2>1. UNCHANGED <<config, up, sqs, rcv, registry, collector, todo, seen, did>>
    BY <1>11 DEF Settle, queueVars, buildVars
  <2>2. wk[w].pc = "out" /\ wk[w].job.msg \in Msgs
    BY <1>11 DEF Settle, Deliveries, Held, Waiting, Sorted
  <2>3. PICK f \in Fates, s \in WorkerStates :
          hist' = [hist EXCEPT ![wk[w].job.msg][f] = @ + 1] /\ wk' = [wk EXCEPT ![w] = s]
          /\ s.at <= Len(Layers) + 1
    <3>1. Free \in WorkerStates /\ Free.at <= Len(Layers) + 1
      BY <1>2, FreeType DEF Free
    <3>2. \A p \in {"signal", "delete"} :
            /\ [wk[w] EXCEPT !.pc = p] \in WorkerStates
            /\ [wk[w] EXCEPT !.pc = p].at <= Len(Layers) + 1
      BY <1>2 DEF WorkerStates
    <3> QED
      BY <1>4, <1>11, <3>1, <3>2 DEF Settle, Note, Fates
  <2>4. hist' \in [Msgs -> [Fates -> Nat]]
    BY <1>4, <2>2, <2>3
  <2>5. /\ wk' \in [Workers -> WorkerStates]
        /\ \A v \in Workers : wk'[v].at <= Len(Layers') + 1
    BY <2>1, <2>3, MoveType
  <2>6. poisoned' \subseteq Msgs \X (1 .. Policy)
    <3>1. wk[w].job.batch \in Msgs \X (1 .. Policy)
      BY <2>2 DEF Deliveries, Held, Waiting, Sorted
    <3>2. poisoned' \subseteq poisoned \cup {wk[w].job.batch}
      BY <1>11 DEF Settle, FailGroup
    <3> QED
      BY <1>4, <3>1, <3>2
  <2> QED
    BY <1>1, <1>3, <1>4, <2>1, <2>4, <2>5, <2>6
<1>12. CASE Signal(w)
  <2>1. UNCHANGED <<config, up, sqs, rcv, registry, collector, todo, poisoned, seen, did>>
    BY <1>12 DEF Signal, queueVars, buildVars
  <2>2. hist' \in [Msgs -> [Fates -> Nat]]
    <3>1. wk[w].job.msg \in Msgs
      BY <1>12 DEF Signal, Deliveries, Held, Waiting, Sorted
    <3> QED
      BY <1>12, <3>1, NoteType DEF Signal, Fates
  <2>3. PICK s \in WorkerStates : wk' = [wk EXCEPT ![w] = s] /\ s.at <= Len(Layers) + 1
    <3>1. Free \in WorkerStates /\ Free.at <= Len(Layers) + 1
      BY <1>2, FreeType DEF Free
    <3>2. /\ [wk[w] EXCEPT !.pc = "callback"] \in WorkerStates
          /\ [wk[w] EXCEPT !.pc = "callback"].at <= Len(Layers) + 1
      BY <1>2 DEF WorkerStates
    <3> QED
      BY <1>4, <1>12, <3>1, <3>2 DEF Signal
  <2>4. /\ wk' \in [Workers -> WorkerStates]
        /\ \A v \in Workers : wk'[v].at <= Len(Layers') + 1
    BY <2>1, <2>3, MoveType
  <2> QED
    BY <1>1, <1>3, <1>4, <2>1, <2>2, <2>4
<1>13. CASE Callback(w)
  <2>1. CASE Die("callback")
    BY <2>1, DieType
  <2>2. CASE /\ wk' = [wk EXCEPT ![w] = Free]
             /\ UNCHANGED <<config, up, queueVars, todo, poisoned, buildVars, seen, did, hist>>
    <3>1. UNCHANGED <<config, up, sqs, rcv, registry, collector, todo, poisoned, seen, did, hist>>
      BY <2>2 DEF queueVars, buildVars
    <3>2. Free \in WorkerStates /\ Free.at <= Len(Layers) + 1
      BY <1>2, FreeType DEF Free
    <3>3. /\ wk' \in [Workers -> WorkerStates]
          /\ \A v \in Workers : wk'[v].at <= Len(Layers') + 1
      BY <2>2, <3>1, <3>2, MoveType
    <3> QED
      BY <1>1, <1>3, <1>4, <3>1, <3>3
  <2> QED
    BY <1>13, <2>1, <2>2 DEF Callback
<1>14. CASE Delete(w)
  <2>1. UNCHANGED <<config, up, rcv, registry, collector, todo, poisoned, seen, did, hist>>
    BY <1>14 DEF Delete, queueVars, buildVars
  <2>2. sqs' \in [Msgs -> {"visible", "inflight", "gone", "dlq"}]
    <3>1. sqs' = sqs \/ sqs' = [sqs EXCEPT ![wk[w].job.msg] = "gone"]
      BY <1>14 DEF Delete
    <3>2. sqs \in [Msgs -> {"visible", "inflight", "gone", "dlq"}]
      BY DEF TypeOK
    <3> QED
      BY <3>1, <3>2
  <2>3. Free \in WorkerStates /\ Free.at <= Len(Layers) + 1
    BY <1>2, FreeType DEF Free
  <2>4. wk' = [wk EXCEPT ![w] = Free]
    BY <1>14 DEF Delete
  <2>5. /\ wk' \in [Workers -> WorkerStates]
        /\ \A v \in Workers : wk'[v].at <= Len(Layers') + 1
    BY <2>1, <2>3, <2>4, MoveType
  <2>6. Kept
    BY <2>1, <2>2 DEF TypeOK
  <2> QED
    BY <1>1, <1>4, <2>1, <2>5, <2>6
<1> QED
  BY <1>5, <1>6, <1>7, <1>8, <1>9, <1>10, <1>11, <1>12, <1>13, <1>14 DEF Worker

\* So does the rest.
LEMMA TypeInductive ==
  ASSUME TypeOK, Deliveries, [Next]_vars
  PROVE  TypeOK'
<1>1. ASSUME UNCHANGED vars
      PROVE  TypeOK'
  BY <1>1 DEF TypeOK, vars, queueVars, buildVars, Layers
<1>2. ASSUME NEW r \in Routes, Register(r)
      PROVE  TypeOK'
  <2>1. UNCHANGED <<config, up, sqs, rcv, todo, poisoned, wk, seen, did, hist>> /\ Layers' = Layers
    BY <1>2 DEF Register, queueVars, Layers
  <2>2. collector[r] \in Seq({"shared", "private"}) /\ Len(collector[r]) < Len(Collectors)
    BY <1>2 DEF TypeOK, Register
  <2>3. collector' \in [Routes -> Seq({"shared", "private"})]
    BY <1>2, <2>2 DEF TypeOK, Register, CollectorFor
  <2>4. registry' \in [Range(Collectors) -> {"free", "ours", "foreign"}]
    BY <1>2 DEF TypeOK, Register
  <2> QED
    BY <2>1, <2>3, <2>4 DEF TypeOK
<1>3. ASSUME NEW r \in Routes, NEW S \in Batches(r), Receive(r, S)
      PROVE  TypeOK'
  <2>1. UNCHANGED <<config, up, poisoned, wk, registry, collector, seen, did, hist>>
        /\ Layers' = Layers
    BY <1>3 DEF Receive, buildVars, Layers
  <2>2. todo' \in [Routes -> Seq(Tasks)]
    <3>1. todo'[r] \in Seq(Tasks) /\ todo' = [todo EXCEPT ![r] = todo'[r]]
      BY <1>3, ReceiveEffect
    <3> QED
      BY <3>1, WorkerType
  <2>3. /\ sqs' \in [Msgs -> {"visible", "inflight", "gone", "dlq"}]
        /\ rcv' \in [Msgs -> 0 .. Policy]
    <3>1. /\ sqs' = [m \in Msgs |-> IF m \in S THEN "inflight" ELSE sqs[m]]
          /\ rcv' = [m \in Msgs |-> IF m \in S THEN rcv[m] + 1 ELSE rcv[m]]
      BY <1>3, ReceiveEffect
    <3>2. Policy \in Nat /\ \A m \in S : rcv[m] < Policy
      BY BatchType, HandlingAssumption
    <3> QED
      BY <3>1, <3>2 DEF TypeOK
  <2> QED
    BY <2>1, <2>2, <2>3 DEF TypeOK, Tasks
<1>4. ASSUME NEW m \in Msgs, Expire(m) \/ Redrive(m)
      PROVE  TypeOK'
  <2>1. UNCHANGED <<config, up, rcv, todo, poisoned, wk, registry, collector, seen, did, hist>>
        /\ Layers' = Layers
    BY <1>4 DEF Expire, Redrive, buildVars, Layers
  <2>2. sqs' \in [Msgs -> {"visible", "inflight", "gone", "dlq"}]
    BY <1>4 DEF Expire, Redrive, TypeOK
  <2> QED
    BY <2>1, <2>2 DEF TypeOK
<1>5. CASE Restart
  BY <1>5 DEF Restart, TypeOK, queueVars, buildVars, Layers
<1> QED
  BY <1>1, <1>2, <1>3, <1>4, <1>5, WorkerKeepsType DEF Next, Poll, Done

-----------------------------------------------------------------------------
(* Deliveries.                                                              *)

\* The worker w goes on with its delivery or is done with it.
GoesOn(w) ==
  /\ UNCHANGED <<config, rcv, todo>>
  /\ wk[w].pc # "idle"
  /\ \A v \in Workers \ {w} : wk'[v] = wk[v]
  /\ wk'[w].pc # "idle" => wk'[w].job = wk[w].job
  /\ \A m \in Msgs : sqs'[m] = "dlq" => sqs[m] = "dlq"

\* The process is gone and what it held with it.
Dies ==
  /\ UNCHANGED <<config, rcv, sqs, poisoned, hist>>
  /\ \A w \in Workers : wk'[w].pc = "idle"
  /\ \A r \in Routes : todo'[r] = << >>

\* Most steps of a worker are of the first kind.
LEMMA WorkerGoesOn ==
  ASSUME TypeOK, NEW w \in Workers,
         Enter(w) \/ Handle(w) \/ Exit(w) \/ Settle(w) \/ Signal(w) \/ Delete(w) \/ Callback(w)
  PROVE  GoesOn(w) \/ Die("callback")
<1>1. wk \in [Workers -> WorkerStates]
  BY WorkerType
<1>2. Free.pc = "idle"
  BY DEF Free
<1>3. CASE Enter(w)
  BY <1>1, <1>3 DEF Enter, GoesOn, queueVars, WorkerStates
<1>4. CASE Handle(w)
  <2>1. UNCHANGED <<config, rcv, todo, sqs>> /\ wk[w].pc = "in"
    BY <1>4 DEF Handle, queueVars
  <2>2. PICK o : wk' = [wk EXCEPT ![w].pc = "out", ![w].at = @ - 1, ![w].res = o.res,
                                  ![w].backed = o.backed]
    BY <1>4 DEF Handle
  <2> QED
    BY <1>1, <2>1, <2>2 DEF GoesOn, WorkerStates
<1>5. CASE Exit(w)
  BY <1>1, <1>5 DEF Exit, GoesOn, queueVars, WorkerStates
<1>6. CASE Settle(w)
  <2>1. UNCHANGED <<config, rcv, todo, sqs>> /\ wk[w].pc = "out"
    BY <1>6 DEF Settle, queueVars
  <2>2. \/ wk' = [wk EXCEPT ![w] = Free]
        \/ \E p \in {"signal", "delete"} : wk' = [wk EXCEPT ![w] = [@ EXCEPT !.pc = p]]
    BY <1>6 DEF Settle
  <2> QED
    BY <1>1, <1>2, <2>1, <2>2 DEF GoesOn, WorkerStates
<1>7. CASE Signal(w)
  <2>1. UNCHANGED <<config, rcv, todo, sqs>> /\ wk[w].pc = "signal"
    BY <1>7 DEF Signal, queueVars
  <2>2. \/ wk' = [wk EXCEPT ![w] = Free]
        \/ wk' = [wk EXCEPT ![w] = [@ EXCEPT !.pc = "callback"]]
    BY <1>7 DEF Signal
  <2> QED
    BY <1>1, <1>2, <2>1, <2>2 DEF GoesOn, WorkerStates
<1>8. CASE Delete(w)
  <2>1. /\ UNCHANGED <<config, rcv, todo>> /\ wk[w].pc = "delete"
        /\ wk' = [wk EXCEPT ![w] = Free]
    BY <1>8 DEF Delete
  <2>2. \A m \in Msgs : sqs'[m] = "dlq" => sqs[m] = "dlq"
    BY <1>8 DEF Delete, TypeOK
  <2> QED
    BY <1>1, <1>2, <2>1, <2>2 DEF GoesOn
<1>9. CASE Callback(w)
  BY <1>1, <1>2, <1>9 DEF Callback, GoesOn, queueVars
<1> QED
  BY <1>3, <1>4, <1>5, <1>6, <1>7, <1>8, <1>9

\* What the process held is gone with it.
LEMMA DiesEffect ==
  ASSUME NEW why, Die(why)
  PROVE  Dies
BY DEF Die, Dies, Free, queueVars

\* Neither kind of step disturbs the deliveries.
LEMMA GoesOnKeeps ==
  ASSUME TypeOK, Deliveries, HeldOnce, NEW w \in Workers, GoesOn(w)
  PROVE  Deliveries' /\ HeldOnce'
<1>1. \A v \in Workers : wk'[v].pc # "idle" => wk[v].pc # "idle" /\ wk'[v].job = wk[v].job
  BY DEF GoesOn
<1>2. UNCHANGED <<config, rcv, todo>> /\ \A m \in Msgs : sqs'[m] = "dlq" => sqs[m] = "dlq"
  BY DEF GoesOn
<1>3. Deliveries'
  BY <1>1, <1>2 DEF Deliveries, Held, Waiting, Sorted, Route
<1>4. HeldOnce'
  BY <1>1, <1>2 DEF HeldOnce
<1> QED
  BY <1>3, <1>4

\* A process that dies holds nothing.
LEMMA DiesKeeps ==
  ASSUME TypeOK, Deliveries, Dies
  PROVE  Deliveries' /\ HeldOnce'
<1>1. \A r \in Routes : ~ \E i \in 1 .. Len(todo'[r]) : TRUE
  BY DEF Dies
<1>2. UNCHANGED <<config, rcv, sqs>> /\ \A v \in Workers : wk'[v].pc = "idle"
  BY DEF Dies
<1>3. Deliveries'
  BY <1>1, <1>2 DEF Deliveries, Held, Waiting, Sorted
<1>4. HeldOnce'
  BY <1>1, <1>2 DEF HeldOnce
<1> QED
  BY <1>3, <1>4

\* What is taken from the head of a queue, by a worker or by nobody.
LEMMA TailKeeps ==
  ASSUME TypeOK, Deliveries, HeldOnce, NEW w \in Workers, wk[w].pc = "idle",
         NEW r \in Routes, r = Route(w), todo[r] # << >>,
         UNCHANGED <<config, rcv, sqs>>,
         todo' = [todo EXCEPT ![r] = Tail(@)],
         \A v \in Workers \ {w} : wk'[v] = wk[v],
         wk'[w].pc # "idle" => wk'[w].job = Head(todo[r])
  PROVE  Deliveries' /\ HeldOnce'
<1>1. /\ \A s \in Routes \ {r} : todo'[s] = todo[s]
      /\ Len(todo[r]) \in Nat /\ Len(todo[r]) >= 1
      /\ Len(todo'[r]) = Len(todo[r]) - 1
      /\ \A i \in 1 .. Len(todo[r]) - 1 : todo'[r][i] = todo[r][i + 1]
      /\ Head(todo[r]) = todo[r][1] /\ Head(todo[r]) \in Tasks
  BY WorkerType, QueueParts
<1>2. \A s \in Routes : Len(todo[s]) \in Nat /\ \A i \in 1 .. Len(todo[s]) : todo[s][i] \in Tasks
  BY WorkerType
<1>3. \A s \in Routes : \A i \in 1 .. Len(todo'[s]) :
        \E j \in 1 .. Len(todo[s]) : todo'[s][i] = todo[s][j] /\ (s = r => j = i + 1)
  <2>1. \A i \in 1 .. Len(todo'[r]) : i \in 1 .. Len(todo[r]) - 1 /\ i + 1 \in 1 .. Len(todo[r])
    BY <1>1
  <2> QED
    BY <1>1, <2>1
<1>4. 1 \in 1 .. Len(todo[r])
  BY <1>1
<1>5. Deliveries'
  <2>1. \A s \in Routes : \A i, j \in 1 .. Len(todo'[s]) :
          i < j => todo'[s][i].msg < todo'[s][j].msg
    <3>1. ASSUME NEW i \in 1 .. Len(todo'[r]), NEW j \in 1 .. Len(todo'[r]), i < j
          PROVE  todo'[r][i].msg < todo'[r][j].msg
      <4>1. /\ i + 1 \in 1 .. Len(todo[r]) /\ j + 1 \in 1 .. Len(todo[r]) /\ i + 1 < j + 1
            /\ i \in 1 .. Len(todo[r]) - 1 /\ j \in 1 .. Len(todo[r]) - 1
        BY <1>1, <3>1
      <4> QED
        BY <1>1, <4>1 DEF Deliveries, Sorted
    <3>2. ASSUME NEW s \in Routes, s # r, NEW i \in 1 .. Len(todo'[s]), NEW j \in 1 .. Len(todo'[s]), i < j
          PROVE  todo'[s][i].msg < todo'[s][j].msg
      <4>1. todo'[s] = todo[s]
        BY <1>1, <3>2
      <4> QED
        BY <3>2, <4>1 DEF Deliveries, Sorted
    <3> QED
      BY <3>1, <3>2
  <2>2. ASSUME NEW s \in Routes, NEW i \in 1 .. Len(todo'[s])
        PROVE  LET d == todo'[s][i]
               IN  /\ d.count <= rcv[d.msg] /\ config.home[d.msg] = s
                   /\ d.batch[2] <= rcv[d.batch[1]] /\ config.home[d.batch[1]] = s
    <3>1. PICK j \in 1 .. Len(todo[s]) : todo'[s][i] = todo[s][j]
      BY <1>3
    <3> QED
      BY <3>1 DEF Deliveries, Held, Waiting, Sorted
  <2>3. /\ Head(todo[r]).count <= rcv[Head(todo[r]).msg] /\ config.home[Head(todo[r]).msg] = r
        /\ Head(todo[r]).batch[2] <= rcv[Head(todo[r]).batch[1]]
        /\ config.home[Head(todo[r]).batch[1]] = r
    BY <1>1, <1>4 DEF Deliveries, Held, Waiting, Sorted
  <2>4. UNCHANGED <<config, rcv, sqs>>
    OBVIOUS
  <2>5. ASSUME NEW v \in Workers, wk'[v].pc # "idle"
        PROVE  LET d == wk'[v].job
               IN  /\ d.msg \in Msgs /\ d.count \in 1 .. Policy /\ d.count <= rcv[d.msg]
                   /\ config.home[d.msg] = Route(v)
                   /\ d.batch \in Msgs \X (1 .. Policy) /\ d.batch[2] <= rcv[d.batch[1]]
                   /\ config.home[d.batch[1]] = Route(v)
    <3>1. CASE v = w
      <4>1. wk'[v].job = Head(todo[r])
        BY <2>5, <3>1
      <4> QED
        BY <1>1, <2>3, <3>1, <4>1 DEF Tasks
    <3>2. CASE v # w
      BY <2>5, <3>2 DEF Deliveries, Held, Waiting, Sorted
    <3> QED
      BY <3>1, <3>2
  <2>6. \A m \in Msgs : sqs[m] = "dlq" => rcv[m] = Policy
    BY DEF Deliveries, Held, Waiting, Sorted
  <2>7. Held'
    BY <2>4, <2>5 DEF Held, Route
  <2>8. Waiting'
    BY <2>2, <2>4 DEF Waiting
  <2> QED
    BY <2>1, <2>4, <2>6, <2>7, <2>8 DEF Deliveries, Sorted
<1>6. HeldOnce'
  <2>1. ASSUME NEW v \in Workers, v # w, wk[v].pc # "idle", Head(todo[r]).msg = wk[v].job.msg
        PROVE  Head(todo[r]).count # wk[v].job.count
    BY <1>1, <1>4, <2>1 DEF HeldOnce
  <2>2. ASSUME NEW s \in Routes, NEW i \in 1 .. Len(todo'[s]),
               Head(todo[r]).msg = todo'[s][i].msg
        PROVE  FALSE
    <3>1. PICK j \in 1 .. Len(todo[s]) : todo'[s][i] = todo[s][j] /\ (s = r => j = i + 1)
      BY <1>3
    <3>2. s = r
      <4>1. config.home[todo[s][j].msg] = s /\ config.home[todo[r][1].msg] = r
        BY <1>4, <3>1 DEF Deliveries, Waiting
      <4> QED
        BY <1>1, <2>2, <3>1, <4>1
    <3>3. 1 < j
      BY <3>1, <3>2
    <3>4. todo[r][1].msg < todo[r][j].msg
      BY <1>4, <3>1, <3>2, <3>3 DEF Deliveries, Held, Waiting, Sorted
    <3>5. todo[r][1].msg \in Nat
      BY <1>1 DEF Tasks, Msgs
    <3> QED
      BY <1>1, <2>2, <3>1, <3>2, <3>4, <3>5
  <2>3. ASSUME NEW u \in Workers, NEW v \in Workers, u # v, wk'[u].pc # "idle",
               wk'[v].pc # "idle", wk'[u].job.msg = wk'[v].job.msg
        PROVE  wk'[u].job.count # wk'[v].job.count
    <3>1. CASE u = w
      BY <2>1, <2>3, <3>1
    <3>2. CASE v = w
      BY <2>1, <2>3, <3>2
    <3>3. CASE u # w /\ v # w
      BY <2>3, <3>3 DEF HeldOnce
    <3> QED
      BY <3>1, <3>2, <3>3
  <2>4. \A v \in Workers : \A s \in Routes : \A i \in 1 .. Len(todo'[s]) :
          wk'[v].pc # "idle" /\ wk'[v].job.msg = todo'[s][i].msg =>
            wk'[v].job.count # todo'[s][i].count
    <3> TAKE v \in Workers
    <3> TAKE s \in Routes
    <3> TAKE i \in 1 .. Len(todo'[s])
    <3>0. HAVE wk'[v].pc # "idle" /\ wk'[v].job.msg = todo'[s][i].msg
    <3>1. CASE v = w
      BY <2>2, <3>0, <3>1
    <3>2. CASE v # w
      <4>1. PICK j \in 1 .. Len(todo[s]) : todo'[s][i] = todo[s][j]
        BY <1>3
      <4>2. wk[v].pc # "idle" /\ wk[v].job.msg = todo[s][j].msg /\ wk'[v].job = wk[v].job
        BY <3>0, <3>2, <4>1
      <4>3. wk[v].job.count # todo[s][j].count
        BY <4>2 DEF HeldOnce
      <4> QED
        BY <4>1, <4>2, <4>3
    <3> QED
      BY <3>1, <3>2
  <2>5. \A u, v \in Workers :
          u # v /\ wk'[u].pc # "idle" /\ wk'[v].pc # "idle" /\ wk'[u].job.msg = wk'[v].job.msg =>
            wk'[u].job.count # wk'[v].job.count
    BY <2>3
  <2> QED
    BY <2>4, <2>5 DEF HeldOnce
<1> QED
  BY <1>5, <1>6

\* New deliveries are of receives there have not been before.
LEMMA ReceiveKeeps ==
  ASSUME TypeOK, Deliveries, HeldOnce, NEW r \in Routes, NEW S \in Batches(r), Receive(r, S)
  PROVE  Deliveries' /\ HeldOnce'
<1>1. /\ todo'[r] \in Seq(Tasks)
      /\ todo' = [todo EXCEPT ![r] = todo'[r]]
      /\ \A i, j \in 1 .. Len(todo'[r]) : i < j => todo'[r][i].msg < todo'[r][j].msg
      /\ sqs' = [m \in Msgs |-> IF m \in S THEN "inflight" ELSE sqs[m]]
      /\ rcv' = [m \in Msgs |-> IF m \in S THEN rcv[m] + 1 ELSE rcv[m]]
      /\ UNCHANGED <<config, wk>>
  BY ReceiveEffect
<1>2. PICK b \in S : \A i \in 1 .. Len(todo'[r]) :
        /\ todo'[r][i].msg \in S
        /\ todo'[r][i].count = rcv[todo'[r][i].msg] + 1
        /\ todo'[r][i].batch = <<b, rcv[b] + 1>>
  BY ReceiveEffect
<1>3. /\ S \subseteq Msgs /\ \A m \in S : config.home[m] = r /\ rcv[m] < Policy
      /\ \A m \in S : sqs'[m] = "inflight" /\ rcv'[m] = rcv[m] + 1
      /\ \A m \in Msgs : rcv[m] \in Nat /\ rcv'[m] \in Nat /\ rcv'[m] >= rcv[m]
      /\ \A m \in Msgs \ S : sqs'[m] = sqs[m] /\ rcv'[m] = rcv[m]
  <2>1. \A m \in Msgs : rcv[m] \in Nat
    BY HandlingAssumption DEF TypeOK
  <2>2. S \subseteq Msgs /\ \A m \in S : config.home[m] = r /\ rcv[m] < Policy
    BY BatchType
  <2> QED
    BY <1>1, <2>1, <2>2
<1>4. \A s \in Routes \ {r} : todo'[s] = todo[s]
  BY <1>1, WorkerType
<1>5. \A s \in Routes : \A i \in 1 .. Len(todo[s]) : todo[s][i] \in Tasks
  BY WorkerType
<1>6. Held'
  <2>1. ASSUME NEW w \in Workers, wk[w].pc # "idle"
        PROVE  wk[w].job.count <= rcv'[wk[w].job.msg]
               /\ wk[w].job.batch[2] <= rcv'[wk[w].job.batch[1]]
    <3>1. /\ wk[w].job.msg \in Msgs /\ wk[w].job.batch[1] \in Msgs
          /\ wk[w].job.count \in Nat /\ wk[w].job.batch[2] \in Nat
          /\ wk[w].job.count <= rcv[wk[w].job.msg]
          /\ wk[w].job.batch[2] <= rcv[wk[w].job.batch[1]]
      BY <2>1, HandlingAssumption DEF Deliveries, Held
    <3> QED
      BY <1>3, <3>1
  <2> QED
    BY <1>1, <2>1 DEF Deliveries, Held, Route
<1>7. Waiting'
  <2>1. ASSUME NEW s \in Routes, NEW i \in 1 .. Len(todo'[s])
        PROVE  /\ todo'[s][i].count <= rcv'[todo'[s][i].msg]
               /\ config.home[todo'[s][i].msg] = s
               /\ todo'[s][i].batch[2] <= rcv'[todo'[s][i].batch[1]]
               /\ config.home[todo'[s][i].batch[1]] = s
    <3>1. CASE s = r
      <4>1. todo'[s][i].batch[1] = b /\ todo'[s][i].batch[2] = rcv[b] + 1
        BY <1>2, <3>1
      <4> QED
        BY <1>2, <1>3, <3>1, <4>1
    <3>2. CASE s # r
      <4>1. todo'[s] = todo[s]
        BY <1>4, <3>2
      <4>2. /\ todo[s][i].count <= rcv[todo[s][i].msg]
            /\ config.home[todo[s][i].msg] = s
            /\ todo[s][i].batch[2] <= rcv[todo[s][i].batch[1]]
            /\ config.home[todo[s][i].batch[1]] = s
        BY <4>1 DEF Deliveries, Waiting
      <4>3. /\ todo[s][i].msg \in Msgs /\ todo[s][i].batch[1] \in Msgs
            /\ todo[s][i].count \in Nat /\ todo[s][i].batch[2] \in Nat
        BY <1>5, <4>1, HandlingAssumption DEF Tasks
      <4>4. /\ rcv[todo[s][i].msg] \in Nat /\ rcv'[todo[s][i].msg] \in Nat
            /\ rcv'[todo[s][i].msg] >= rcv[todo[s][i].msg]
            /\ rcv[todo[s][i].batch[1]] \in Nat /\ rcv'[todo[s][i].batch[1]] \in Nat
            /\ rcv'[todo[s][i].batch[1]] >= rcv[todo[s][i].batch[1]]
        BY <1>3, <4>3
      <4>5. todo[s][i].count <= rcv'[todo[s][i].msg] /\ todo[s][i].batch[2] <= rcv'[todo[s][i].batch[1]]
        BY <4>2, <4>3, <4>4
      <4> QED
        BY <4>1, <4>2, <4>5
    <3> QED
      BY <3>1, <3>2
  <2> QED
    BY <1>1, <2>1 DEF Waiting
<1>8. Sorted'
  <2>1. ASSUME NEW s \in Routes, NEW i \in 1 .. Len(todo'[s]), NEW j \in 1 .. Len(todo'[s]), i < j
        PROVE  todo'[s][i].msg < todo'[s][j].msg
    BY <1>1, <1>4, <2>1 DEF Deliveries, Sorted
  <2> QED
    BY <2>1 DEF Sorted
<1>9. \A m \in Msgs : sqs'[m] = "dlq" => rcv'[m] = Policy
  BY <1>3 DEF Deliveries
<1>10. HeldOnce'
  <2>1. ASSUME NEW w \in Workers, NEW s \in Routes, NEW i \in 1 .. Len(todo'[s]),
               wk[w].pc # "idle", wk[w].job.msg = todo'[s][i].msg
        PROVE  wk[w].job.count # todo'[s][i].count
    <3>1. CASE s = r
      <4>1. /\ wk[w].job.msg \in Msgs /\ wk[w].job.count \in Nat
            /\ wk[w].job.count <= rcv[wk[w].job.msg]
        BY <2>1, HandlingAssumption DEF Deliveries, Held
      <4> QED
        BY <1>2, <1>3, <2>1, <3>1, <4>1
    <3>2. CASE s # r
      BY <1>4, <2>1, <3>2 DEF HeldOnce
    <3> QED
      BY <3>1, <3>2
  <2> QED
    BY <1>1, <2>1 DEF HeldOnce
<1> QED
  BY <1>6, <1>7, <1>8, <1>9, <1>10 DEF Deliveries

\* Every step keeps the deliveries apart.
LEMMA DeliveriesInductive ==
  ASSUME TypeOK, Deliveries, HeldOnce, [Next]_vars
  PROVE  Deliveries' /\ HeldOnce'
<1>1. ASSUME UNCHANGED <<config, sqs, rcv, wk, todo>>
      PROVE  Deliveries' /\ HeldOnce'
  BY <1>1 DEF Deliveries, Held, Waiting, Sorted, HeldOnce, Route
<1>2. ASSUME NEW w \in Workers, Worker(w)
      PROVE  Deliveries' /\ HeldOnce'
  <2>1. Route(w) \in Routes
    BY WorkerType
  <2>2. CASE Hold(w)
    <3>1. /\ todo[Route(w)] # << >> /\ todo' = [todo EXCEPT ![Route(w)] = Tail(@)]
          /\ wk[w].pc = "idle" /\ UNCHANGED <<config, rcv, sqs, wk>>
      BY <2>2 DEF Hold, queueVars
    <3> QED
      BY <2>1, <3>1, TailKeeps
  <2>3. CASE Take(w)
    <3>1. /\ todo[Route(w)] # << >> /\ todo' = [todo EXCEPT ![Route(w)] = Tail(@)]
          /\ wk[w].pc = "idle" /\ UNCHANGED <<config, rcv, sqs>>
      BY <2>3 DEF Take, queueVars
    <3>2. /\ \A v \in Workers \ {w} : wk'[v] = wk[v]
          /\ wk'[w].job = Head(todo[Route(w)])
      BY <2>3, WorkerType DEF Take, Free
    <3> QED
      BY <2>1, <3>1, <3>2, TailKeeps
  <2>4. CASE HandlerPanics(w)
    BY <2>4, DiesEffect, DiesKeeps DEF HandlerPanics
  <2>5. CASE Enter(w) \/ Handle(w) \/ Exit(w) \/ Settle(w) \/ Signal(w) \/ Delete(w) \/ Callback(w)
    <3>1. GoesOn(w) \/ Dies
      BY <2>5, WorkerGoesOn, DiesEffect
    <3> QED
      BY <3>1, GoesOnKeeps, DiesKeeps
  <2> QED
    BY <1>2, <2>2, <2>3, <2>4, <2>5 DEF Worker
<1>3. ASSUME NEW m \in Msgs, Expire(m) \/ Redrive(m)
      PROVE  Deliveries' /\ HeldOnce'
  <2>1. UNCHANGED <<config, rcv, todo, wk>>
    BY <1>3 DEF Expire, Redrive
  <2>2. \A n \in Msgs : sqs'[n] = "dlq" => rcv[n] = Policy
    BY <1>3 DEF Expire, Redrive, TypeOK, Deliveries
  <2> QED
    BY <2>1, <2>2 DEF Deliveries, Held, Waiting, Sorted, HeldOnce, Route
<1>4. ASSUME NEW r \in Routes, Register(r)
      PROVE  Deliveries' /\ HeldOnce'
  <2>1. UNCHANGED <<config, sqs, rcv, wk, todo>>
    BY <1>4 DEF Register, queueVars
  <2> QED
    BY <1>1, <2>1
<1>5. ASSUME NEW r \in Routes, Poll(r)
      PROVE  Deliveries' /\ HeldOnce'
  BY <1>5, ReceiveKeeps DEF Poll
<1>6. ASSUME Restart
      PROVE  Deliveries' /\ HeldOnce'
  <2>1. UNCHANGED <<config, sqs, rcv, wk, todo>>
    BY <1>6 DEF Restart, queueVars
  <2> QED
    BY <1>1, <2>1
<1>7. UNCHANGED vars => UNCHANGED <<config, sqs, rcv, wk, todo>>
  BY DEF vars, queueVars
<1> QED
  BY <1>1, <1>2, <1>3, <1>4, <1>5, <1>6, <1>7 DEF Next, Done

-----------------------------------------------------------------------------
(* What ends the process.                                                   *)

\* A kind of middleware is in the chain when some layer is of it.
LEMMA HasLayer ==
  ASSUME TypeOK, NEW kind
  PROVE  Has(kind) <=> \E j \in 1 .. Len(Layers) : Layers[j] = kind
<1>1. Layers \in Seq(Kinds)
  BY ConfigType DEF TypeOK
<1>2. DOMAIN Layers = 1 .. Len(Layers)
  BY <1>1, LenProperties
<1> QED
  BY <1>2 DEF Has, Range

\* A panic passes every Recovery on its way out, so none is in the chain of a
\* handler whose panic gets out of it.
LEMMA PanicsInductive ==
  ASSUME TypeOK, PanicsOutside, [Next]_vars
  PROVE  PanicsOutside'
<1> DEFINE Inside(w) ==
             /\ wk'[w].pc = "out" /\ wk'[w].res = "panic" =>
                  \A j \in 1 .. Len(Layers) : Layers[j] = "recovery" => j <= wk'[w].at
             /\ wk'[w].pc = "callback" => config.onDLQ
<1>1. ASSUME UNCHANGED config, \A w \in Workers : Inside(w), RecoveryShields'
      PROVE  PanicsOutside'
  <2>1. Layers' = Layers
    BY <1>1 DEF Layers
  <2> QED
    BY <1>1, <2>1 DEF PanicsOutside
<1>2. UNCHANGED <<config, up>> => RecoveryShields'
  BY DEF PanicsOutside, RecoveryShields, Has, Layers
<1>3. \A w \in Workers : wk'[w] = wk[w] => Inside(w)
  BY DEF PanicsOutside
<1>4. ASSUME UNCHANGED <<config, up, wk>>
      PROVE  PanicsOutside'
  BY <1>1, <1>2, <1>3, <1>4
<1>5. /\ wk \in [Workers -> WorkerStates] /\ Layers \in Seq(Kinds) /\ Len(Layers) \in Nat
      /\ Free.pc = "idle"
  BY WorkerType, ConfigType DEF TypeOK, Free
<1>6. ASSUME NEW w \in Workers, UNCHANGED <<config, up>>, Inside(w),
             \A v \in Workers \ {w} : wk'[v] = wk[v]
      PROVE  PanicsOutside'
  BY <1>1, <1>2, <1>3, <1>6
<1>7. ASSUME NEW why, Die(why),
             (why = "handler" /\ ~Has("recovery")) \/ (why = "callback" /\ config.onDLQ)
      PROVE  PanicsOutside'
  <2>1. /\ UNCHANGED config /\ up' = why /\ \A w \in Workers : wk'[w].pc = "idle"
    BY <1>7, <1>5 DEF Die
  <2>2. RecoveryShields'
    BY <1>7, <2>1 DEF RecoveryShields, Has, Layers
  <2> QED
    BY <1>1, <2>1, <2>2
<1>8. ASSUME NEW w \in Workers, Worker(w)
      PROVE  PanicsOutside'
  <2>1. CASE Hold(w)
    <3>1. UNCHANGED <<config, up, wk>>
      BY <2>1 DEF Hold
    <3> QED
      BY <1>4, <3>1
  <2>2. CASE Take(w)
    <3>1. UNCHANGED <<config, up>> /\ wk'[w].pc = "in" /\ \A v \in Workers \ {w} : wk'[v] = wk[v]
      BY <1>5, <2>2 DEF Take, Free
    <3> QED
      BY <1>6, <3>1
  <2>3. CASE Enter(w)
    <3>1. UNCHANGED <<config, up>> /\ wk'[w].pc = "in" /\ \A v \in Workers \ {w} : wk'[v] = wk[v]
      BY <1>5, <2>3 DEF Enter, WorkerStates
    <3> QED
      BY <1>6, <3>1
  <2>4. CASE Handle(w)
    <3>1. UNCHANGED <<config, up>> /\ wk[w].at = Len(Layers) + 1
      BY <2>4 DEF Handle
    <3>2. PICK o : wk' = [wk EXCEPT ![w].pc = "out", ![w].at = @ - 1, ![w].res = o.res,
                                    ![w].backed = o.backed]
      BY <2>4 DEF Handle
    <3>3. /\ wk'[w].pc = "out" /\ wk'[w].at = wk[w].at - 1
          /\ \A v \in Workers \ {w} : wk'[v] = wk[v]
      BY <1>5, <3>2 DEF WorkerStates
    <3>4. wk'[w].at = Len(Layers)
      BY <1>5, <3>1, <3>3
    <3> QED
      BY <1>6, <3>1, <3>3, <3>4
  <2>5. CASE Exit(w)
    <3>1. UNCHANGED <<config, up>> /\ wk[w].pc = "out" /\ wk[w].at > 0
      BY <2>5 DEF Exit
    <3>2. /\ wk'[w].pc = "out" /\ wk'[w].at = wk[w].at - 1
          /\ wk'[w].res = Passes(Layers[wk[w].at], wk[w].res)
          /\ \A v \in Workers \ {w} : wk'[v] = wk[v]
      BY <1>5, <2>5 DEF Exit, WorkerStates
    <3>3. ASSUME wk'[w].res = "panic", NEW j \in 1 .. Len(Layers), Layers[j] = "recovery"
          PROVE  j <= wk'[w].at
      <4>1. wk[w].res = "panic" /\ Layers[wk[w].at] # "recovery"
        BY <3>2, <3>3 DEF Passes
      <4>2. j <= wk[w].at /\ j # wk[w].at
        BY <3>1, <3>3, <4>1 DEF PanicsOutside
      <4>3. wk[w].at \in Nat
        BY <1>5 DEF WorkerStates
      <4> QED
        BY <1>5, <3>2, <4>2, <4>3
    <3> QED
      BY <1>6, <3>1, <3>2, <3>3
  <2>6. CASE HandlerPanics(w)
    <3>1. wk[w].pc = "out" /\ wk[w].at = 0 /\ wk[w].res = "panic" /\ Die("handler")
      BY <2>6 DEF HandlerPanics
    <3>2. ~Has("recovery")
      BY <1>5, <3>1, HasLayer DEF PanicsOutside
    <3> QED
      BY <1>7, <3>1, <3>2
  <2>7. CASE Settle(w)
    <3>1. UNCHANGED <<config, up>>
      BY <2>7 DEF Settle
    <3>2. \/ wk' = [wk EXCEPT ![w] = Free]
          \/ \E p \in {"signal", "delete"} : wk' = [wk EXCEPT ![w] = [@ EXCEPT !.pc = p]]
      BY <2>7 DEF Settle
    <3>3. wk'[w].pc \in {"idle", "signal", "delete"} /\ \A v \in Workers \ {w} : wk'[v] = wk[v]
      BY <1>5, <3>2 DEF WorkerStates
    <3> QED
      BY <1>6, <3>1, <3>3
  <2>8. CASE Signal(w)
    <3>1. UNCHANGED <<config, up>>
      BY <2>8 DEF Signal
    <3>2. \/ wk' = [wk EXCEPT ![w] = Free]
          \/ wk' = [wk EXCEPT ![w] = [@ EXCEPT !.pc = "callback"]] /\ config.onDLQ
      BY <2>8 DEF Signal
    <3>3. CASE wk' = [wk EXCEPT ![w] = Free]
      <4>1. wk'[w].pc = "idle" /\ \A v \in Workers \ {w} : wk'[v] = wk[v]
        BY <1>5, <3>3
      <4> QED
        BY <1>6, <3>1, <4>1
    <3>4. CASE wk' = [wk EXCEPT ![w] = [@ EXCEPT !.pc = "callback"]] /\ config.onDLQ
      <4>1. wk'[w].pc = "callback" /\ \A v \in Workers \ {w} : wk'[v] = wk[v]
        BY <1>5, <3>4 DEF WorkerStates
      <4> QED
        BY <1>6, <3>1, <3>4, <4>1
    <3> QED
      BY <3>2, <3>3, <3>4
  <2>9. CASE Callback(w)
    <3>1. wk[w].pc = "callback" /\ config.onDLQ
      BY <2>9 DEF Callback, PanicsOutside
    <3>2. CASE Die("callback")
      BY <1>7, <3>1, <3>2
    <3>3. CASE wk' = [wk EXCEPT ![w] = Free] /\ UNCHANGED <<config, up>>
      <4>1. wk'[w].pc = "idle" /\ \A v \in Workers \ {w} : wk'[v] = wk[v]
        BY <1>5, <3>3
      <4> QED
        BY <1>6, <3>3, <4>1
    <3> QED
      BY <2>9, <3>2, <3>3 DEF Callback
  <2>10. CASE Delete(w)
    <3>1. /\ UNCHANGED <<config, up>> /\ wk' = [wk EXCEPT ![w] = Free]
      BY <2>10 DEF Delete
    <3>2. wk'[w].pc = "idle" /\ \A v \in Workers \ {w} : wk'[v] = wk[v]
      BY <1>5, <3>1
    <3> QED
      BY <1>6, <3>1, <3>2
  <2> QED
    BY <1>8, <2>1, <2>2, <2>3, <2>4, <2>5, <2>6, <2>7, <2>8, <2>9, <2>10 DEF Worker
<1>9. ASSUME NEW r \in Routes, Register(r) \/ Poll(r)
      PROVE  PanicsOutside'
  <2>1. UNCHANGED <<config, up, wk>>
    BY <1>9 DEF Register, Poll, Receive
  <2> QED
    BY <1>4, <2>1
<1>10. ASSUME NEW m \in Msgs, Expire(m) \/ Redrive(m)
       PROVE  PanicsOutside'
  <2>1. UNCHANGED <<config, up, wk>>
    BY <1>10 DEF Expire, Redrive
  <2> QED
    BY <1>4, <2>1
<1>11. ASSUME Restart
       PROVE  PanicsOutside'
  <2>1. UNCHANGED <<config, wk>> /\ up' = "yes"
    BY <1>11 DEF Restart
  <2> QED
    BY <1>1, <1>3, <2>1 DEF RecoveryShields
<1>12. UNCHANGED vars => UNCHANGED <<config, up, wk>>
  BY DEF vars
<1> QED
  BY <1>4, <1>8, <1>9, <1>10, <1>11, <1>12 DEF Next, Done

-----------------------------------------------------------------------------
(* The inductive invariant.                                                 *)

\* The process starts with nothing delivered.
LEMMA InitInv ==
  ASSUME Init
  PROVE  Inv
<1>1. config \in Configs /\ Len(Layers) \in Nat
  BY ConfigType DEF Init
<1>2. wk \in [Workers -> WorkerStates] /\ \A w \in Workers : wk[w].at = 0 /\ wk[w].pc = "idle"
  BY FreeType DEF Init, Free
<1>3. Registered \in [Range(Collectors) -> {"free", "ours", "foreign"}]
  BY DEF Registered
<1>4. TypeOK
  <2>1. /\ sqs \in [Msgs -> {"visible", "inflight", "gone", "dlq"}] /\ rcv \in [Msgs -> 0 .. Policy]
        /\ todo \in [Routes -> Seq(Tasks)] /\ up = "yes" /\ poisoned = {}
    BY HandlingAssumption DEF Init, Zero
  <2>2. /\ registry \in [Range(Collectors) -> {"free", "ours", "foreign"}]
        /\ collector \in [Routes -> Seq({"shared", "private"})]
    BY <1>3 DEF Init
  <2>3. /\ seen \in [Routes -> [Fields -> Nat]] /\ did \in [Routes -> [Outcomes -> Nat]]
        /\ hist \in [Msgs -> [Fates -> Nat]]
    BY DEF Init, Zero
  <2>4. \A w \in Workers : wk[w].at <= Len(Layers) + 1
    BY <1>1, <1>2
  <2> QED
    BY <1>1, <1>2, <2>1, <2>2, <2>3, <2>4 DEF TypeOK, WorkerStates, Jobs, Tasks
<1>5. \A r \in Routes : ~ \E i \in 1 .. Len(todo[r]) : TRUE
  BY DEF Init
<1>6. Deliveries
  BY <1>2, <1>5 DEF Init, Deliveries, Held, Waiting, Sorted
<1>7. HeldOnce
  BY <1>2, <1>5 DEF HeldOnce
<1>8. PanicsOutside
  BY <1>2 DEF Init, PanicsOutside, RecoveryShields
<1> QED
  BY <1>4, <1>6, <1>7, <1>8 DEF Inv

\* Inv holds in every reachable state.
THEOREM Invariance == Spec => []Inv
<1>1. Init => Inv
  BY InitInv
<1>2. Inv /\ [Next]_vars => Inv'
  BY TypeInductive, DeliveriesInductive, PanicsInductive DEF Inv
<1> QED
  BY <1>1, <1>2, PTL DEF Spec

\* Every variable has its type, and a worker's position is within the chain.
THEOREM TypeCorrect == Spec => []TypeOK
<1>1. Inv => TypeOK
  BY DEF Inv
<1> QED
  BY <1>1, Invariance, PTL

\* Recovery shields the process: whatever the chain, with Recovery in it no
\* panic of a handler and none of the recorder ends the process, only one of
\* the OnDLQ callback.
THEOREM ProcessShielded == Spec => []RecoveryShields
<1>1. Inv => RecoveryShields
  BY DEF Inv, PanicsOutside
<1> QED
  BY <1>1, Invariance, PTL

-----------------------------------------------------------------------------
(* What any step may do to deliveries, records and the queue.               *)

\* No delivery is new: what waits waited before, and what a worker has it had,
\* or took from what waited.
Fewer ==
  /\ UNCHANGED <<config, rcv>>
  /\ \A r \in Routes : \A i \in 1 .. Len(todo'[r]) :
       \E j \in 1 .. Len(todo[r]) : todo'[r][i] = todo[r][j]
  /\ \A w \in Workers : wk'[w].pc # "idle" =>
       \/ /\ wk[w].pc # "idle" /\ wk'[w].job = wk[w].job
          /\ wk'[w].pc = "in" => wk[w].pc = "in"
          /\ wk'[w].pc = "out" => wk[w].pc \in {"in", "out"}
          /\ wk'[w].pc = "signal" => wk[w].pc \in {"out", "signal"}
          /\ wk'[w].pc = "delete" => wk[w].pc \in {"out", "delete"}
       \/ /\ wk[w].pc = "idle" /\ wk'[w].pc = "in"
          /\ \E j \in 1 .. Len(todo[Route(w)]) : wk'[w].job = todo[Route(w)][j]

\* Of a worker's steps none makes a delivery.
LEMMA WorkerFewer ==
  ASSUME TypeOK, NEW w \in Workers, Worker(w)
  PROVE  Fewer
<1>1. wk \in [Workers -> WorkerStates] /\ Free.pc = "idle" /\ Route(w) \in Routes
  BY WorkerType DEF Free
<1> DEFINE Same(v) == /\ wk[v].pc # "idle" /\ wk'[v].job = wk[v].job
                      /\ wk'[v].pc = "in" => wk[v].pc = "in"
                      /\ wk'[v].pc = "out" => wk[v].pc \in {"in", "out"}
                      /\ wk'[v].pc = "signal" => wk[v].pc \in {"out", "signal"}
                      /\ wk'[v].pc = "delete" => wk[v].pc \in {"out", "delete"}
           Took(v) == /\ wk[v].pc = "idle" /\ wk'[v].pc = "in"
                      /\ \E j \in 1 .. Len(todo[Route(v)]) : wk'[v].job = todo[Route(v)][j]
<1>2. \A v \in Workers : wk'[v] = wk[v] /\ wk'[v].pc # "idle" => Same(v)
  OBVIOUS
<1>3. ASSUME UNCHANGED <<config, rcv, todo>>, \A v \in Workers \ {w} : wk'[v] = wk[v],
             wk'[w].pc = "idle" \/ Same(w)
      PROVE  Fewer
  <2>1. \A v \in Workers : wk'[v].pc # "idle" => Same(v)
    BY <1>2, <1>3
  <2>2. \A r \in Routes : \A i \in 1 .. Len(todo'[r]) :
          \E j \in 1 .. Len(todo[r]) : todo'[r][i] = todo[r][j]
    BY <1>3
  <2> QED
    BY <1>3, <2>1, <2>2 DEF Fewer
<1>4. ASSUME todo[Route(w)] # << >>, todo' = [todo EXCEPT ![Route(w)] = Tail(@)]
      PROVE  /\ \A r \in Routes : \A i \in 1 .. Len(todo'[r]) :
                  \E j \in 1 .. Len(todo[r]) : todo'[r][i] = todo[r][j]
             /\ 1 \in 1 .. Len(todo[Route(w)]) /\ Head(todo[Route(w)]) = todo[Route(w)][1]
  <2> DEFINE r == Route(w)
  <2>1. /\ Len(todo[r]) \in Nat /\ Len(todo[r]) >= 1
        /\ Len(Tail(todo[r])) = Len(todo[r]) - 1 /\ Head(todo[r]) = todo[r][1]
        /\ \A i \in 1 .. Len(todo[r]) - 1 : Tail(todo[r])[i] = todo[r][i + 1]
    BY <1>1, <1>4, QueueParts
  <2>2. todo'[r] = Tail(todo[r]) /\ \A s \in Routes \ {r} : todo'[s] = todo[s]
    BY <1>1, <1>4, WorkerType
  <2>3. ASSUME NEW i \in 1 .. Len(todo'[r])
        PROVE  \E j \in 1 .. Len(todo[r]) : todo'[r][i] = todo[r][j]
    <3>1. i \in 1 .. Len(todo[r]) - 1 /\ i + 1 \in 1 .. Len(todo[r])
      BY <2>1, <2>2
    <3> QED
      BY <2>1, <2>2, <3>1
  <2>4. ASSUME NEW s \in Routes, NEW i \in 1 .. Len(todo'[s])
        PROVE  \E j \in 1 .. Len(todo[s]) : todo'[s][i] = todo[s][j]
    BY <2>2, <2>3
  <2>5. 1 \in 1 .. Len(todo[r]) /\ Head(todo[r]) = todo[r][1]
    BY <2>1
  <2> QED
    BY <2>4, <2>5
<1>5. CASE Hold(w)
  <2>1. /\ todo[Route(w)] # << >> /\ todo' = [todo EXCEPT ![Route(w)] = Tail(@)]
        /\ UNCHANGED <<config, rcv, wk>>
    BY <1>5 DEF Hold, queueVars
  <2>2. \A v \in Workers : wk'[v].pc # "idle" => Same(v)
    BY <1>2, <2>1
  <2> QED
    BY <1>4, <2>1, <2>2 DEF Fewer
<1>6. CASE Take(w)
  <2>1. /\ todo[Route(w)] # << >> /\ todo' = [todo EXCEPT ![Route(w)] = Tail(@)]
        /\ UNCHANGED <<config, rcv>>
    BY <1>6 DEF Take, queueVars
  <2>2. /\ wk[w].pc = "idle" /\ wk'[w].pc = "in" /\ wk'[w].job = Head(todo[Route(w)])
        /\ \A v \in Workers \ {w} : wk'[v] = wk[v]
    BY <1>1, <1>6 DEF Take, Free
  <2>3. Took(w)
    BY <1>4, <2>1, <2>2
  <2>4. \A v \in Workers : wk'[v].pc # "idle" => Same(v) \/ Took(v)
    BY <1>2, <2>2, <2>3
  <2> QED
    BY <1>4, <2>1, <2>4 DEF Fewer
<1>7. CASE HandlerPanics(w)
  <2>1. Dies
    BY <1>7, DiesEffect DEF HandlerPanics
  <2> QED
    BY <2>1 DEF Dies, Fewer
<1>8. CASE Enter(w)
  <2>1. UNCHANGED <<config, rcv, todo>> /\ wk[w].pc = "in"
    BY <1>8 DEF Enter, queueVars
  <2>2. /\ wk'[w].pc = "in" /\ wk'[w].job = wk[w].job
        /\ \A v \in Workers \ {w} : wk'[v] = wk[v]
    BY <1>1, <1>8 DEF Enter, WorkerStates
  <2> QED
    BY <1>3, <2>1, <2>2
<1>9. CASE Handle(w)
  <2>1. UNCHANGED <<config, rcv, todo>> /\ wk[w].pc = "in"
    BY <1>9 DEF Handle, queueVars
  <2>2. PICK o : wk' = [wk EXCEPT ![w].pc = "out", ![w].at = @ - 1, ![w].res = o.res,
                                  ![w].backed = o.backed]
    BY <1>9 DEF Handle
  <2>3. /\ wk'[w].pc = "out" /\ wk'[w].job = wk[w].job
        /\ \A v \in Workers \ {w} : wk'[v] = wk[v]
    BY <1>1, <2>2 DEF WorkerStates
  <2> QED
    BY <1>3, <2>1, <2>3
<1>10. CASE Exit(w)
  <2>1. UNCHANGED <<config, rcv, todo>> /\ wk[w].pc = "out"
    BY <1>10 DEF Exit, queueVars
  <2>2. /\ wk'[w].pc = "out" /\ wk'[w].job = wk[w].job
        /\ \A v \in Workers \ {w} : wk'[v] = wk[v]
    BY <1>1, <1>10 DEF Exit, WorkerStates
  <2> QED
    BY <1>3, <2>1, <2>2
<1>11. CASE Settle(w)
  <2>1. UNCHANGED <<config, rcv, todo>> /\ wk[w].pc = "out"
    BY <1>11 DEF Settle, queueVars
  <2>2. \/ wk' = [wk EXCEPT ![w] = Free]
        \/ \E p \in {"signal", "delete"} : wk' = [wk EXCEPT ![w] = [@ EXCEPT !.pc = p]]
    BY <1>11 DEF Settle
  <2>3. /\ wk'[w].pc = "idle" \/ (wk'[w].pc \in {"signal", "delete"} /\ wk'[w].job = wk[w].job)
        /\ \A v \in Workers \ {w} : wk'[v] = wk[v]
    BY <1>1, <2>2 DEF WorkerStates
  <2> QED
    BY <1>3, <2>1, <2>3
<1>12. CASE Signal(w)
  <2>1. UNCHANGED <<config, rcv, todo>> /\ wk[w].pc = "signal"
    BY <1>12 DEF Signal, queueVars
  <2>2. \/ wk' = [wk EXCEPT ![w] = Free]
        \/ wk' = [wk EXCEPT ![w] = [@ EXCEPT !.pc = "callback"]]
    BY <1>12 DEF Signal
  <2>3. /\ wk'[w].pc = "idle" \/ (wk'[w].pc = "callback" /\ wk'[w].job = wk[w].job)
        /\ \A v \in Workers \ {w} : wk'[v] = wk[v]
    BY <1>1, <2>2 DEF WorkerStates
  <2> QED
    BY <1>3, <2>1, <2>3
<1>13. CASE Callback(w)
  <2>1. CASE Die("callback")
    <3>1. Dies
      BY <2>1, DiesEffect
    <3> QED
      BY <3>1 DEF Dies, Fewer
  <2>2. CASE wk' = [wk EXCEPT ![w] = Free] /\ UNCHANGED <<config, queueVars, todo>>
    <3>1. /\ UNCHANGED <<config, rcv, todo>> /\ wk'[w].pc = "idle"
          /\ \A v \in Workers \ {w} : wk'[v] = wk[v]
      BY <1>1, <2>2 DEF queueVars
    <3> QED
      BY <1>3, <3>1
  <2> QED
    BY <1>13, <2>1, <2>2 DEF Callback
<1>14. CASE Delete(w)
  <2>1. UNCHANGED <<config, rcv, todo>> /\ wk' = [wk EXCEPT ![w] = Free]
    BY <1>14 DEF Delete
  <2>2. wk'[w].pc = "idle" /\ \A v \in Workers \ {w} : wk'[v] = wk[v]
    BY <1>1, <2>1
  <2> QED
    BY <1>3, <2>1, <2>2
<1> QED
  BY <1>5, <1>6, <1>7, <1>8, <1>9, <1>10, <1>11, <1>12, <1>13, <1>14 DEF Worker

\* Only a receive makes deliveries.
LEMMA FewerOrReceive ==
  ASSUME TypeOK, [Next]_vars
  PROVE  Fewer \/ \E r \in Routes : Poll(r)
<1>1. ASSUME UNCHANGED <<config, rcv, todo, wk>>
      PROVE  Fewer
  BY <1>1 DEF Fewer
<1>2. ASSUME NEW r \in Routes, Register(r)
      PROVE  Fewer
  <2>1. UNCHANGED <<config, rcv, todo, wk>>
    BY <1>2 DEF Register, queueVars
  <2> QED
    BY <1>1, <2>1
<1>3. ASSUME NEW m \in Msgs, Expire(m) \/ Redrive(m)
      PROVE  Fewer
  <2>1. UNCHANGED <<config, rcv, todo, wk>>
    BY <1>3 DEF Expire, Redrive
  <2> QED
    BY <1>1, <2>1
<1>4. Restart => UNCHANGED <<config, rcv, todo, wk>>
  BY DEF Restart, queueVars
<1>5. UNCHANGED vars => UNCHANGED <<config, rcv, todo, wk>>
  BY DEF vars, queueVars
<1> QED
  BY <1>1, <1>2, <1>3, <1>4, <1>5, WorkerFewer DEF Next, Done

\* Only three steps put something on a message's record.
LEMMA RecordStep ==
  ASSUME [Next]_vars
  PROVE  hist' = hist \/ \E w \in Workers : Handle(w) \/ Settle(w) \/ Signal(w)
<1>1. \A r \in Routes : Register(r) \/ Poll(r) => hist' = hist
  BY DEF Register, Poll, Receive
<1>2. \A m \in Msgs : Expire(m) \/ Redrive(m) => hist' = hist
  BY DEF Expire, Redrive
<1>3. ASSUME NEW w \in Workers, Worker(w)
      PROVE  hist' = hist \/ Handle(w) \/ Settle(w) \/ Signal(w)
  BY <1>3 DEF Worker, Hold, Take, Enter, Exit, HandlerPanics, Callback, Delete, Die
<1>4. Restart \/ UNCHANGED vars => hist' = hist
  BY DEF Restart, vars
<1> QED
  BY <1>1, <1>2, <1>3, <1>4 DEF Next, Done

\* Only a delete under the latest receipt takes a message out of the queue for
\* good.
LEMMA GoneStep ==
  ASSUME TypeOK, [Next]_vars, NEW m \in Msgs, sqs'[m] = "gone", sqs[m] # "gone"
  PROVE  \E w \in Workers : Delete(w) /\ wk[w].job.msg = m /\ wk[w].job.count = rcv[m]
<1>1. \A r \in Routes : Register(r) => sqs' = sqs
  BY DEF Register, queueVars
<1>2. ~ \E r \in Routes : Poll(r)
  BY DEF Poll, Receive
<1>3. ~ \E n \in Msgs : Expire(n) \/ Redrive(n)
  BY DEF Expire, Redrive, TypeOK
<1>4. ASSUME NEW w \in Workers, Worker(w)
      PROVE  Delete(w) \/ sqs' = sqs
  BY <1>4 DEF Worker, Hold, Take, Enter, Handle, Exit, HandlerPanics, Settle, Signal, Callback,
              Die, queueVars
<1>5. Restart \/ UNCHANGED vars => sqs' = sqs
  BY DEF Restart, vars, queueVars
<1>6. PICK w \in Workers : Delete(w)
  BY <1>1, <1>2, <1>3, <1>4, <1>5 DEF Next, Done
<1>7. wk[w].job.msg = m /\ wk[w].job.count = rcv[m]
  BY <1>6 DEF Delete, TypeOK
<1> QED
  BY <1>6, <1>7

\* One more on the record of a message, and nothing else.
LEMMA NoteEffect ==
  ASSUME TypeOK, NEW m \in Msgs, NEW f \in Fates, Note(m, f)
  PROVE  /\ hist[m][f] \in Nat /\ hist'[m][f] = hist[m][f] + 1
         /\ \A n \in Msgs, g \in Fates : n # m \/ g # f => hist'[n][g] = hist[n][g]
BY DEF TypeOK, Note

\* The handler has run.
LEMMA HandleEffect ==
  ASSUME TypeOK, Held, NEW w \in Workers, Handle(w)
  PROVE  /\ wk[w].pc = "in" /\ wk'[w].pc = "out" /\ wk'[w].job = wk[w].job
         /\ \A v \in Workers \ {w} : wk'[v] = wk[v]
         /\ wk[w].job.msg \in Msgs /\ Note(wk[w].job.msg, "run")
         /\ UNCHANGED <<config, todo, sqs, rcv, poisoned>>
<1>1. PICK o : wk' = [wk EXCEPT ![w].pc = "out", ![w].at = @ - 1, ![w].res = o.res,
                                ![w].backed = o.backed]
  BY DEF Handle
<1>2. /\ wk'[w].pc = "out" /\ wk'[w].job = wk[w].job
      /\ \A v \in Workers \ {w} : wk'[v] = wk[v]
  BY <1>1, WorkerType DEF WorkerStates
<1>3. wk[w].pc = "in" /\ Note(wk[w].job.msg, "run") /\ UNCHANGED <<config, todo, sqs, rcv, poisoned>>
  BY DEF Handle, queueVars
<1> QED
  BY <1>2, <1>3 DEF Held

\* What process makes of the outcome.
LEMMA SettleEffect ==
  ASSUME TypeOK, Held, NEW w \in Workers, Settle(w)
  PROVE  /\ wk[w].pc = "out"
         /\ \A v \in Workers \ {w} : wk'[v] = wk[v]
         /\ wk[w].job.msg \in Msgs
         /\ \E f \in {"ok", "err", "back"} :
              /\ Note(wk[w].job.msg, f)
              /\ wk'[w].pc = CASE f = "ok" -> "delete"
                               [] f = "err" /\ Exhausted(wk[w].job) -> "signal"
                               [] OTHER -> "idle"
              /\ wk'[w].pc # "idle" => wk'[w].job = wk[w].job
              /\ poisoned' = IF f # "ok" /\ config.perGroupID
                               THEN poisoned \cup {wk[w].job.batch} ELSE poisoned
         /\ UNCHANGED <<config, todo, sqs, rcv>>
<1>1. /\ wk[w].pc = "out" /\ UNCHANGED <<config, todo, sqs, rcv>>
  BY DEF Settle, queueVars
<1>2. wk[w].job.msg \in Msgs
  BY <1>1 DEF Held
<1> DEFINE fate == IF wk[w].backed THEN "back" ELSE IF wk[w].res = "error" THEN "err" ELSE "ok"
           next == CASE fate = "ok" -> "delete"
                     [] fate = "err" /\ Exhausted(wk[w].job) -> "signal"
                     [] OTHER -> "idle"
<1>3. /\ Note(wk[w].job.msg, fate)
      /\ wk' = [wk EXCEPT ![w] = IF next = "idle" THEN Free ELSE [@ EXCEPT !.pc = next]]
      /\ poisoned' = IF fate # "ok" /\ config.perGroupID
                       THEN poisoned \cup {wk[w].job.batch} ELSE poisoned
  BY DEF Settle, FailGroup
<1>4. fate \in {"ok", "err", "back"} /\ next \in {"delete", "signal", "idle"}
  OBVIOUS
<1> HIDE DEF next
<1>5. /\ wk'[w].pc = next /\ \A v \in Workers \ {w} : wk'[v] = wk[v]
      /\ wk'[w].pc # "idle" => wk'[w].job = wk[w].job
  BY <1>3, <1>4, WorkerType DEF WorkerStates, Free
<1> QED
  BY <1>1, <1>2, <1>3, <1>4, <1>5 DEF next

\* The signal is out.
LEMMA SignalEffect ==
  ASSUME TypeOK, Held, NEW w \in Workers, Signal(w)
  PROVE  /\ wk[w].pc = "signal" /\ wk'[w].pc \in {"idle", "callback"}
         /\ \A v \in Workers \ {w} : wk'[v] = wk[v]
         /\ wk[w].job.msg \in Msgs /\ Note(wk[w].job.msg, "signalled")
         /\ UNCHANGED <<config, todo, sqs, rcv, poisoned>>
<1>1. /\ wk[w].pc = "signal" /\ Note(wk[w].job.msg, "signalled")
      /\ UNCHANGED <<config, todo, sqs, rcv, poisoned>>
  BY DEF Signal, queueVars
<1>2. \/ wk' = [wk EXCEPT ![w] = Free]
      \/ wk' = [wk EXCEPT ![w] = [@ EXCEPT !.pc = "callback"]]
  BY DEF Signal
<1>3. wk'[w].pc \in {"idle", "callback"} /\ \A v \in Workers \ {w} : wk'[v] = wk[v]
  BY <1>2, WorkerType DEF WorkerStates, Free
<1> QED
  BY <1>1, <1>3 DEF Held

\* Records only grow, and which action each entry is made by.
LEMMA RecordsGrow ==
  ASSUME TypeOK, Deliveries, [Next]_vars, NEW m \in Msgs
  PROVE  /\ \A f \in Fates : /\ hist[m][f] \in Nat /\ hist'[m][f] \in Nat
                              /\ hist'[m][f] >= hist[m][f]
         /\ hist'[m]["ok"] # hist[m]["ok"] \/ hist'[m]["err"] # hist[m]["err"]
            \/ hist'[m]["back"] # hist[m]["back"] =>
              \E w \in Workers : Settle(w) /\ wk[w].job.msg = m
         /\ hist'[m]["signalled"] # hist[m]["signalled"] =>
              \E w \in Workers : Signal(w) /\ wk[w].job.msg = m
         /\ hist'[m]["run"] # hist[m]["run"] =>
              \E w \in Workers : Handle(w) /\ wk[w].job.msg = m
<1>1. \A f \in Fates : hist[m][f] \in Nat /\ hist'[m][f] \in Nat
  <2>1. TypeOK'
    BY TypeInductive
  <2> QED
    BY <2>1 DEF TypeOK
<1>2. CASE hist' = hist
  BY <1>1, <1>2
<1>3. ASSUME NEW w \in Workers, Handle(w)
      PROVE  /\ \A f \in Fates : hist'[m][f] >= hist[m][f]
             /\ \A f \in Fates : hist'[m][f] # hist[m][f] => f = "run" /\ wk[w].job.msg = m
  BY <1>1, <1>3, HandleEffect, NoteEffect DEF Deliveries, Fates
<1>4. ASSUME NEW w \in Workers, Settle(w)
      PROVE  /\ \A f \in Fates : hist'[m][f] >= hist[m][f]
             /\ \A f \in Fates : hist'[m][f] # hist[m][f] =>
                  f \in {"ok", "err", "back"} /\ wk[w].job.msg = m
  <2>1. PICK f \in {"ok", "err", "back"} : Note(wk[w].job.msg, f)
    BY <1>4, SettleEffect DEF Deliveries
  <2>2. wk[w].job.msg \in Msgs
    BY <1>4, SettleEffect DEF Deliveries
  <2> QED
    BY <1>1, <2>1, <2>2, NoteEffect DEF Fates
<1>5. ASSUME NEW w \in Workers, Signal(w)
      PROVE  /\ \A f \in Fates : hist'[m][f] >= hist[m][f]
             /\ \A f \in Fates : hist'[m][f] # hist[m][f] => f = "signalled" /\ wk[w].job.msg = m
  BY <1>1, <1>5, SignalEffect, NoteEffect DEF Deliveries, Fates
<1>6. {"run", "ok", "err", "back", "signalled"} = Fates
  BY DEF Fates
<1> QED
  BY <1>1, <1>2, <1>3, <1>4, <1>5, <1>6, RecordStep

-----------------------------------------------------------------------------
(* Deletes and signals.                                                     *)

\* A worker gets from its chain to the delete or the signal by Settle.
LEMMA SettledStep ==
  ASSUME TypeOK, Deliveries, [Next]_vars, NEW w \in Workers, wk'[w].pc \in {"delete", "signal"}
  PROVE  \/ Settle(w)
         \/ wk'[w].pc = wk[w].pc /\ wk'[w].job = wk[w].job
<1>1. ASSUME NEW v \in Workers, Worker(v)
      PROVE  Settle(w) \/ wk'[w] = wk[w]
  <2>1. wk \in [Workers -> WorkerStates] /\ Free.pc = "idle"
    BY WorkerType DEF Free
  <2>2. CASE Hold(v)
    BY <2>2 DEF Hold
  <2>3. CASE Take(v)
    BY <2>1, <2>3 DEF Take, Free
  <2>4. CASE Enter(v)
    BY <2>1, <2>4 DEF Enter, WorkerStates
  <2>5. CASE Handle(v)
    BY <2>5, HandleEffect DEF Deliveries
  <2>6. CASE Exit(v)
    BY <2>1, <2>6 DEF Exit, WorkerStates
  <2>7. CASE HandlerPanics(v)
    BY <2>7, DiesEffect DEF HandlerPanics, Dies
  <2>8. CASE Settle(v)
    BY <2>8, SettleEffect DEF Deliveries
  <2>9. CASE Signal(v)
    BY <2>9, SignalEffect DEF Deliveries
  <2>10. CASE Callback(v)
    <3>1. CASE Die("callback")
      BY <3>1, DiesEffect DEF Dies
    <3>2. CASE wk' = [wk EXCEPT ![v] = Free]
      BY <2>1, <3>2
    <3> QED
      BY <2>10, <3>1, <3>2 DEF Callback
  <2>11. CASE Delete(v)
    BY <2>1, <2>11 DEF Delete
  <2> QED
    BY <1>1, <2>2, <2>3, <2>4, <2>5, <2>6, <2>7, <2>8, <2>9, <2>10, <2>11 DEF Worker
<1>2. \A r \in Routes : Register(r) \/ Poll(r) => wk' = wk
  BY DEF Register, Poll, Receive
<1>3. \A m \in Msgs : Expire(m) \/ Redrive(m) => wk' = wk
  BY DEF Expire, Redrive
<1>4. Restart \/ UNCHANGED vars => wk' = wk
  BY DEF Restart, vars
<1> QED
  BY <1>1, <1>2, <1>3, <1>4 DEF Next, Done

\* A worker gets to the delete only after a run that ended well.
LEMMA GoneAfterSuccessStep ==
  ASSUME Inv, GoneAfterSuccess, [Next]_vars
  PROVE  GoneAfterSuccess'
<1>1. TypeOK /\ Deliveries /\ Held
  BY DEF Inv, Deliveries
<1>2. \A m \in Msgs : /\ hist[m]["ok"] \in Nat /\ hist'[m]["ok"] \in Nat
                      /\ hist'[m]["ok"] >= hist[m]["ok"]
  BY <1>1, RecordsGrow DEF Fates
<1>3. ASSUME NEW m \in Msgs, sqs'[m] = "gone"
      PROVE  hist'[m]["ok"] > 0
  <2>1. hist[m]["ok"] > 0
    <3>1. CASE sqs[m] = "gone"
      BY <3>1 DEF GoneAfterSuccess
    <3>2. CASE sqs[m] # "gone"
      <4>1. PICK w \in Workers : Delete(w) /\ wk[w].job.msg = m
        BY <1>1, <1>3, <3>2, GoneStep
      <4>2. wk[w].pc = "delete"
        BY <4>1 DEF Delete
      <4> QED
        BY <4>1, <4>2 DEF GoneAfterSuccess
    <3> QED
      BY <3>1, <3>2
  <2> QED
    BY <1>2, <2>1
<1>4. ASSUME NEW w \in Workers, wk'[w].pc = "delete"
      PROVE  hist'[wk'[w].job.msg]["ok"] > 0
  <2>1. CASE Settle(w)
    <3>1. PICK f \in {"ok", "err", "back"} :
            /\ Note(wk[w].job.msg, f)
            /\ wk'[w].pc = CASE f = "ok" -> "delete"
                             [] f = "err" /\ Exhausted(wk[w].job) -> "signal"
                             [] OTHER -> "idle"
            /\ wk'[w].pc # "idle" => wk'[w].job = wk[w].job
      BY <1>1, <2>1, SettleEffect
    <3>2. f = "ok" /\ wk'[w].job = wk[w].job /\ wk[w].job.msg \in Msgs
      BY <1>1, <1>4, <2>1, <3>1, SettleEffect
    <3> QED
      BY <1>1, <1>2, <3>1, <3>2, NoteEffect DEF Fates
  <2>2. CASE wk'[w].pc = wk[w].pc /\ wk'[w].job = wk[w].job
    <3>1. wk[w].job.msg \in Msgs /\ hist[wk[w].job.msg]["ok"] > 0
      BY <1>1, <1>4, <2>2 DEF Held, GoneAfterSuccess
    <3> QED
      BY <1>2, <2>2, <3>1
  <2> QED
    BY <1>1, <1>4, <2>1, <2>2, SettledStep
<1> QED
  BY <1>3, <1>4 DEF GoneAfterSuccess

\* A message leaves the queue for good only after a run of its handler that
\* returned nil and asked for no backoff: what does not decode, an error, a
\* panic or a crash never deletes it (the safety half of Resolved).
THEOREM DeletedAfterSuccess ==
  Spec => [](\A m \in Msgs : sqs[m] = "gone" => hist[m]["ok"] > 0)
<1>1. Init => GoneAfterSuccess
  BY DEF Init, Free, GoneAfterSuccess
<1>2. Inv /\ GoneAfterSuccess /\ [Next]_vars => GoneAfterSuccess'
  BY GoneAfterSuccessStep
<1>3. GoneAfterSuccess => \A m \in Msgs : sqs[m] = "gone" => hist[m]["ok"] > 0
  BY DEF GoneAfterSuccess
<1> QED
  BY <1>1, <1>2, <1>3, Invariance, PTL DEF Spec

\* A message whose latest receive is in someone's hands is not deleted: only the
\* worker with that receive can delete it, and is then done with it.
LEMMA LastReceiveStep ==
  ASSUME Inv, Inv', LastReceiveThere, [Next]_vars
  PROVE  LastReceiveThere'
<1>1. TypeOK /\ Deliveries /\ HeldOnce /\ Held
  BY DEF Inv, Deliveries
<1>2. \A r \in Routes : \A i \in 1 .. Len(todo[r]) : todo[r][i].msg \in Msgs
  <2>1. \A r \in Routes : \A i \in 1 .. Len(todo[r]) : todo[r][i] \in Tasks
    BY <1>1, WorkerType
  <2> QED
    BY <2>1 DEF Tasks
<1>3. ASSUME NEW m \in Msgs, sqs'[m] = "gone", sqs[m] # "gone"
      PROVE  /\ \A w \in Workers : ~(wk'[w].pc # "idle" /\ wk'[w].job.msg = m
                                       /\ wk'[w].job.count = rcv[m])
             /\ \A r \in Routes : \A i \in 1 .. Len(todo'[r]) :
                  ~(todo'[r][i].msg = m /\ todo'[r][i].count = rcv[m])
  <2>1. PICK v \in Workers : Delete(v) /\ wk[v].job.msg = m /\ wk[v].job.count = rcv[m]
    BY <1>1, <1>3, GoneStep
  <2>2. wk[v].pc = "delete" /\ wk' = [wk EXCEPT ![v] = Free] /\ todo' = todo
    BY <2>1 DEF Delete
  <2>3. wk'[v].pc = "idle" /\ \A w \in Workers \ {v} : wk'[w] = wk[w]
    BY <1>1, <2>2, WorkerType DEF Free
  <2> QED
    BY <1>1, <2>1, <2>2, <2>3 DEF HeldOnce
<1>4. CASE Fewer
  <2>1. ASSUME NEW w \in Workers, wk'[w].pc # "idle", wk'[w].job.count = rcv'[wk'[w].job.msg]
        PROVE  sqs'[wk'[w].job.msg] # "gone"
    <3>1. rcv' = rcv /\ Route(w) \in Routes
      BY <1>1, <1>4, WorkerType DEF Fewer
    <3>2. wk'[w].job.msg \in Msgs /\ sqs[wk'[w].job.msg] # "gone"
      <4>1. CASE wk[w].pc # "idle" /\ wk'[w].job = wk[w].job
        BY <1>1, <2>1, <3>1, <4>1 DEF LastReceiveThere, Held
      <4>2. CASE \E j \in 1 .. Len(todo[Route(w)]) : wk'[w].job = todo[Route(w)][j]
        BY <1>2, <2>1, <3>1, <4>2 DEF LastReceiveThere
      <4> QED
        BY <1>4, <2>1, <4>1, <4>2 DEF Fewer
    <3> QED
      BY <1>3, <2>1, <3>1, <3>2
  <2>2. ASSUME NEW r \in Routes, NEW i \in 1 .. Len(todo'[r]),
               todo'[r][i].count = rcv'[todo'[r][i].msg]
        PROVE  sqs'[todo'[r][i].msg] # "gone"
    <3>1. PICK j \in 1 .. Len(todo[r]) : todo'[r][i] = todo[r][j]
      BY <1>4 DEF Fewer
    <3>2. rcv' = rcv
      BY <1>4 DEF Fewer
    <3>3. todo[r][j].msg \in Msgs /\ sqs[todo[r][j].msg] # "gone"
      BY <1>2, <2>2, <3>1, <3>2 DEF LastReceiveThere
    <3> QED
      BY <1>3, <2>2, <3>1, <3>2, <3>3
  <2> QED
    BY <2>1, <2>2 DEF LastReceiveThere
<1>5. ASSUME NEW r \in Routes, NEW S \in Batches(r), Receive(r, S)
      PROVE  LastReceiveThere'
  <2>1. /\ sqs' = [m \in Msgs |-> IF m \in S THEN "inflight" ELSE sqs[m]]
        /\ rcv' = [m \in Msgs |-> IF m \in S THEN rcv[m] + 1 ELSE rcv[m]]
        /\ wk' = wk /\ todo' = [todo EXCEPT ![r] = todo'[r]]
    BY <1>1, <1>5, ReceiveEffect
  <2>2. \A i \in 1 .. Len(todo'[r]) : todo'[r][i].msg \in S
    BY <1>1, <1>5, ReceiveEffect
  <2>3. S \subseteq Msgs
    BY <1>1, BatchType
  <2>4. \A m \in Msgs : sqs'[m] = "gone" => m \notin S /\ sqs[m] = "gone" /\ rcv'[m] = rcv[m]
    BY <2>1
  <2>5. ASSUME NEW w \in Workers, wk[w].pc # "idle", wk[w].job.count = rcv'[wk[w].job.msg]
        PROVE  sqs'[wk[w].job.msg] # "gone"
    BY <1>1, <2>4, <2>5 DEF LastReceiveThere, Held
  <2>6. ASSUME NEW s \in Routes, NEW i \in 1 .. Len(todo'[s]),
               todo'[s][i].count = rcv'[todo'[s][i].msg]
        PROVE  sqs'[todo'[s][i].msg] # "gone"
    <3>1. CASE s = r
      BY <2>2, <2>3, <2>4, <3>1
    <3>2. CASE s # r
      <4>1. todo'[s] = todo[s]
        BY <1>1, <2>1, <3>2, WorkerType
      <4> QED
        BY <1>2, <2>4, <2>6, <4>1 DEF LastReceiveThere
    <3> QED
      BY <3>1, <3>2
  <2> QED
    BY <2>1, <2>5, <2>6 DEF LastReceiveThere
<1> QED
  BY <1>1, <1>4, <1>5, FewerOrReceive DEF Poll

\* With the threshold that mirrors the redrive policy an exhausted delivery is
\* the last one there is.
LEMMA ExhaustedIsLast ==
  ASSUME TypeOK, Held, NEW w \in Workers, wk[w].pc # "idle"
  PROVE  /\ Exhausted(wk[w].job) => wk[w].job.count = Policy
         /\ wk[w].job.count = Policy /\ config.maxReceiveCount > 0 => Exhausted(wk[w].job)
<1>1. config.maxReceiveCount \in {0, Policy} /\ Policy \in Nat \ {0}
  BY ConfigType, HandlingAssumption DEF TypeOK
<1>2. wk[w].job.count \in 1 .. Policy
  BY DEF Held
<1> QED
  BY <1>1, <1>2 DEF Exhausted

\* The last receive of a message cannot come back into play.
LEMMA LastOpenStep ==
  ASSUME Inv, [Next]_vars, NEW m \in Msgs, rcv[m] = Policy, LastOpen(m)'
  PROVE  LastOpen(m)
<1>1. TypeOK /\ Deliveries
  BY DEF Inv
<1>2. CASE Fewer
  <2>1. ASSUME NEW r \in Routes, NEW i \in 1 .. Len(todo'[r]),
               todo'[r][i].msg = m, todo'[r][i].count = Policy
        PROVE  LastOpen(m)
    <3>1. PICK j \in 1 .. Len(todo[r]) : todo'[r][i] = todo[r][j]
      BY <1>2 DEF Fewer
    <3> QED
      BY <2>1, <3>1 DEF LastOpen
  <2>2. ASSUME NEW w \in Workers, wk'[w].pc \in {"in", "out", "signal", "delete"},
               wk'[w].job.msg = m, wk'[w].job.count = Policy
        PROVE  LastOpen(m)
    <3>1. Route(w) \in Routes
      BY <1>1, WorkerType
    <3> QED
      BY <1>2, <2>2, <3>1 DEF Fewer, LastOpen
  <2> QED
    BY <2>1, <2>2 DEF LastOpen
<1>3. ASSUME NEW r \in Routes, NEW S \in Batches(r), Receive(r, S)
      PROVE  LastOpen(m)
  <2>1. /\ wk' = wk /\ todo' = [todo EXCEPT ![r] = todo'[r]]
        /\ \A i \in 1 .. Len(todo'[r]) : todo'[r][i].msg \in S
    BY <1>1, <1>3, ReceiveEffect
  <2>2. m \notin S
    BY <1>1, BatchType, HandlingAssumption
  <2>3. \A s \in Routes \ {r} : todo'[s] = todo[s]
    BY <1>1, <2>1, WorkerType
  <2> QED
    BY <2>1, <2>2, <2>3 DEF LastOpen
<1> QED
  BY <1>1, <1>2, <1>3, FewerOrReceive DEF Poll

\* A signal is the end of the last receive: there is no other worker with that
\* receive that could signal again or delete the message.
LEMMA SignalledLastStep ==
  ASSUME Inv, Inv', LastReceiveThere, SignalledLast, [Next]_vars
  PROVE  SignalledLast'
<1>1. TypeOK /\ Deliveries /\ HeldOnce /\ Held /\ Policy \in Nat \ {0}
  BY HandlingAssumption DEF Inv, Deliveries
<1>2. ASSUME NEW w \in Workers, wk'[w].pc = "signal"
      PROVE  wk'[w].job.count = Policy
  <2>1. CASE Settle(w)
    <3>1. PICK f \in {"ok", "err", "back"} :
            /\ wk'[w].pc = CASE f = "ok" -> "delete"
                             [] f = "err" /\ Exhausted(wk[w].job) -> "signal"
                             [] OTHER -> "idle"
            /\ wk'[w].pc # "idle" => wk'[w].job = wk[w].job
      BY <1>1, <2>1, SettleEffect
    <3>2. Exhausted(wk[w].job) /\ wk'[w].job = wk[w].job /\ wk[w].pc = "out"
      BY <1>1, <1>2, <2>1, <3>1, SettleEffect
    <3> QED
      BY <1>1, <3>2, ExhaustedIsLast
  <2>2. CASE wk'[w].pc = wk[w].pc /\ wk'[w].job = wk[w].job
    BY <1>2, <2>2 DEF SignalledLast
  <2> QED
    BY <1>1, <1>2, <2>1, <2>2, SettledStep
<1>3. ASSUME NEW w \in Workers, Signal(w), NEW m \in Msgs, wk[w].job.msg = m
      PROVE  /\ hist'[m]["signalled"] = 1
             /\ sqs'[m] # "gone" /\ rcv'[m] = Policy /\ ~LastOpen(m)'
  <2>1. /\ wk[w].pc = "signal" /\ wk'[w].pc \in {"idle", "callback"}
        /\ \A v \in Workers \ {w} : wk'[v] = wk[v]
        /\ Note(m, "signalled") /\ UNCHANGED <<todo, sqs, rcv>>
    BY <1>1, <1>3, SignalEffect
  <2>2. wk[w].job.count = Policy
    BY <2>1 DEF SignalledLast
  <2>3. LastOpen(m)
    BY <1>3, <2>1, <2>2 DEF LastOpen
  <2>4. hist[m]["signalled"] \in Nat /\ hist[m]["signalled"] <= 1 /\ hist[m]["signalled"] # 1
    BY <1>1, <2>1, <2>3, NoteEffect DEF SignalledLast, Fates
  <2>5. hist'[m]["signalled"] = 1
    BY <1>1, <2>1, <2>4, NoteEffect DEF Fates
  <2>6. rcv[m] = Policy
    <3>1. rcv[m] \in 0 .. Policy /\ Policy <= rcv[m]
      BY <1>1, <1>3, <2>1, <2>2 DEF TypeOK, Held
    <3> QED
      BY <1>1, <3>1
  <2>7. sqs[m] # "gone"
    BY <1>3, <2>1, <2>2, <2>6 DEF LastReceiveThere
  <2>8. ~LastOpen(m)'
    <3>1. \A v \in Workers : wk'[v].pc \in {"in", "out", "signal", "delete"} =>
            ~(wk'[v].job.msg = m /\ wk'[v].job.count = Policy)
      BY <1>1, <1>3, <2>1, <2>2 DEF HeldOnce
    <3>2. \A r \in Routes : \A i \in 1 .. Len(todo'[r]) :
            ~(todo'[r][i].msg = m /\ todo'[r][i].count = Policy)
      BY <1>1, <1>3, <2>1, <2>2 DEF HeldOnce
    <3> QED
      BY <3>1, <3>2 DEF LastOpen
  <2> QED
    BY <2>1, <2>5, <2>6, <2>7, <2>8
<1>4. ASSUME NEW m \in Msgs, hist'[m]["signalled"] = hist[m]["signalled"],
             hist[m]["signalled"] = 1
      PROVE  sqs'[m] # "gone" /\ rcv'[m] = Policy /\ ~LastOpen(m)'
  <2>1. sqs[m] # "gone" /\ rcv[m] = Policy /\ ~LastOpen(m)
    BY <1>4 DEF SignalledLast
  <2>2. ~LastOpen(m)'
    BY <2>1, LastOpenStep
  <2>3. rcv'[m] = Policy
    <3>1. CASE Fewer
      BY <2>1, <3>1 DEF Fewer
    <3>2. ASSUME NEW r \in Routes, NEW S \in Batches(r), Receive(r, S)
          PROVE  rcv'[m] = Policy
      <4>1. m \notin S
        BY <1>1, <2>1, BatchType
      <4> QED
        BY <1>1, <2>1, <3>2, <4>1, ReceiveEffect
    <3> QED
      BY <1>1, <3>1, <3>2, FewerOrReceive DEF Poll
  <2>4. sqs'[m] # "gone"
    <3>1. SUFFICES ASSUME sqs'[m] = "gone" PROVE FALSE
      OBVIOUS
    <3>2. PICK w \in Workers : Delete(w) /\ wk[w].job.msg = m /\ wk[w].job.count = rcv[m]
      BY <1>1, <2>1, <3>1, GoneStep
    <3>3. wk[w].pc = "delete"
      BY <3>2 DEF Delete
    <3> QED
      BY <2>1, <3>2, <3>3 DEF LastOpen
  <2> QED
    BY <2>2, <2>3, <2>4
<1>5. ASSUME NEW m \in Msgs
      PROVE  /\ hist'[m]["signalled"] <= 1
             /\ hist'[m]["signalled"] = 1 => sqs'[m] # "gone" /\ rcv'[m] = Policy /\ ~LastOpen(m)'
  <2>1. hist[m]["signalled"] <= 1
    BY DEF SignalledLast
  <2>2. CASE hist'[m]["signalled"] = hist[m]["signalled"]
    BY <1>4, <2>1, <2>2
  <2>3. CASE hist'[m]["signalled"] # hist[m]["signalled"]
    <3>1. PICK w \in Workers : Signal(w) /\ wk[w].job.msg = m
      BY <1>1, <2>3, RecordsGrow
    <3> QED
      BY <1>3, <3>1
  <2> QED
    BY <2>2, <2>3
<1> QED
  BY <1>2, <1>5 DEF SignalledLast

-----------------------------------------------------------------------------
(* Receives that are over, in a process that cannot die.                    *)

\* The worker w passes a middleware, deletes or comes back from the callback.
Proceeds(w) ==
  /\ UNCHANGED <<todo, hist, poisoned>>
  /\ wk[w].pc \in {"in", "out"} => wk'[w].pc = wk[w].pc /\ wk'[w].job = wk[w].job
  /\ wk[w].pc # "signal"
  /\ wk'[w].pc \notin {"signal", "idle"} => wk'[w].pc = wk[w].pc
  /\ wk'[w].pc # "idle" => wk'[w].job = wk[w].job

\* In a process that cannot die a worker's step is its own business.
LEMMA AloneStep ==
  ASSUME Inv, CannotDie, NEW w \in Workers, Worker(w)
  PROVE  /\ \A v \in Workers \ {w} : wk'[v] = wk[v]
         /\ \/ Hold(w) \/ Take(w) \/ Handle(w) \/ Settle(w) \/ Signal(w)
            \/ Proceeds(w)
<1>1. TypeOK /\ Deliveries /\ Held /\ PanicsOutside
  BY DEF Inv, Deliveries
<1>2. wk \in [Workers -> WorkerStates] /\ Free.pc = "idle"
  BY <1>1, WorkerType DEF Free
<1>3. CASE Hold(w)
  BY <1>3 DEF Hold
<1>4. CASE Take(w)
  BY <1>2, <1>4 DEF Take
<1>5. CASE Handle(w)
  BY <1>1, <1>5, HandleEffect
<1>6. CASE Settle(w)
  BY <1>1, <1>6, SettleEffect
<1>7. CASE Signal(w)
  BY <1>1, <1>7, SignalEffect
<1>8. CASE Enter(w)
  <2>1. UNCHANGED <<todo, hist, poisoned>> /\ wk[w].pc = "in"
    BY <1>8 DEF Enter
  <2>2. /\ wk'[w].pc = "in" /\ wk'[w].job = wk[w].job
        /\ \A v \in Workers \ {w} : wk'[v] = wk[v]
    BY <1>2, <1>8 DEF Enter, WorkerStates
  <2> QED
    BY <2>1, <2>2 DEF Proceeds
<1>9. CASE Exit(w)
  <2>1. UNCHANGED <<todo, hist, poisoned>> /\ wk[w].pc = "out"
    BY <1>9 DEF Exit
  <2>2. /\ wk'[w].pc = "out" /\ wk'[w].job = wk[w].job
        /\ \A v \in Workers \ {w} : wk'[v] = wk[v]
    BY <1>2, <1>9 DEF Exit, WorkerStates
  <2> QED
    BY <2>1, <2>2 DEF Proceeds
<1>10. ~HandlerPanics(w)
  <2>1. SUFFICES ASSUME HandlerPanics(w) PROVE FALSE
    OBVIOUS
  <2>2. wk[w].pc = "out" /\ wk[w].at = 0 /\ wk[w].res = "panic"
    BY <2>1 DEF HandlerPanics
  <2>3. Layers \in Seq(Kinds) /\ Len(Layers) \in Nat
    BY <1>1, ConfigType DEF TypeOK
  <2> QED
    BY <1>1, <2>2, <2>3, HasLayer DEF PanicsOutside, CannotDie
<1>11. ~Callback(w)
  BY <1>1 DEF Callback, PanicsOutside, CannotDie
<1>12. CASE Delete(w)
  <2>1. UNCHANGED <<todo, hist, poisoned>> /\ wk[w].pc = "delete" /\ wk' = [wk EXCEPT ![w] = Free]
    BY <1>12 DEF Delete
  <2>2. wk'[w].pc = "idle" /\ \A v \in Workers \ {w} : wk'[v] = wk[v]
    BY <1>2, <2>1
  <2> QED
    BY <2>1, <2>2 DEF Proceeds
<1> QED
  BY <1>3, <1>4, <1>5, <1>6, <1>7, <1>8, <1>9, <1>10, <1>11, <1>12 DEF Worker

\* A step is a receive, a worker's, or neither, and then touches no delivery.
LEMMA StepKinds ==
  ASSUME [Next]_vars
  PROVE  \/ \E r \in Routes : Poll(r)
         \/ \E w \in Workers : Worker(w)
         \/ UNCHANGED <<config, rcv, todo, wk, hist, poisoned>>
<1>1. \A r \in Routes : Register(r) => UNCHANGED <<config, rcv, todo, wk, hist, poisoned>>
  BY DEF Register, queueVars
<1>2. \A m \in Msgs : Expire(m) \/ Redrive(m) => UNCHANGED <<config, rcv, todo, wk, hist, poisoned>>
  BY DEF Expire, Redrive
<1>3. Restart \/ UNCHANGED vars => UNCHANGED <<config, rcv, todo, wk, hist, poisoned>>
  BY DEF Restart, vars, queueVars
<1> QED
  BY <1>1, <1>2, <1>3 DEF Next, Done

\* The process stays as it is built.
LEMMA ConfigStep ==
  ASSUME Inv, [Next]_vars
  PROVE  UNCHANGED config /\ CannotDie' = CannotDie
<1>1. config' = config
  BY FewerOrReceive DEF Inv, Fewer, Poll, Receive
<1> QED
  BY <1>1 DEF CannotDie, Has, Layers

\* Receives are numbered from one to Policy.
LEMMA UnsettledFinite ==
  ASSUME NEW S \in SUBSET (1 .. Policy)
  PROVE  IsFiniteSet(S) /\ Cardinality(S) \in Nat
<1>1. IsFiniteSet(1 .. Policy)
  BY HandlingAssumption, FS_Interval
<1> QED
  BY <1>1, FS_Subset, FS_CardinalityType

\* One element less.
LEMMA CountLess ==
  ASSUME NEW S \in SUBSET (1 .. Policy), NEW T \in SUBSET S
  PROVE  /\ Cardinality(T) \in Nat /\ Cardinality(S) \in Nat
         /\ Cardinality(T) <= Cardinality(S)
         /\ \A c \in S : c \notin T => Cardinality(T) + 1 <= Cardinality(S)
         /\ \A c \in S : T = S \ {c} => Cardinality(T) + 1 = Cardinality(S)
<1>1. IsFiniteSet(S) /\ Cardinality(S) \in Nat /\ IsFiniteSet(T) /\ Cardinality(T) \in Nat
  BY UnsettledFinite
<1>2. Cardinality(T) <= Cardinality(S)
  BY <1>1, FS_Subset
<1>3. ASSUME NEW c \in S, c \notin T
      PROVE  Cardinality(T) + 1 <= Cardinality(S)
  <2>1. IsFiniteSet(S \ {c}) /\ Cardinality(S \ {c}) = Cardinality(S) - 1
    BY <1>1, FS_RemoveElement
  <2>2. Cardinality(T) <= Cardinality(S \ {c})
    BY <1>3, <2>1, FS_Subset
  <2> QED
    BY <1>1, <2>1, <2>2
<1>4. ASSUME NEW c \in S, T = S \ {c}
      PROVE  Cardinality(T) + 1 = Cardinality(S)
  <2>1. Cardinality(S \ {c}) = Cardinality(S) - 1
    BY <1>1, FS_RemoveElement
  <2> QED
    BY <1>1, <1>4, <2>1
<1> QED
  BY <1>1, <1>2, <1>3, <1>4

\* Adding one.
LEMMA CountMore ==
  ASSUME NEW S \in SUBSET (1 .. Policy), NEW T \in SUBSET (1 .. Policy), NEW c, T \subseteq S \cup {c}
  PROVE  /\ Cardinality(T) \in Nat /\ Cardinality(S) \in Nat
         /\ Cardinality(T) <= Cardinality(S) + 1
         /\ T = S \cup {c} /\ c \notin S => Cardinality(T) = Cardinality(S) + 1
<1>1. IsFiniteSet(S) /\ Cardinality(S) \in Nat /\ IsFiniteSet(T) /\ Cardinality(T) \in Nat
  BY UnsettledFinite
<1>2. /\ IsFiniteSet(S \cup {c})
      /\ Cardinality(S \cup {c}) = IF c \in S THEN Cardinality(S) ELSE Cardinality(S) + 1
  BY <1>1, FS_AddElement
<1>3. Cardinality(T) <= Cardinality(S \cup {c})
  BY <1>2, FS_Subset
<1>4. Cardinality(S \cup {c}) <= Cardinality(S) + 1
  BY <1>1, <1>2
<1>5. Cardinality(T) <= Cardinality(S) + 1
  BY <1>1, <1>2, <1>3, <1>4
<1>6. ASSUME T = S \cup {c}, c \notin S
      PROVE  Cardinality(T) = Cardinality(S) + 1
  BY <1>2, <1>6
<1> QED
  BY <1>1, <1>5, <1>6

\* No receive of m becomes unsettled again, or its handler's run undone.
LEMMA FewerOpen ==
  ASSUME Inv, Fewer, NEW m \in Msgs
  PROVE  Unsettled(m)' \subseteq Unsettled(m) /\ Unrun(m)' \subseteq Unrun(m)
<1>1. \A w \in Workers : Route(w) \in Routes
  BY WorkerType DEF Inv
<1>2. ASSUME NEW c \in 1 .. Policy, NEW r \in Routes, NEW i \in 1 .. Len(todo'[r]),
             todo'[r][i].msg = m, todo'[r][i].count = c
      PROVE  c \in Unsettled(m) /\ c \in Unrun(m)
  <2>1. PICK j \in 1 .. Len(todo[r]) : todo'[r][i] = todo[r][j]
    BY DEF Fewer
  <2> QED
    BY <1>2, <2>1 DEF Unsettled, Unrun
<1>3. ASSUME NEW c \in 1 .. Policy, NEW w \in Workers, wk'[w].pc \in {"in", "out"},
             wk'[w].job.msg = m, wk'[w].job.count = c
      PROVE  c \in Unsettled(m) /\ (wk'[w].pc = "in" => c \in Unrun(m))
  <2>1. CASE /\ wk[w].pc # "idle" /\ wk'[w].job = wk[w].job
             /\ wk'[w].pc = "in" => wk[w].pc = "in"
             /\ wk'[w].pc = "out" => wk[w].pc \in {"in", "out"}
    BY <1>3, <2>1 DEF Unsettled, Unrun
  <2>2. CASE \E j \in 1 .. Len(todo[Route(w)]) : wk'[w].job = todo[Route(w)][j]
    BY <1>1, <1>3, <2>2 DEF Unsettled, Unrun
  <2> QED
    BY <1>3, <2>1, <2>2 DEF Fewer
<1>4. ASSUME NEW c \in Unsettled(m)'
      PROVE  c \in Unsettled(m)
  BY <1>2, <1>3, <1>4 DEF Unsettled
<1>5. ASSUME NEW c \in Unrun(m)'
      PROVE  c \in Unrun(m)
  BY <1>2, <1>3, <1>5 DEF Unrun
<1> QED
  BY <1>4, <1>5

\* A receive of m adds its number, one of another message none.
LEMMA ReceiveOpen ==
  ASSUME Inv, NEW r \in Routes, NEW S \in Batches(r), Receive(r, S), NEW m \in Msgs
  PROVE  IF m \in S
           THEN /\ rcv[m] + 1 \in 1 .. Policy /\ rcv'[m] = rcv[m] + 1
                /\ rcv[m] + 1 \notin Unsettled(m) /\ rcv[m] + 1 \notin Unrun(m)
                /\ Unsettled(m)' = Unsettled(m) \cup {rcv[m] + 1}
                /\ Unrun(m)' = Unrun(m) \cup {rcv[m] + 1}
           ELSE rcv'[m] = rcv[m] /\ Unsettled(m)' = Unsettled(m) /\ Unrun(m)' = Unrun(m)
<1>1. TypeOK /\ Deliveries /\ Held /\ Waiting
  BY DEF Inv, Deliveries
<1>2. /\ wk' = wk /\ todo' = [todo EXCEPT ![r] = todo'[r]] /\ todo[r] = << >>
      /\ rcv' = [n \in Msgs |-> IF n \in S THEN rcv[n] + 1 ELSE rcv[n]]
      /\ \A n \in S : \E i \in 1 .. Len(todo'[r]) : todo'[r][i].msg = n
  BY <1>1, ReceiveEffect
<1>3. \A i \in 1 .. Len(todo'[r]) :
        todo'[r][i].msg \in S /\ todo'[r][i].count = rcv[todo'[r][i].msg] + 1
  BY <1>1, ReceiveEffect
<1>4. /\ \A s \in Routes \ {r} : todo'[s] = todo[s]
      /\ ~ \E i \in 1 .. Len(todo[r]) : TRUE
  BY <1>1, <1>2, WorkerType
<1>5. m \in S => rcv[m] \in Nat /\ rcv[m] + 1 \in 1 .. Policy
  <2>1. rcv[m] \in 0 .. Policy /\ Policy \in Nat
    BY <1>1, HandlingAssumption DEF TypeOK
  <2>2. m \in S => rcv[m] < Policy
    BY <1>1, BatchType
  <2> QED
    BY <2>1, <2>2
<1> DEFINE Q == {c \in 1 .. Policy : \E s \in Routes : \E i \in 1 .. Len(todo[s]) :
                    todo[s][i].msg = m /\ todo[s][i].count = c}
           A(P) == {c \in 1 .. Policy : \E w \in Workers : /\ wk[w].pc \in P
                                          /\ wk[w].job.msg = m /\ wk[w].job.count = c}
           Qn == {c \in 1 .. Policy : \E s \in Routes : \E i \in 1 .. Len(todo'[s]) :
                    todo'[s][i].msg = m /\ todo'[s][i].count = c}
<1>6. /\ Unsettled(m) = Q \cup A({"in", "out"}) /\ Unrun(m) = Q \cup A({"in"})
      /\ Unsettled(m)' = Qn \cup A({"in", "out"}) /\ Unrun(m)' = Qn \cup A({"in"})
  BY <1>2 DEF Unsettled, Unrun
<1>7. Qn = IF m \in S THEN Q \cup {rcv[m] + 1} ELSE Q
  <2>1. ASSUME NEW c \in Qn
        PROVE  c \in Q \/ (m \in S /\ c = rcv[m] + 1)
    <3>1. PICK s \in Routes : \E i \in 1 .. Len(todo'[s]) :
                                todo'[s][i].msg = m /\ todo'[s][i].count = c
      OBVIOUS
    <3>2. CASE s = r
      BY <1>3, <3>1, <3>2
    <3>3. CASE s # r
      BY <1>4, <3>1, <3>3
    <3> QED
      BY <3>2, <3>3
  <2>2. ASSUME NEW c \in Q
        PROVE  c \in Qn
    <3>1. PICK s \in Routes : \E i \in 1 .. Len(todo[s]) :
                                todo[s][i].msg = m /\ todo[s][i].count = c
      OBVIOUS
    <3>2. s # r
      BY <1>4, <3>1
    <3> QED
      BY <1>4, <3>1, <3>2
  <2>3. ASSUME m \in S
        PROVE  rcv[m] + 1 \in Qn
    <3>1. PICK i \in 1 .. Len(todo'[r]) : todo'[r][i].msg = m
      BY <1>2, <2>3
    <3>2. todo'[r][i].count = rcv[m] + 1
      BY <1>3, <3>1
    <3> QED
      BY <1>5, <2>3, <3>1, <3>2
  <2> HIDE DEF Q, Qn
  <2> QED
    BY <2>1, <2>2, <2>3
<1>8. ASSUME m \in S
      PROVE  /\ rcv[m] + 1 \notin Q
             /\ \A P \in {{"in", "out"}, {"in"}} : rcv[m] + 1 \notin A(P)
  <2>1. ~ \E s \in Routes : \E i \in 1 .. Len(todo[s]) :
            todo[s][i].msg = m /\ todo[s][i].count = rcv[m] + 1
    BY <1>1, <1>5, <1>8 DEF Waiting
  <2>2. ~ \E w \in Workers : wk[w].pc # "idle" /\ wk[w].job.msg = m /\ wk[w].job.count = rcv[m] + 1
    BY <1>1, <1>5, <1>8 DEF Held
  <2> QED
    BY <2>1, <2>2
<1> HIDE DEF Q, A, Qn
<1>9. rcv'[m] = IF m \in S THEN rcv[m] + 1 ELSE rcv[m]
  BY <1>2
<1> QED
  BY <1>5, <1>6, <1>7, <1>8, <1>9

\* Settle ends the receive of its worker, and only this one.
LEMMA SettleOpen ==
  ASSUME Inv, NEW w \in Workers, Settle(w), NEW m \in Msgs, wk[w].job.msg = m
  PROVE  /\ wk[w].job.count \in Unsettled(m)
         /\ Unsettled(m)' = Unsettled(m) \ {wk[w].job.count}
<1>1. TypeOK /\ Deliveries /\ Held /\ HeldOnce
  BY DEF Inv, Deliveries
<1>2. /\ wk[w].pc = "out" /\ \A v \in Workers \ {w} : wk'[v] = wk[v]
      /\ todo' = todo /\ wk'[w].pc \in {"delete", "signal", "idle"}
  BY <1>1, SettleEffect
<1>3. wk[w].job.count \in 1 .. Policy
  BY <1>1, <1>2 DEF Held
<1>4. wk[w].job.count \in Unsettled(m)
  BY <1>2, <1>3 DEF Unsettled
<1>5. ASSUME NEW c \in Unsettled(m)'
      PROVE  c \in Unsettled(m) /\ c # wk[w].job.count
  <2>1. CASE \E r \in Routes : \E i \in 1 .. Len(todo[r]) : todo[r][i].msg = m /\ todo[r][i].count = c
    <3>1. c \in 1 .. Policy
      BY <1>5 DEF Unsettled
    <3> QED
      BY <1>1, <1>2, <2>1, <3>1 DEF Unsettled, HeldOnce
  <2>2. CASE \E v \in Workers : /\ wk'[v].pc \in {"in", "out"}
                                /\ wk'[v].job.msg = m /\ wk'[v].job.count = c
    <3>1. PICK v \in Workers : /\ wk'[v].pc \in {"in", "out"}
                               /\ wk'[v].job.msg = m /\ wk'[v].job.count = c
      BY <2>2
    <3>2. v # w /\ wk'[v] = wk[v] /\ c \in 1 .. Policy
      BY <1>2, <1>5, <3>1 DEF Unsettled
    <3> QED
      BY <1>1, <1>2, <3>1, <3>2 DEF Unsettled, HeldOnce
  <2> QED
    BY <1>2, <1>5, <2>1, <2>2 DEF Unsettled
<1>6. ASSUME NEW c \in Unsettled(m), c # wk[w].job.count
      PROVE  c \in Unsettled(m)'
  <2>1. c \in 1 .. Policy
    BY DEF Unsettled
  <2>2. CASE \E r \in Routes : \E i \in 1 .. Len(todo[r]) : todo[r][i].msg = m /\ todo[r][i].count = c
    BY <1>2, <2>1, <2>2 DEF Unsettled
  <2>3. CASE \E v \in Workers : /\ wk[v].pc \in {"in", "out"}
                                /\ wk[v].job.msg = m /\ wk[v].job.count = c
    <3>1. PICK v \in Workers : /\ wk[v].pc \in {"in", "out"}
                               /\ wk[v].job.msg = m /\ wk[v].job.count = c
      BY <2>3
    <3>2. wk'[v] = wk[v]
      BY <1>2, <1>6, <3>1
    <3> QED
      BY <2>1, <3>1, <3>2 DEF Unsettled
  <2> QED
    BY <2>2, <2>3 DEF Unsettled
<1> QED
  BY <1>4, <1>5, <1>6

\* A worker on its way to the signal gives it.
LEMMA SignalStays ==
  ASSUME Inv, CannotDie, NEW w \in Workers, Worker(w), NEW v \in Workers,
         wk[v].pc = "signal", ~(v = w /\ Signal(w))
  PROVE  wk'[v] = wk[v]
<1>1. Held /\ TypeOK
  BY DEF Inv, Deliveries
<1>2. CASE v # w
  BY <1>2, AloneStep
<1>3. CASE v = w
  BY <1>1, <1>3, AloneStep, HandleEffect, SettleEffect DEF Hold, Take, Proceeds
<1> QED
  BY <1>2, <1>3

\* A receive that is over failed at most once, and if the last one did there is
\* a signal for it.
LEMMA ErrorsCountedStep ==
  ASSUME Inv, SignalledLast, ErrorsCounted, [Next]_vars
  PROVE  ErrorsCounted'
<1>1. TypeOK /\ Deliveries /\ Held
  BY DEF Inv, Deliveries
<1>2. UNCHANGED config /\ CannotDie' = CannotDie
  BY ConfigStep
<1>3. SUFFICES ASSUME CannotDie, config.maxReceiveCount > 0, NEW m \in Msgs
               PROVE  hist'[m]["err"] + Cardinality(Unsettled(m)')
                        + (IF Unsignalled(m)' THEN 1 ELSE 0) <= rcv'[m]
  BY <1>2 DEF ErrorsCounted
<1> DEFINE e == hist[m]["err"]
           U == Unsettled(m)
           Un == Unsettled(m)'
<1>4. e + Cardinality(U) + (IF Unsignalled(m) THEN 1 ELSE 0) <= rcv[m]
  BY <1>3 DEF ErrorsCounted
<1>5. /\ U \in SUBSET (1 .. Policy) /\ Un \in SUBSET (1 .. Policy)
      /\ Policy \in Nat \ {0} /\ rcv[m] \in Nat
  BY <1>1, HandlingAssumption DEF Unsettled, TypeOK
<1>6. /\ e \in Nat /\ hist'[m]["err"] \in Nat /\ Cardinality(U) \in Nat /\ Cardinality(Un) \in Nat
  BY <1>1, <1>5, RecordsGrow, UnsettledFinite DEF Fates
<1> HIDE DEF e, U, Un
<1>7. ASSUME hist'[m]["err"] = e, rcv'[m] = rcv[m], Un \subseteq U,
             Unsignalled(m)' => Unsignalled(m) \/ \E c \in U : c \notin Un
      PROVE  hist'[m]["err"] + Cardinality(Un) + (IF Unsignalled(m)' THEN 1 ELSE 0) <= rcv'[m]
  <2>1. Cardinality(Un) <= Cardinality(U)
    BY <1>5, <1>7, CountLess
  <2>2. (\E c \in U : c \notin Un) => Cardinality(Un) + 1 <= Cardinality(U)
    BY <1>5, <1>7, CountLess
  <2> QED
    BY <1>4, <1>5, <1>6, <1>7, <2>1, <2>2
<1>8. CASE UNCHANGED <<config, rcv, todo, wk, hist, poisoned>>
  <2>1. Un = U /\ (Unsignalled(m)' <=> Unsignalled(m)) /\ hist'[m]["err"] = e /\ rcv'[m] = rcv[m]
    BY <1>8 DEF Un, U, e, Unsettled, Unsignalled
  <2> QED
    BY <1>7, <2>1 DEF Un
<1>9. ASSUME NEW r \in Routes, NEW S \in Batches(r), Receive(r, S)
      PROVE  hist'[m]["err"] + Cardinality(Un) + (IF Unsignalled(m)' THEN 1 ELSE 0) <= rcv'[m]
  <2>1. hist' = hist /\ wk' = wk
    BY <1>1, <1>9, ReceiveEffect
  <2>2. hist'[m]["err"] = e
    BY <2>1 DEF e
  <2>3. CASE m \in S
    <3>1. rcv'[m] = rcv[m] + 1 /\ rcv[m] + 1 \notin U /\ Un = U \cup {rcv[m] + 1}
      BY <1>9, <2>3, ReceiveOpen DEF U, Un
    <3>2. Cardinality(Un) = Cardinality(U) + 1
      BY <1>5, <3>1, CountMore
    <3>3. ~Unsignalled(m)'
      BY <3>1 DEF Unsignalled, Un
    <3>4. e + Cardinality(U) <= rcv[m]
      BY <1>4, <1>5, <1>6
    <3> QED
      BY <1>5, <1>6, <2>2, <3>1, <3>2, <3>3, <3>4
  <2>4. CASE m \notin S
    <3>1. rcv'[m] = rcv[m] /\ Un = U
      BY <1>9, <2>4, ReceiveOpen DEF U, Un
    <3>2. Unsignalled(m)' => Unsignalled(m)
      BY <2>1, <3>1 DEF Unsignalled, U, Un
    <3> QED
      BY <1>7, <2>2, <3>1, <3>2
  <2> QED
    BY <2>3, <2>4
<1>10. ASSUME NEW w \in Workers, Worker(w)
       PROVE  hist'[m]["err"] + Cardinality(Un) + (IF Unsignalled(m)' THEN 1 ELSE 0) <= rcv'[m]
  <2>1. Fewer /\ rcv' = rcv /\ Un \subseteq U
    BY <1>1, <1>10, WorkerFewer, FewerOpen DEF Fewer, U, Un
  <2>2. CASE Signal(w) /\ wk[w].job.msg = m
    <3>1. Note(m, "signalled")
      BY <1>1, <2>2, SignalEffect
    <3>2. hist'[m]["err"] = e /\ hist'[m]["signalled"] # 0
      BY <1>1, <3>1, NoteEffect DEF e, Fates
    <3> QED
      BY <1>7, <2>1, <3>2 DEF Unsignalled
  <2>3. CASE ~(Signal(w) /\ wk[w].job.msg = m)
    <3>1. hist'[m]["signalled"] = hist[m]["signalled"]
      <4>1. SUFFICES ASSUME hist'[m]["signalled"] # hist[m]["signalled"] PROVE FALSE
        OBVIOUS
      <4>2. PICK v \in Workers : Signal(v) /\ wk[v].job.msg = m
        BY <1>1, <4>1, RecordsGrow
      <4>3. v # w /\ wk[v].pc = "signal" /\ wk'[v].pc \in {"idle", "callback"}
        BY <1>1, <2>3, <4>2, SignalEffect
      <4> QED
        BY <1>3, <1>10, <4>3, SignalStays
    <3>2. ASSUME Unsignalled(m)', ~Unsignalled(m)
          PROVE  Policy \in U /\ Policy \notin Un
      <4>1. /\ rcv[m] = Policy /\ Policy \notin Un /\ hist[m]["signalled"] = 0
            /\ \A v \in Workers : wk'[v].pc = "signal" => wk'[v].job.msg # m
        BY <2>1, <3>1, <3>2 DEF Unsignalled, Un
      <4>2. \A v \in Workers : wk[v].pc = "signal" => wk[v].job.msg # m
        BY <1>3, <1>10, <2>3, <4>1, SignalStays
      <4> QED
        BY <3>2, <4>1, <4>2 DEF Unsignalled, U
    <3>3. CASE hist'[m]["err"] = e
      BY <1>7, <2>1, <3>2, <3>3
    <3>4. CASE hist'[m]["err"] # e
      <4>1. PICK v \in Workers : Settle(v) /\ wk[v].job.msg = m
        BY <1>1, <3>4, RecordsGrow DEF e
      <4>2. v = w /\ Settle(w)
        <5>1. wk[v].pc = "out" /\ wk'[v].pc \in {"delete", "signal", "idle"}
          BY <1>1, <4>1, SettleEffect
        <5> QED
          BY <1>3, <1>10, <4>1, <5>1, AloneStep
      <4> DEFINE c == wk[w].job.count
      <4>3. PICK f \in {"ok", "err", "back"} :
              /\ Note(m, f)
              /\ wk'[w].pc = CASE f = "ok" -> "delete"
                               [] f = "err" /\ Exhausted(wk[w].job) -> "signal"
                               [] OTHER -> "idle"
              /\ wk'[w].pc # "idle" => wk'[w].job = wk[w].job
        BY <1>1, <4>1, <4>2, SettleEffect
      <4>4. f = "err" /\ hist'[m]["err"] = e + 1
        BY <1>1, <3>4, <4>3, NoteEffect DEF e, Fates
      <4>5. c \in U /\ Un = U \ {c}
        BY <4>1, <4>2, SettleOpen DEF U, Un
      <4>6. Cardinality(Un) + 1 = Cardinality(U)
        BY <1>5, <4>5, CountLess
      <4>7. Unsignalled(m)' => Unsignalled(m)
        <5>1. SUFFICES ASSUME Unsignalled(m)', ~Unsignalled(m) PROVE FALSE
          OBVIOUS
        <5>2. c = Policy
          BY <3>2, <4>5, <5>1
        <5>3. wk[w].pc = "out"
          BY <1>1, <4>2, SettleEffect
        <5>4. Exhausted(wk[w].job)
          BY <1>1, <1>3, <5>2, <5>3, ExhaustedIsLast
        <5>5. wk'[w].pc = "signal" /\ wk'[w].job.msg = m
          BY <4>1, <4>2, <4>3, <4>4, <5>4
        <5> QED
          BY <5>1, <5>5 DEF Unsignalled
      <4> QED
        BY <1>4, <1>5, <1>6, <2>1, <4>4, <4>6, <4>7
    <3> QED
      BY <3>3, <3>4
  <2> QED
    BY <2>2, <2>3
<1> QED
  BY <1>8, <1>9, <1>10, StepKinds DEF Poll, Un

\* Nothing has happened to any receive when the process starts.
LEMMA NothingOpen ==
  ASSUME Init, NEW m \in Msgs
  PROVE  /\ Unsettled(m) = {} /\ Unrun(m) = {} /\ Cardinality({}) = 0
         /\ rcv[m] = 0 /\ Policy # 0 /\ \A f \in Fates : hist[m][f] = 0
<1>1. \A w \in Workers : wk[w].pc = "idle"
  BY DEF Init, Free
<1>2. ~ \E r \in Routes : \E i \in 1 .. Len(todo[r]) : TRUE
  BY DEF Init
<1>3. rcv[m] = 0 /\ \A f \in Fates : hist[m][f] = 0
  BY DEF Init, Zero
<1>4. Unsettled(m) = {} /\ Unrun(m) = {}
  BY <1>1, <1>2 DEF Unsettled, Unrun
<1> QED
  BY <1>3, <1>4, FS_EmptySet, HandlingAssumption

\* "Observe-only": a message is signalled as exhausted at most once and never
\* deleted after, and one redriven after nothing but errors was signalled.
THEOREM SignalsTruthful == Spec => []DLQSignals
<1>1. Init => LastReceiveThere /\ SignalledLast /\ ErrorsCounted
  <2>1. SUFFICES ASSUME Init PROVE LastReceiveThere /\ SignalledLast /\ ErrorsCounted
    OBVIOUS
  <2>2. \A w \in Workers : wk[w].pc = "idle"
    BY <2>1 DEF Init, Free
  <2>3. LastReceiveThere
    BY <2>1, <2>2 DEF Init, LastReceiveThere
  <2>4. SignalledLast
    BY <2>1, <2>2, NothingOpen DEF SignalledLast, Fates
  <2>5. ErrorsCounted
    BY <2>1, NothingOpen DEF ErrorsCounted, Fates, Unsignalled
  <2> QED
    BY <2>3, <2>4, <2>5
<1>2. Inv /\ Inv' /\ LastReceiveThere /\ SignalledLast /\ ErrorsCounted /\ [Next]_vars =>
        LastReceiveThere' /\ SignalledLast' /\ ErrorsCounted'
  BY LastReceiveStep, SignalledLastStep, ErrorsCountedStep
<1>3. Inv /\ SignalledLast /\ ErrorsCounted => DLQSignals
  <2>1. SUFFICES ASSUME Inv, SignalledLast, ErrorsCounted PROVE DLQSignals
    OBVIOUS
  <2>2. TypeOK /\ Deliveries /\ Policy \in Nat
    BY <2>1, HandlingAssumption DEF Inv
  <2>3. ASSUME NEW m \in Msgs, CannotDie, config.maxReceiveCount > 0, sqs[m] = "dlq",
               hist[m]["err"] = Policy
        PROVE  \/ hist[m]["signalled"] = 1
               \/ \E w \in Workers : wk[w].pc = "signal" /\ wk[w].job.msg = m
    <3>1. rcv[m] = Policy
      BY <2>2, <2>3 DEF Deliveries
    <3>2. Unsettled(m) \in SUBSET (1 .. Policy)
      BY DEF Unsettled
    <3>3. Cardinality(Unsettled(m)) \in Nat /\ IsFiniteSet(Unsettled(m))
      BY <3>2, UnsettledFinite
    <3>4. Policy + Cardinality(Unsettled(m)) + (IF Unsignalled(m) THEN 1 ELSE 0) <= Policy
      BY <2>1, <2>3, <3>1 DEF ErrorsCounted
    <3>5. Cardinality(Unsettled(m)) = 0 /\ ~Unsignalled(m)
      BY <2>2, <3>3, <3>4
    <3>6. Unsettled(m) = {}
      BY <3>3, <3>5, FS_EmptySet
    <3>7. hist[m]["signalled"] \in Nat /\ hist[m]["signalled"] <= 1
      BY <2>1, <2>2 DEF TypeOK, Fates, SignalledLast
    <3> QED
      BY <3>1, <3>5, <3>6, <3>7 DEF Unsignalled
  <2> QED
    BY <2>1, <2>3 DEF DLQSignals, SignalledLast
<1> QED
  BY <1>1, <1>2, <1>3, Invariance, PTL DEF Spec

-----------------------------------------------------------------------------
(* Messages held back.                                                      *)

\* A failure stays on record.
LEMMA PrecededStays ==
  ASSUME Inv, [Next]_vars, NEW m \in Msgs, Preceded(m)
  PROVE  Preceded(m)'
<1>1. PICK n \in Msgs : /\ n < m /\ config.home[n] = config.home[m]
                        /\ hist[n]["err"] + hist[n]["back"] > 0
  BY DEF Preceded
<1>2. /\ hist[n]["err"] \in Nat /\ hist'[n]["err"] \in Nat /\ hist'[n]["err"] >= hist[n]["err"]
      /\ hist[n]["back"] \in Nat /\ hist'[n]["back"] \in Nat /\ hist'[n]["back"] >= hist[n]["back"]
  BY RecordsGrow DEF Inv, Fates
<1>3. hist'[n]["err"] + hist'[n]["back"] > 0
  BY <1>1, <1>2
<1>4. config' = config
  BY ConfigStep
<1> QED
  BY <1>1, <1>3, <1>4 DEF Preceded

\* A worker is given a delivery by Take.
LEMMA TakeStep ==
  ASSUME TypeOK, Deliveries, [Next]_vars, NEW w \in Workers, wk[w].pc = "idle", wk'[w].pc # "idle"
  PROVE  Take(w)
<1>1. ASSUME NEW v \in Workers, Worker(v)
      PROVE  Take(w) \/ wk'[w] = wk[w] \/ wk'[w].pc = "idle"
  <2>1. CASE Hold(v)
    BY <2>1 DEF Hold
  <2>2. CASE Take(v)
    BY <2>2 DEF Take, TypeOK
  <2>3. CASE HandlerPanics(v)
    BY <2>3, DiesEffect DEF HandlerPanics, Dies
  <2>4. CASE Enter(v) \/ Handle(v) \/ Exit(v) \/ Settle(v) \/ Signal(v) \/ Delete(v) \/ Callback(v)
    <3>1. GoesOn(v) \/ Dies
      BY <2>4, WorkerGoesOn, DiesEffect
    <3> QED
      BY <3>1 DEF GoesOn, Dies
  <2> QED
    BY <1>1, <2>1, <2>2, <2>3, <2>4 DEF Worker
<1>2. \A r \in Routes : Register(r) \/ Poll(r) => wk' = wk
  BY DEF Register, Poll, Receive
<1>3. \A m \in Msgs : Expire(m) \/ Redrive(m) => wk' = wk
  BY DEF Expire, Redrive
<1>4. Restart \/ UNCHANGED vars => wk' = wk
  BY DEF Restart, vars
<1> QED
  BY <1>1, <1>2, <1>3, <1>4 DEF Next, Done

\* A barrier fails by the settlement of a delivery under it.
LEMMA BarrierStep ==
  ASSUME TypeOK, Deliveries, [Next]_vars, NEW b \in poisoned', b \notin poisoned
  PROVE  \E w \in Workers : /\ Settle(w) /\ b = wk[w].job.batch
                            /\ hist'[wk[w].job.msg]["err"] + hist'[wk[w].job.msg]["back"] > 0
<1>1. \A r \in Routes : Register(r) \/ Poll(r) => poisoned' = poisoned
  BY DEF Register, Poll, Receive
<1>2. \A m \in Msgs : Expire(m) \/ Redrive(m) => poisoned' = poisoned
  BY DEF Expire, Redrive
<1>3. ASSUME NEW w \in Workers, Worker(w)
      PROVE  Settle(w) \/ poisoned' = poisoned
  BY <1>3 DEF Worker, Hold, Take, Enter, Handle, Exit, HandlerPanics, Signal, Callback, Delete, Die
<1>4. Restart \/ UNCHANGED vars => poisoned' = poisoned
  BY DEF Restart, vars
<1>5. PICK w \in Workers : Settle(w)
  BY <1>1, <1>2, <1>3, <1>4 DEF Next, Done
<1>6. PICK f \in {"ok", "err", "back"} :
        /\ Note(wk[w].job.msg, f)
        /\ poisoned' = IF f # "ok" /\ config.perGroupID
                         THEN poisoned \cup {wk[w].job.batch} ELSE poisoned
  BY <1>5, SettleEffect DEF Deliveries
<1>7. f \in {"err", "back"} /\ b = wk[w].job.batch /\ wk[w].job.msg \in Msgs
  BY <1>5, <1>6, SettleEffect DEF Deliveries
<1> DEFINE m == wk[w].job.msg
<1>8. /\ hist[m]["err"] \in Nat /\ hist'[m]["err"] \in Nat
      /\ hist[m]["back"] \in Nat /\ hist'[m]["back"] \in Nat
      /\ f = "err" => hist'[m]["err"] = hist[m]["err"] + 1
      /\ f = "back" => hist'[m]["back"] = hist[m]["back"] + 1
  BY <1>6, <1>7, RecordsGrow, NoteEffect DEF Fates
<1>9. hist'[m]["err"] + hist'[m]["back"] > 0
  <2> HIDE DEF m
  <2>1. CASE f = "err"
    BY <1>8, <2>1
  <2>2. CASE f = "back"
    BY <1>8, <2>2
  <2> QED
    BY <1>7, <2>1, <2>2
<1> QED
  BY <1>5, <1>7, <1>9

\* What is held back is behind a failure: a barrier is as new as its batch, and
\* a group's worker takes the batch in order.
LEMMA BarriersStep ==
  ASSUME Inv, Inv', BarriersExplained, [Next]_vars
  PROVE  BarriersExplained'
<1>1. TypeOK /\ Deliveries /\ Held /\ Waiting /\ Sorted /\ Deliveries' /\ config' = config
  BY ConfigStep DEF Inv, Deliveries
<1>2. /\ \A r \in Routes : \A i \in 1 .. Len(todo[r]) : todo[r][i] \in Tasks
      /\ \A r \in Routes : Len(todo[r]) \in Nat
      /\ \A w \in Workers : Route(w) \in Routes
      /\ poisoned \subseteq Msgs \X (1 .. Policy) /\ Policy \in Nat
  <2>1. todo \in [Routes -> Seq(Tasks)] /\ Policy \in Nat /\ \A w \in Workers : Route(w) \in Routes
    BY <1>1, WorkerType
  <2>2. poisoned \subseteq Msgs \X (1 .. Policy)
    BY <1>1 DEF TypeOK
  <2> QED
    BY <2>1, <2>2
<1>3. \A m \in Msgs : rcv[m] \in Nat /\ rcv'[m] \in Nat /\ rcv'[m] >= rcv[m]
  <2>1. \A m \in Msgs : rcv[m] \in Nat
    BY <1>1, HandlingAssumption DEF TypeOK
  <2>2. CASE Fewer
    BY <2>1, <2>2 DEF Fewer
  <2>3. ASSUME NEW r \in Routes, NEW S \in Batches(r), Receive(r, S)
        PROVE  \A m \in Msgs : rcv[m] \in Nat /\ rcv'[m] \in Nat /\ rcv'[m] >= rcv[m]
    <3>1. rcv' = [m \in Msgs |-> IF m \in S THEN rcv[m] + 1 ELSE rcv[m]]
      BY <1>1, <2>3, ReceiveEffect
    <3> QED
      BY <2>1, <3>1
  <2> QED
    BY <1>1, <2>2, <2>3, FewerOrReceive DEF Poll
<1>4. \A b \in poisoned' : b[2] <= rcv'[b[1]]
  <2>1. ASSUME NEW b \in poisoned'
        PROVE  b \in Msgs \X (1 .. Policy) /\ b[2] <= rcv[b[1]]
    <3>1. CASE b \in poisoned
      BY <1>2, <3>1 DEF BarriersExplained
    <3>2. CASE b \notin poisoned
      <4>1. PICK w \in Workers : Settle(w) /\ b = wk[w].job.batch
        BY <1>1, <3>2, BarrierStep
      <4>2. wk[w].pc = "out"
        BY <1>1, <4>1, SettleEffect
      <4> QED
        BY <1>1, <4>1, <4>2 DEF Held
    <3> QED
      BY <3>1, <3>2
  <2>2. ASSUME NEW b \in poisoned'
        PROVE  b[2] <= rcv'[b[1]]
    <3>1. b[1] \in Msgs /\ b[2] \in Nat /\ b[2] <= rcv[b[1]]
      BY <1>2, <2>1
    <3> QED
      BY <1>3, <3>1
  <2> QED
    BY <2>2
<1>5. CASE Fewer
  <2>1. ASSUME NEW r \in Routes, NEW i \in 1 .. Len(todo'[r]), todo'[r][i].batch \in poisoned',
               NEW m \in Msgs, m = todo'[r][i].msg
        PROVE  Preceded(m)'
    <3>1. PICK j \in 1 .. Len(todo[r]) : todo'[r][i] = todo[r][j]
      BY <1>5 DEF Fewer
    <3> DEFINE d == todo[r][j]
    <3>2. m = d.msg /\ config.home[m] = r
      BY <1>1, <2>1, <3>1 DEF Waiting
    <3>3. Preceded(m)'
      <4>1. CASE d.batch \in poisoned
        <5>1. Preceded(m)
          BY <3>2, <4>1 DEF BarriersExplained
        <5> QED
          BY <5>1, PrecededStays
      <4>2. CASE d.batch \notin poisoned
        <5>1. PICK w \in Workers :
                /\ Settle(w) /\ d.batch = wk[w].job.batch
                /\ hist'[wk[w].job.msg]["err"] + hist'[wk[w].job.msg]["back"] > 0
          BY <1>1, <2>1, <3>1, <4>2, BarrierStep
        <5>2. wk[w].pc = "out" /\ wk[w].job.msg \in Msgs
          BY <1>1, <5>1, SettleEffect
        <5>3. wk[w].job.msg < m
          BY <3>2, <5>1, <5>2 DEF BarriersExplained
        <5>4. config.home[wk[w].job.msg] = config.home[m]
          <6>1. /\ config.home[wk[w].job.msg] = Route(w)
                /\ config.home[wk[w].job.batch[1]] = Route(w)
            BY <1>1, <5>2 DEF Held
          <6>2. config.home[d.batch[1]] = r
            BY <1>1 DEF Waiting
          <6> QED
            BY <3>2, <5>1, <6>1, <6>2
        <5> QED
          BY <1>1, <5>1, <5>2, <5>3, <5>4 DEF Preceded
      <4> QED
        BY <4>1, <4>2
    <3> QED
      BY <3>3
  <2>2. ASSUME NEW w \in Workers, NEW r \in Routes, NEW i \in 1 .. Len(todo'[r]),
               wk'[w].pc # "idle", wk'[w].job.batch = todo'[r][i].batch
        PROVE  wk'[w].job.msg < todo'[r][i].msg
    <3>1. CASE wk[w].pc # "idle" /\ wk'[w].job = wk[w].job
      <4>1. PICK j \in 1 .. Len(todo[r]) : todo'[r][i] = todo[r][j]
        BY <1>5 DEF Fewer
      <4> QED
        BY <2>2, <3>1, <4>1 DEF BarriersExplained
    <3>2. CASE wk[w].pc = "idle"
      <4> DEFINE s == Route(w)
      <4>1. Take(w)
        BY <1>1, <2>2, <3>2, TakeStep
      <4>2. /\ todo[s] # << >> /\ todo' = [todo EXCEPT ![s] = Tail(@)]
            /\ wk'[w].job = Head(todo[s])
        BY <1>1, <4>1, WorkerType DEF Take, Free
      <4>3. s \in Routes
        BY <1>2
      <4> HIDE DEF s
      <4>4. /\ Head(todo[s]) = todo[s][1] /\ Len(todo[s]) >= 1 /\ 1 \in 1 .. Len(todo[s])
            /\ Len(Tail(todo[s])) = Len(todo[s]) - 1
            /\ \A k \in 1 .. Len(todo[s]) - 1 : Tail(todo[s])[k] = todo[s][k + 1]
        BY <1>1, <1>2, <4>2, <4>3, QueueParts
      <4>5. CASE r = s
        <5>1. todo'[s] = Tail(todo[s])
          BY <1>1, <4>2, <4>3, WorkerType
        <5>2. i \in 1 .. Len(todo[s]) - 1 /\ i + 1 \in 1 .. Len(todo[s]) /\ 1 < i + 1
          BY <1>2, <4>3, <4>4, <4>5, <5>1
        <5>3. todo[s][1].msg < todo[s][i + 1].msg
          BY <1>1, <4>3, <4>4, <5>2 DEF Sorted
        <5> QED
          BY <4>2, <4>4, <4>5, <5>1, <5>2, <5>3
      <4>6. CASE r # s
        <5>1. todo'[r] = todo[r]
          BY <1>1, <4>2, <4>3, <4>6, WorkerType
        <5>2. config.home[todo[r][i].batch[1]] = r /\ config.home[todo[s][1].batch[1]] = s
          BY <1>1, <4>3, <4>4, <5>1 DEF Waiting
        <5> QED
          BY <2>2, <4>2, <4>4, <4>6, <5>1, <5>2
      <4> QED
        BY <4>5, <4>6
    <3> QED
      BY <1>5, <2>2, <3>1, <3>2 DEF Fewer
  <2>3. ASSUME NEW r \in Routes, NEW i \in 1 .. Len(todo'[r])
        PROVE  todo'[r][i].msg \in Msgs
    <3>1. PICK j \in 1 .. Len(todo[r]) : todo'[r][i] = todo[r][j]
      BY <1>5 DEF Fewer
    <3>2. todo[r][j] \in Tasks
      BY <1>2
    <3> QED
      BY <3>1, <3>2 DEF Tasks
  <2> QED
    BY <1>4, <2>1, <2>2, <2>3 DEF BarriersExplained, Preceded
<1>6. ASSUME NEW r \in Routes, NEW S \in Batches(r), Receive(r, S)
      PROVE  BarriersExplained'
  <2>1. /\ wk' = wk /\ poisoned' = poisoned /\ todo' = [todo EXCEPT ![r] = todo'[r]]
    BY <1>1, <1>6, ReceiveEffect
  <2>2. PICK b \in S : \A i \in 1 .. Len(todo'[r]) : todo'[r][i].batch = <<b, rcv[b] + 1>>
    BY <1>1, <1>6, ReceiveEffect
  <2>3. b \in Msgs /\ rcv[b] \in Nat
    BY <1>1, <1>3, BatchType
  <2>4. \A s \in Routes \ {r} : todo'[s] = todo[s]
    BY <1>1, <2>1, WorkerType
  <2>5. <<b, rcv[b] + 1>> \notin poisoned
    BY <2>3 DEF BarriersExplained
  <2>6. ASSUME NEW s \in Routes, NEW i \in 1 .. Len(todo'[s]), todo'[s][i].batch \in poisoned,
               NEW m \in Msgs, m = todo'[s][i].msg
        PROVE  Preceded(m)'
    <3>1. s # r
      BY <2>2, <2>5, <2>6
    <3>2. todo'[s] = todo[s]
      BY <2>4, <3>1
    <3>3. Preceded(m)
      BY <2>6, <3>2 DEF BarriersExplained
    <3> QED
      BY <3>3, PrecededStays
  <2>7. ASSUME NEW w \in Workers, NEW s \in Routes, NEW i \in 1 .. Len(todo'[s]),
               wk[w].pc # "idle", wk[w].job.batch = todo'[s][i].batch
        PROVE  wk[w].job.msg < todo'[s][i].msg
    <3>1. CASE s = r
      <4>1. wk[w].job.batch = <<b, rcv[b] + 1>>
        BY <2>2, <2>7, <3>1
      <4>2. wk[w].job.batch[2] <= rcv[wk[w].job.batch[1]]
        BY <1>1, <2>7 DEF Held
      <4> QED
        BY <2>3, <4>1, <4>2
    <3>2. CASE s # r
      BY <2>4, <2>7, <3>2 DEF BarriersExplained
    <3> QED
      BY <3>1, <3>2
  <2>8. \A s \in Routes : \A i \in 1 .. Len(todo'[s]) : todo'[s][i].msg \in Msgs
    <3>1. \A i \in 1 .. Len(todo'[r]) : todo'[r][i].msg \in S
      BY <1>1, <1>6, ReceiveEffect
    <3>2. S \subseteq Msgs
      BY <1>1, BatchType
    <3> QED
      BY <1>2, <2>4, <3>1, <3>2 DEF Tasks
  <2> QED
    BY <1>4, <2>1, <2>6, <2>7, <2>8 DEF BarriersExplained, Preceded
<1> QED
  BY <1>1, <1>5, <1>6, FewerOrReceive DEF Poll

\* What waits still waits after a worker's step, unless the worker took it or
\* held it back.
LEMMA QueueStays ==
  ASSUME Inv, CannotDie, NEW w \in Workers, Worker(w),
         NEW r \in Routes, NEW i \in 1 .. Len(todo[r])
  PROVE  \/ \E j \in 1 .. Len(todo'[r]) : todo'[r][j] = todo[r][i]
         \/ wk'[w].pc = "in" /\ wk'[w].job = todo[r][i]
         \/ HeldBack(todo[r][i])
<1>1. TypeOK /\ Held
  BY DEF Inv, Deliveries
<1>2. CASE Hold(w) \/ Take(w)
  <2> DEFINE s == Route(w)
  <2>1. s \in Routes /\ todo[s] # << >> /\ todo' = [todo EXCEPT ![s] = Tail(@)]
    BY <1>1, <1>2, WorkerType DEF Hold, Take
  <2>2. \/ HeldBack(Head(todo[s]))
        \/ wk'[w].pc = "in" /\ wk'[w].job = Head(todo[s])
    BY <1>1, <1>2, WorkerType DEF Hold, Take, Free
  <2> HIDE DEF s
  <2>3. /\ Len(todo[s]) \in Nat /\ Len(todo[s]) >= 1 /\ Head(todo[s]) = todo[s][1]
        /\ Len(Tail(todo[s])) = Len(todo[s]) - 1
        /\ \A j \in 1 .. Len(todo[s]) - 1 : Tail(todo[s])[j] = todo[s][j + 1]
    BY <1>1, <2>1, QueueParts
  <2>4. todo'[s] = Tail(todo[s]) /\ (r # s => todo'[r] = todo[r])
    BY <1>1, <2>1, WorkerType
  <2>5. CASE r # s
    BY <2>4, <2>5
  <2>6. CASE r = s /\ i = 1
    BY <2>2, <2>3, <2>6
  <2>7. CASE r = s /\ i # 1
    <3>1. i - 1 \in 1 .. Len(todo[s]) - 1 /\ (i - 1) + 1 = i
      BY <2>3, <2>7
    <3>2. todo'[s][i - 1] = todo[s][i] /\ i - 1 \in 1 .. Len(todo'[s])
      BY <2>3, <2>4, <3>1
    <3> QED
      BY <2>7, <3>2
  <2> QED
    BY <2>5, <2>6, <2>7
<1>3. CASE todo' = todo
  BY <1>3
<1> QED
  BY <1>1, <1>2, <1>3, AloneStep, HandleEffect, SettleEffect, SignalEffect DEF Proceeds

\* Only Handle takes a receive from those whose handler has not run, or Hold,
\* whose message is behind a failure.
LEMMA UnrunStays ==
  ASSUME Inv, CannotDie, BarriersExplained, NEW w \in Workers, Worker(w), NEW m \in Msgs,
         ~(config.perGroupID /\ Preceded(m)), NEW c \in Unrun(m)
  PROVE  \/ c \in Unrun(m)'
         \/ Handle(w) /\ wk[w].job.msg = m /\ wk[w].job.count = c
<1>1. TypeOK /\ Held /\ c \in 1 .. Policy
  BY DEF Inv, Deliveries, Unrun
<1>2. ASSUME NEW r \in Routes, NEW i \in 1 .. Len(todo[r]), todo[r][i].msg = m, todo[r][i].count = c
      PROVE  c \in Unrun(m)'
  <2>1. ~HeldBack(todo[r][i])
    BY <1>2 DEF HeldBack, BarriersExplained
  <2> QED
    BY <1>1, <1>2, <2>1, QueueStays DEF Unrun
<1>3. ASSUME NEW v \in Workers, wk[v].pc = "in", wk[v].job.msg = m, wk[v].job.count = c,
             ~(v = w /\ Handle(w))
      PROVE  c \in Unrun(m)'
  <2>1. wk'[v].pc = "in" /\ wk'[v].job = wk[v].job
    <3>1. CASE v # w
      BY <1>3, <3>1, AloneStep
    <3>2. CASE v = w
      BY <1>1, <1>3, <3>2, AloneStep, SettleEffect, SignalEffect DEF Hold, Take, Proceeds
    <3> QED
      BY <3>1, <3>2
  <2> QED
    BY <1>1, <1>3, <2>1 DEF Unrun
<1> QED
  BY <1>2, <1>3 DEF Unrun

\* A run takes its receive from them.
LEMMA HandleOpen ==
  ASSUME Inv, NEW w \in Workers, Handle(w), NEW m \in Msgs, wk[w].job.msg = m
  PROVE  wk[w].job.count \in Unrun(m) /\ wk[w].job.count \notin Unrun(m)'
<1>1. TypeOK /\ Held /\ HeldOnce
  BY DEF Inv, Deliveries
<1>2. /\ wk[w].pc = "in" /\ wk'[w].pc = "out" /\ todo' = todo
      /\ \A v \in Workers \ {w} : wk'[v] = wk[v]
  BY <1>1, HandleEffect
<1>3. wk[w].job.count \in 1 .. Policy
  BY <1>1, <1>2 DEF Held
<1>4. wk[w].job.count \in Unrun(m)
  BY <1>2, <1>3 DEF Unrun
<1>5. ~ \E r \in Routes : \E i \in 1 .. Len(todo'[r]) :
          todo'[r][i].msg = m /\ todo'[r][i].count = wk[w].job.count
  BY <1>1, <1>2 DEF HeldOnce
<1>6. ~ \E v \in Workers : /\ wk'[v].pc = "in" /\ wk'[v].job.msg = m
                           /\ wk'[v].job.count = wk[w].job.count
  BY <1>1, <1>2 DEF HeldOnce
<1>7. wk[w].job.count \notin Unrun(m)'
  BY <1>5, <1>6 DEF Unrun
<1> QED
  BY <1>4, <1>7

\* A receive that is over had its run, or the message is behind a failure.
LEMMA RunsCountedStep ==
  ASSUME Inv, BarriersExplained, RunsCounted, [Next]_vars
  PROVE  RunsCounted'
<1>1. TypeOK /\ Deliveries /\ Held
  BY DEF Inv, Deliveries
<1>2. UNCHANGED config /\ CannotDie' = CannotDie
  BY ConfigStep
<1>3. SUFFICES ASSUME CannotDie, NEW m \in Msgs, ~(config.perGroupID /\ Preceded(m)')
               PROVE  hist'[m]["run"] + Cardinality(Unrun(m)') = rcv'[m]
  BY <1>2 DEF RunsCounted
<1>4. ~(config.perGroupID /\ Preceded(m))
  BY <1>3, PrecededStays
<1> DEFINE n == hist[m]["run"]
           U == Unrun(m)
           Un == Unrun(m)'
<1>5. n + Cardinality(U) = rcv[m]
  BY <1>3, <1>4 DEF RunsCounted
<1>6. U \in SUBSET (1 .. Policy) /\ Un \in SUBSET (1 .. Policy) /\ rcv[m] \in Nat
  BY <1>1, HandlingAssumption DEF Unrun, TypeOK
<1>7. n \in Nat /\ hist'[m]["run"] \in Nat /\ Cardinality(U) \in Nat /\ Cardinality(Un) \in Nat
  BY <1>1, <1>6, RecordsGrow, UnsettledFinite DEF Fates
<1> HIDE DEF n, U, Un
<1>8. CASE UNCHANGED <<config, rcv, todo, wk, hist, poisoned>>
  <2>1. Un = U /\ hist'[m]["run"] = n /\ rcv'[m] = rcv[m]
    BY <1>8 DEF Un, U, n, Unrun
  <2> QED
    BY <1>5, <2>1 DEF Un
<1>9. ASSUME NEW r \in Routes, NEW S \in Batches(r), Receive(r, S)
      PROVE  hist'[m]["run"] + Cardinality(Un) = rcv'[m]
  <2>1. hist'[m]["run"] = n
    BY <1>1, <1>9, ReceiveEffect DEF n
  <2>2. CASE m \in S
    <3>1. rcv'[m] = rcv[m] + 1 /\ rcv[m] + 1 \notin U /\ Un = U \cup {rcv[m] + 1}
      BY <1>9, <2>2, ReceiveOpen DEF U, Un
    <3>2. Cardinality(Un) = Cardinality(U) + 1
      BY <1>6, <3>1, CountMore
    <3> QED
      BY <1>5, <1>6, <1>7, <2>1, <3>1, <3>2
  <2>3. CASE m \notin S
    <3>1. rcv'[m] = rcv[m] /\ Un = U
      BY <1>9, <2>3, ReceiveOpen DEF U, Un
    <3> QED
      BY <1>5, <2>1, <3>1
  <2> QED
    BY <2>2, <2>3
<1>10. ASSUME NEW w \in Workers, Worker(w)
       PROVE  hist'[m]["run"] + Cardinality(Un) = rcv'[m]
  <2>1. Fewer /\ rcv' = rcv /\ Un \subseteq U
    BY <1>1, <1>10, WorkerFewer, FewerOpen DEF Fewer, U, Un
  <2>2. CASE Handle(w) /\ wk[w].job.msg = m
    <3>1. hist'[m]["run"] = n + 1
      BY <1>1, <2>2, HandleEffect, NoteEffect DEF n, Fates
    <3>2. wk[w].job.count \in U /\ wk[w].job.count \notin Un
      BY <2>2, HandleOpen DEF U, Un
    <3>3. Un = U \ {wk[w].job.count}
      BY <1>3, <1>4, <1>10, <2>1, <3>2, UnrunStays DEF U, Un
    <3>4. Cardinality(Un) + 1 = Cardinality(U)
      BY <1>6, <3>2, <3>3, CountLess
    <3> QED
      BY <1>5, <1>6, <1>7, <2>1, <3>1, <3>4
  <2>3. CASE ~(Handle(w) /\ wk[w].job.msg = m)
    <3>1. hist'[m]["run"] = n
      <4>1. SUFFICES ASSUME hist'[m]["run"] # hist[m]["run"] PROVE FALSE
        BY DEF n
      <4>2. PICK v \in Workers : Handle(v) /\ wk[v].job.msg = m
        BY <1>1, <4>1, RecordsGrow
      <4>3. v # w /\ wk[v].pc = "in" /\ wk'[v].pc = "out"
        BY <1>1, <2>3, <4>2, HandleEffect
      <4> QED
        BY <1>3, <1>10, <4>3, AloneStep
    <3>2. Un = U
      BY <1>3, <1>4, <1>10, <2>1, <2>3, UnrunStays DEF U, Un
    <3> QED
      BY <1>5, <2>1, <3>1, <3>2
  <2> QED
    BY <2>2, <2>3
<1> QED
  BY <1>8, <1>9, <1>10, StepKinds DEF Poll, Un

\* A redriven message has had Policy runs of its handler, unless an earlier one
\* of its group failed.
THEOREM RedrivesExplained == Spec => []DLQExplained
<1>1. Init => BarriersExplained /\ RunsCounted
  <2>1. SUFFICES ASSUME Init PROVE BarriersExplained /\ RunsCounted
    OBVIOUS
  <2>2. BarriersExplained
    BY <2>1 DEF Init, BarriersExplained
  <2>3. RunsCounted
    BY <2>1, NothingOpen DEF RunsCounted, Fates
  <2> QED
    BY <2>2, <2>3
<1>2. Inv /\ Inv' /\ BarriersExplained /\ RunsCounted /\ [Next]_vars =>
        BarriersExplained' /\ RunsCounted'
  BY BarriersStep, RunsCountedStep
<1>3. Inv /\ RunsCounted => DLQExplained
  <2>1. SUFFICES ASSUME Inv, RunsCounted, NEW m \in Msgs, CannotDie, sqs[m] = "dlq",
                        InHand(m) = 0, ~(config.perGroupID /\ Preceded(m))
                 PROVE  hist[m]["run"] = Policy
    BY DEF DLQExplained, Preceded
  <2>2. TypeOK /\ Deliveries /\ Held /\ Waiting
    BY <2>1 DEF Inv, Deliveries
  <2> DEFINE waiting == {i \in 1 .. Len(todo[config.home[m]]) : todo[config.home[m]][i].msg = m}
             taken == {w \in Workers : wk[w].pc = "in" /\ wk[w].job.msg = m}
  <2>3. Cardinality(waiting) + Cardinality(taken) = 0
    BY <2>1 DEF InHand
  <2>4. IsFiniteSet(waiting) /\ IsFiniteSet(taken)
    <3>1. config.home[m] \in Routes
      BY <2>2, ConfigType DEF TypeOK
    <3>2. Len(todo[config.home[m]]) \in Nat
      BY <2>2, <3>1, WorkerType
    <3>3. IsFiniteSet(1 .. Len(todo[config.home[m]])) /\ IsFiniteSet(Workers)
      <4>1. \A k \in Nat : IsFiniteSet(1 .. k)
        BY FS_Interval
      <4> QED
        BY <3>2, <4>1, HandlingAssumption
    <3> QED
      BY <3>3, FS_Subset
  <2>5. Cardinality(waiting) = 0 /\ Cardinality(taken) = 0
    <3>1. Cardinality(waiting) \in Nat /\ Cardinality(taken) \in Nat
      BY <2>4, FS_CardinalityType
    <3> QED
      BY <2>3, <3>1
  <2>6. waiting = {} /\ taken = {}
    BY <2>4, <2>5, FS_EmptySet
  <2>7. Unrun(m) = {}
    BY <2>2, <2>6 DEF Unrun, Waiting
  <2>8. hist[m]["run"] \in Nat /\ rcv[m] = Policy
    BY <2>1, <2>2 DEF TypeOK, Fates, Deliveries
  <2>9. hist[m]["run"] + 0 = Policy
    BY <2>1, <2>7, <2>8, FS_EmptySet DEF RunsCounted
  <2> QED
    BY <2>8, <2>9
<1> QED
  BY <1>1, <1>2, <1>3, Invariance, PTL DEF Spec

-----------------------------------------------------------------------------
(* What the observers show.                                                 *)

\* No observer is in the chain twice.
EachOnce ==
  \A i, j \in 1 .. Len(Layers) : Layers[i] = Layers[j] /\ Layers[i] # "recovery" => i = j

\* The middleware behind a field, whether it shows it on the way in, and which
\* results it shows on the way out.
KindOf(f) ==
  CASE f \in {"received", "inc", "dec", "observed", "success", "error", "errors"} -> "metrics"
    [] f \in {"started", "ok", "failed", "unset"} -> "otel"
    [] OTHER -> "logging"

Entry == {"received", "inc", "started", "logged"}

ShownFor(f) ==
  CASE f = "dec" -> Outcomes
    [] f = "observed" -> {"nil", "error"}
    [] f \in {"success", "ok", "processed"} -> {"nil"}
    [] f \in {"error", "errors", "failed", "logFailed"} -> {"error"}
    [] OTHER -> {"panic"}

\* What a result is when it gets to a middleware of this kind.
Final(kind, res) == IF res = "panic" /\ Shielded(kind) THEN "error" ELSE res

\* The workers of r that the middleware behind f has shown on their way in, and
\* those it has yet to show in f on their way out.
Entered(r, f) ==
  {w \in Workers : /\ Route(w) = r /\ wk[w].pc = "in"
                   /\ \E p \in 1 .. Len(Layers) : Layers[p] = KindOf(f) /\ p < wk[w].at}

Leaving(r, f) ==
  {w \in Workers : /\ Route(w) = r /\ wk[w].pc = "out"
                   /\ \E p \in 1 .. Len(Layers) : Layers[p] = KindOf(f) /\ p <= wk[w].at
                   /\ Final(KindOf(f), wk[w].res) \in ShownFor(f)}

\* Runs of r's handler, and those that end in a result that f shows.
Runs(r) == did[r]["nil"] + did[r]["error"] + did[r]["panic"]

Ended(r, f) ==
  LET of(o) == IF Final(KindOf(f), o) \in ShownFor(f) THEN did[r][o] ELSE 0
  IN  of("nil") + of("error") + of("panic")

Counts(f) == Has(KindOf(f)) /\ CollectorOf(f) \notin config.foreign

\* Each run is shown once by each observer, but for those on their way.
ShownAt(r, f) ==
  /\ ~Counts(f) => seen[r][f] = 0
  /\ Counts(f) /\ f \in Entry => seen[r][f] = Runs(r) + Cardinality(Entered(r, f))
  /\ Counts(f) /\ f \notin Entry => seen[r][f] + Cardinality(Leaving(r, f)) = Ended(r, f)

Shown == EachOnce => \A r \in Routes, f \in Fields : ShownAt(r, f)

\* A route's collectors are private where the application has the name, and are
\* all there before anything is delivered.
Collected ==
  /\ \A c \in Range(Collectors) : registry[c] = "foreign" <=> c \in config.foreign
  /\ \A r \in Routes :
       /\ Len(collector[r]) <= Len(Collectors)
       /\ \A i \in 1 .. Len(collector[r]) :
            collector[r][i] = IF Collectors[i] \in config.foreign THEN "private" ELSE "shared"
       /\ todo[r] # << >> => Built(r)
  /\ \A w \in Workers : wk[w].pc # "idle" => Built(Route(w))

\* The middleware a field is behind shows it on the way in or on the way out,
\* and no other middleware does.
LEMMA FieldsOfLayer ==
  ASSUME NEW l \in Kinds, NEW f \in Fields
  PROVE  /\ f \in OnEnter(l) <=> KindOf(f) = l /\ f \in Entry
         /\ \A res \in Outcomes :
              f \in OnExit(l, res) <=> KindOf(f) = l /\ f \notin Entry /\ res \in ShownFor(f)
<1>1. l \in {"recovery", "metrics", "logging", "otel"}
  BY DEF Kinds
<1>2. f \in OnEnter(l) <=> KindOf(f) = l /\ f \in Entry
  BY <1>1 DEF OnEnter, KindOf, Entry, Fields
<1>3. ASSUME NEW res \in Outcomes
      PROVE  f \in OnExit(l, res) <=> KindOf(f) = l /\ f \notin Entry /\ res \in ShownFor(f)
  <2>1. res \in {"nil", "error", "panic"}
    BY DEF Outcomes
  <2>2. CASE l = "recovery"
    BY <2>2 DEF OnExit, KindOf, Fields
  <2>3. CASE l = "metrics"
    <3>1. OnExit(l, res) = MetricsExit(res)
      BY <2>3 DEF OnExit
    <3>2. f \in MetricsExit(res) <=> KindOf(f) = "metrics" /\ f \notin Entry /\ res \in ShownFor(f)
      <4>1. CASE res = "nil"
        BY <4>1 DEF MetricsExit, KindOf, Entry, ShownFor, Fields, Outcomes
      <4>2. CASE res = "error"
        BY <4>2 DEF MetricsExit, KindOf, Entry, ShownFor, Fields, Outcomes
      <4>3. CASE res = "panic"
        BY <4>3 DEF MetricsExit, KindOf, Entry, ShownFor, Fields, Outcomes
      <4> QED
        BY <2>1, <4>1, <4>2, <4>3
    <3> QED
      BY <2>3, <3>1, <3>2
  <2>4. CASE l = "otel"
    <3>1. OnExit(l, res) = OTelExit(res)
      BY <2>4 DEF OnExit
    <3>2. f \in OTelExit(res) <=> KindOf(f) = "otel" /\ f \notin Entry /\ res \in ShownFor(f)
      BY <2>1 DEF OTelExit, KindOf, Entry, ShownFor, Fields, Outcomes
    <3> QED
      BY <2>4, <3>1, <3>2
  <2>5. CASE l = "logging"
    <3>1. OnExit(l, res) = LoggingExit(res)
      BY <2>5 DEF OnExit
    <3>2. f \in LoggingExit(res) <=> KindOf(f) = "logging" /\ f \notin Entry /\ res \in ShownFor(f)
      BY <2>1 DEF LoggingExit, KindOf, Entry, ShownFor, Fields, Outcomes
    <3> QED
      BY <2>5, <3>1, <3>2
  <2> QED
    BY <1>1, <2>2, <2>3, <2>4, <2>5
<1> QED
  BY <1>2, <1>3

\* What Show adds.
LEMMA ShowEffect ==
  ASSUME TypeOK, NEW s \in Routes, NEW F, Show(s, F), NEW r \in Routes, NEW f \in Fields
  PROVE  seen'[r][f] = IF r = s /\ f \in F /\ Exported(s, f) THEN seen[r][f] + 1 ELSE seen[r][f]
  BY DEF TypeOK, Show

\* The names of the collectors.
LEMMA CollectorNames ==
  /\ Range(Collectors) = {"received", "processed", "errors", "duration", "inflight", "dlq"}
  /\ Len(Collectors) = 6
  /\ \A c \in Range(Collectors) : \E i \in 1 .. 6 : Collectors[i] = c
  /\ \A i \in 1 .. 6 : Collectors[i] \in Range(Collectors)
  BY DEF Collectors, Range

\* A consumer that is built exports a field unless its collector's name is the
\* application's.
LEMMA ExportedWhenBuilt ==
  ASSUME TypeOK, Collected, NEW r \in Routes, Built(r), NEW f \in Fields, Has(KindOf(f))
  PROVE  Exported(r, f) <=> CollectorOf(f) \notin config.foreign
<1>1. config.foreign \subseteq Range(Collectors)
  BY ConfigType DEF TypeOK
<1>2. \A i \in 1 .. Len(collector[r]) :
        collector[r][i] = IF Collectors[i] \in config.foreign THEN "private" ELSE "shared"
  BY DEF Collected
<1>3. CASE KindOf(f) = "metrics"
  <2>1. Len(collector[r]) = 6
    BY <1>3, CollectorNames DEF Built
  <2>2. CollectorOf(f) \in Range(Collectors)
    BY <1>3, CollectorNames DEF KindOf, CollectorOf, Fields
  <2>3. PICK i \in 1 .. 6 : Collectors[i] = CollectorOf(f)
    BY <2>2, CollectorNames
  <2>4. CASE CollectorOf(f) \in config.foreign
    BY <1>2, <2>1, <2>3, <2>4 DEF Exported
  <2>5. CASE CollectorOf(f) \notin config.foreign
    BY <1>2, <2>1, <2>5 DEF Exported
  <2> QED
    BY <2>4, <2>5
<1>4. CASE KindOf(f) # "metrics"
  <2>1. CollectorOf(f) = "none"
    BY <1>4 DEF KindOf, CollectorOf, Fields
  <2>2. "none" \notin Range(Collectors)
    BY CollectorNames
  <2>3. \A i \in 1 .. Len(collector[r]) : Collectors[i] # "none"
    <3>1. Len(collector[r]) <= 6 /\ Len(collector[r]) \in Nat
      BY CollectorNames DEF Collected, TypeOK
    <3> QED
      BY <2>2, <3>1, CollectorNames
  <2> QED
    BY <1>1, <2>1, <2>2, <2>3 DEF Exported
<1> QED
  BY <1>3, <1>4

\* The chains' collectors stay as they are, and with them what is delivered to
\* consumers that are built.
LEMMA CollectedStays ==
  ASSUME Inv, TypeOK', Collected, Fewer, UNCHANGED buildVars
  PROVE  Collected'
<1>1. TypeOK /\ UNCHANGED <<config, registry, collector>> /\ \A r \in Routes : Built(r)' = Built(r)
  BY DEF Fewer, Inv, buildVars, Built, Has, Layers
<1>2. \A r \in Routes : Len(todo[r]) \in Nat /\ todo[r] \in Seq(Tasks)
  BY <1>1, WorkerType
<1>3. ASSUME NEW r \in Routes, todo'[r] # << >>
      PROVE  todo[r] # << >>
  <2>1. 1 \in 1 .. Len(todo'[r])
    BY <1>3 DEF TypeOK
  <2>2. PICK j \in 1 .. Len(todo[r]) : todo'[r][1] = todo[r][j]
    BY <2>1 DEF Fewer
  <2> QED
    BY <1>2, <2>2
<1>4. ASSUME NEW w \in Workers, wk'[w].pc # "idle"
      PROVE  Built(Route(w))
  <2>1. CASE wk[w].pc # "idle"
    BY <2>1 DEF Collected
  <2>2. CASE wk[w].pc = "idle"
    <3>1. PICK j \in 1 .. Len(todo[Route(w)]) : TRUE
      BY <1>4, <2>2 DEF Fewer
    <3>2. Route(w) \in Routes
      BY <1>1, WorkerType
    <3>3. todo[Route(w)] # << >>
      BY <1>2, <3>1, <3>2
    <3> QED
      BY <3>2, <3>3 DEF Collected
  <2> QED
    BY <2>1, <2>2
<1>5. /\ \A c \in Range(Collectors) : registry'[c] = "foreign" <=> c \in config'.foreign
      /\ \A r \in Routes :
           /\ Len(collector'[r]) <= Len(Collectors)
           /\ \A i \in 1 .. Len(collector'[r]) :
                collector'[r][i] = IF Collectors[i] \in config'.foreign THEN "private" ELSE "shared"
  BY <1>1 DEF Collected
<1>6. \A r \in Routes : todo'[r] # << >> => Built(r)'
  BY <1>1, <1>3 DEF Collected
<1>7. \A w \in Workers : wk'[w].pc # "idle" => Built(Route(w))'
  BY <1>1, <1>4 DEF Built, Route, Has, Layers
<1> QED
  BY <1>5, <1>6, <1>7 DEF Collected

\* The next collector is registered.
LEMMA RegisterCollects ==
  ASSUME Inv, Collected, NEW r \in Routes, Register(r)
  PROVE  Collected'
<1> DEFINE k == Len(collector[r]) + 1
           name == Collectors[k]
<1>1. /\ Has("metrics") /\ Len(collector[r]) < 6 /\ UNCHANGED <<config, todo, wk>>
      /\ collector' = [collector EXCEPT ![r] = Append(@, CollectorFor(name))]
      /\ registry' = [registry EXCEPT ![name] = IF @ = "free" THEN "ours" ELSE @]
  BY CollectorNames DEF Register
<1>2. /\ collector \in [Routes -> Seq({"shared", "private"})]
      /\ registry \in [Range(Collectors) -> {"free", "ours", "foreign"}]
      /\ \A w \in Workers : Route(w) \in Routes
  BY WorkerType DEF Inv, TypeOK
<1>3. Len(collector[r]) \in Nat /\ k \in 1 .. 6 /\ name \in Range(Collectors)
  <2>1. Len(collector[r]) \in Nat
    BY <1>2
  <2>2. k \in 1 .. 6
    BY <1>1, <2>1
  <2> QED
    BY <2>1, <2>2, CollectorNames
<1> HIDE DEF name
<1>4. \A c \in Range(Collectors) : registry'[c] = "foreign" <=> c \in config'.foreign
  BY <1>1, <1>2, <1>3 DEF Collected
<1>5. CollectorFor(name) = IF name \in config.foreign THEN "private" ELSE "shared"
  BY <1>3 DEF CollectorFor, Collected
<1>6. /\ collector'[r] = Append(collector[r], CollectorFor(name))
      /\ Len(collector'[r]) = k
      /\ \A i \in 1 .. k : collector'[r][i] = IF i = k THEN CollectorFor(name) ELSE collector[r][i]
      /\ \A s \in Routes \ {r} : collector'[s] = collector[s]
  <2>1. CollectorFor(name) \in {"shared", "private"}
    BY DEF CollectorFor
  <2> HIDE DEF k
  <2>2. /\ collector'[r] = Append(collector[r], CollectorFor(name))
        /\ \A s \in Routes \ {r} : collector'[s] = collector[s]
    BY <1>1, <1>2
  <2>3. collector[r] \in Seq({"shared", "private"})
    BY <1>2
  <2> QED
    BY <2>1, <2>2, <2>3, AppendProperties DEF k
<1>7. ASSUME NEW s \in Routes
      PROVE  /\ Len(collector'[s]) <= Len(Collectors)
             /\ \A i \in 1 .. Len(collector'[s]) :
                  collector'[s][i] = IF Collectors[i] \in config'.foreign THEN "private" ELSE "shared"
  <2>1. CASE s # r
    BY <1>1, <1>6, <2>1 DEF Collected
  <2>2. CASE s = r
    <3>1. Len(collector'[r]) <= Len(Collectors)
      BY <1>3, <1>6, CollectorNames
    <3>2. ASSUME NEW i \in 1 .. k
          PROVE  collector'[r][i] = IF Collectors[i] \in config.foreign THEN "private" ELSE "shared"
      <4>1. CASE i = k
        BY <1>5, <1>6, <4>1 DEF name
      <4>2. CASE i # k
        <5>1. i \in 1 .. Len(collector[r])
          BY <1>3, <4>2
        <5> QED
          BY <1>6, <4>2, <5>1 DEF Collected
      <4> QED
        BY <4>1, <4>2
    <3> HIDE DEF k
    <3> QED
      BY <1>1, <1>6, <2>2, <3>1, <3>2
  <2> QED
    BY <2>1, <2>2
<1>8. ~Built(r) /\ \A s \in Routes \ {r} : Built(s)' = Built(s)
  BY <1>1, <1>2, <1>6, CollectorNames DEF Built, Has, Layers
<1>9. \A s \in Routes : todo'[s] # << >> => Built(s)'
  BY <1>1, <1>8 DEF Collected
<1>10. \A w \in Workers : wk'[w].pc # "idle" => Built(Route(w))'
  <2>1. ASSUME NEW w \in Workers, wk'[w].pc # "idle"
        PROVE  Built(Route(w))'
    <3>1. Built(Route(w))
      BY <1>1, <2>1 DEF Collected
    <3>2. Route(w) \in Routes \ {r} /\ Route(w)' = Route(w)
      BY <1>1, <1>2, <1>8, <3>1 DEF Route
    <3>3. PICK s \in Routes \ {r} : s = Route(w)
      BY <3>2
    <3>4. Built(s)'
      BY <1>8, <3>1, <3>3
    <3> QED
      BY <3>2, <3>3, <3>4 DEF Built, Has, Layers
  <2> QED
    BY <2>1
<1> QED
  BY <1>4, <1>7, <1>9, <1>10 DEF Collected

\* A consumer is built before it polls, and a process that ends is built anew.
LEMMA CollectedStep ==
  ASSUME Inv, Collected, [Next]_vars
  PROVE  Collected'
<1>1. TypeOK /\ Deliveries /\ TypeOK'
  BY TypeInductive DEF Inv
<1>2. CASE \E r \in Routes : Register(r)
  BY <1>2, RegisterCollects
<1>3. CASE \E r \in Routes : Poll(r)
  <2>1. PICK r \in Routes : Poll(r)
    BY <1>3
  <2>2. PICK S \in Batches(r) : Receive(r, S)
    BY <2>1 DEF Poll
  <2>3. /\ todo' = [todo EXCEPT ![r] = todo'[r]] /\ Built(r)
        /\ UNCHANGED <<config, wk, registry, collector>>
    BY <1>1, <2>2, ReceiveEffect DEF buildVars
  <2>4. \A s \in Routes : Built(s)' = Built(s)
    BY <2>3 DEF Built, Has, Layers
  <2>5. \A s \in Routes : todo'[s] # << >> => Built(s)'
    <3>1. \A s \in Routes \ {r} : todo'[s] = todo[s]
      BY <1>1, <2>3 DEF TypeOK
    <3> QED
      BY <2>3, <2>4, <3>1 DEF Collected
  <2>6. \A w \in Workers : wk'[w].pc # "idle" => Built(Route(w))'
    <3>1. \A w \in Workers : wk'[w].pc # "idle" => Built(Route(w))
      BY <2>3 DEF Collected
    <3> QED
      BY <2>3, <3>1 DEF Built, Route, Has, Layers
  <2>7. /\ \A c \in Range(Collectors) : registry'[c] = "foreign" <=> c \in config'.foreign
        /\ \A s \in Routes :
             /\ Len(collector'[s]) <= Len(Collectors)
             /\ \A i \in 1 .. Len(collector'[s]) :
                  collector'[s][i] = IF Collectors[i] \in config'.foreign THEN "private" ELSE "shared"
    BY <2>3 DEF Collected
  <2> QED
    BY <2>5, <2>6, <2>7 DEF Collected
<1>4. CASE \E why : Die(why)
  <2>1. /\ registry' = Registered /\ collector' = [r \in Routes |-> << >>] /\ UNCHANGED config
        /\ \A w \in Workers : wk'[w].pc = "idle"
        /\ \A r \in Routes : todo'[r] = << >>
    BY <1>4 DEF Die, Free
  <2>2. \A c \in Range(Collectors) : registry'[c] = "foreign" <=> c \in config'.foreign
    BY <2>1 DEF Registered
  <2>3. \A r \in Routes : collector'[r] = << >> /\ Len(collector'[r]) = 0
    BY <2>1
  <2>4. \A r \in Routes : Len(collector'[r]) <= Len(Collectors)
    BY <2>3, CollectorNames
  <2>5. \A r \in Routes : \A i \in 1 .. Len(collector'[r]) : FALSE
    BY <2>3
  <2> QED
    BY <2>1, <2>2, <2>4, <2>5 DEF Collected
<1>5. CASE UNCHANGED buildVars /\ Fewer
  BY <1>1, <1>5, CollectedStays
<1>6. ASSUME NEW w \in Workers, Worker(w)
      PROVE  UNCHANGED buildVars \/ \E why : Die(why)
  BY <1>6 DEF Worker, Hold, Take, Enter, Handle, Exit, HandlerPanics, Settle, Signal, Callback, Delete
<1>7. \A m \in Msgs : Expire(m) \/ Redrive(m) => UNCHANGED buildVars
  BY DEF Expire, Redrive
<1>8. Restart \/ UNCHANGED vars => UNCHANGED buildVars
  BY DEF Restart, vars
<1> QED
  BY <1>1, <1>2, <1>3, <1>4, <1>5, <1>6, <1>7, <1>8, FewerOrReceive DEF Next, Done

-----------------------------------------------------------------------------
(* The runs on their way.                                                   *)

\* Sets that agree but for one worker.
LEMMA CountWorkers ==
  ASSUME NEW A \in SUBSET Workers, NEW B \in SUBSET Workers, NEW w \in Workers,
         \A v \in Workers \ {w} : v \in A <=> v \in B
  PROVE  /\ Cardinality(A) \in Nat /\ Cardinality(B) \in Nat
         /\ (w \in A <=> w \in B) => Cardinality(B) = Cardinality(A)
         /\ w \in A /\ w \notin B => Cardinality(A) = Cardinality(B) + 1
         /\ w \notin A /\ w \in B => Cardinality(B) = Cardinality(A) + 1
<1>1. IsFiniteSet(A) /\ IsFiniteSet(B) /\ Cardinality(A) \in Nat /\ Cardinality(B) \in Nat
  BY HandlingAssumption, FS_Subset, FS_CardinalityType
<1>2. (w \in A <=> w \in B) => A = B
  OBVIOUS
<1>3. ASSUME w \in A, w \notin B
      PROVE  Cardinality(A) = Cardinality(B) + 1
  <2>1. A = B \cup {w}
    BY <1>3
  <2> QED
    BY <1>1, <1>3, <2>1, FS_AddElement
<1>4. ASSUME w \notin A, w \in B
      PROVE  Cardinality(B) = Cardinality(A) + 1
  <2>1. B = A \cup {w}
    BY <1>4
  <2> QED
    BY <1>1, <1>4, <2>1, FS_AddElement
<1> QED
  BY <1>1, <1>2, <1>3, <1>4

\* An observer that is in the chain once has a position in it.
LEMMA Position ==
  ASSUME TypeOK, EachOnce, NEW f \in Fields, Has(KindOf(f))
  PROVE  \E p \in 1 .. Len(Layers) :
           /\ Layers[p] = KindOf(f)
           /\ \A q \in 1 .. Len(Layers) : Layers[q] = KindOf(f) => q = p
<1>1. PICK p \in 1 .. Len(Layers) : Layers[p] = KindOf(f)
  BY HasLayer
<1>2. KindOf(f) # "recovery"
  BY DEF KindOf
<1> QED
  BY <1>1, <1>2 DEF EachOnce

\* A worker on its way in is at a layer or past the last, and one on its way out
\* at a layer or before the first.
Within ==
  \A w \in Workers : /\ wk[w].pc = "in" => wk[w].at >= 1
                     /\ wk[w].pc = "out" => wk[w].at <= Len(Layers)

\* Take begins at the first layer, Enter goes on from there, and Handle and Exit
\* go back.
LEMMA WithinStep ==
  ASSUME Inv, Within, [Next]_vars
  PROVE  Within'
<1>1. /\ TypeOK /\ Deliveries /\ wk \in [Workers -> WorkerStates] /\ Len(Layers) \in Nat
      /\ Layers' = Layers
  BY WorkerType, ConfigType, ConfigStep DEF Inv, TypeOK, Layers
<1> DEFINE At(w) == /\ wk'[w].pc = "in" => wk'[w].at >= 1
                    /\ wk'[w].pc = "out" => wk'[w].at <= Len(Layers)
<1>2. ASSUME NEW w \in Workers, wk'[w] = wk[w] \/ wk'[w].pc \notin {"in", "out"}
      PROVE  At(w)
  BY <1>2 DEF Within
<1>3. ASSUME NEW w \in Workers, Worker(w)
      PROVE  At(w)
  <2>1. CASE Take(w)
    <3>1. wk'[w] = [Free EXCEPT !.pc = "in", !.at = 1, !.job = Head(todo[Route(w)])]
      BY <1>1, <2>1 DEF Take
    <3> QED
      BY <3>1 DEF Free
  <2>2. CASE Enter(w)
    <3>1. wk'[w].pc = "in" /\ wk'[w].at = wk[w].at + 1 /\ wk[w].at \in Nat
      BY <1>1, <2>2 DEF Enter, WorkerStates
    <3> QED
      BY <3>1
  <2>3. CASE Handle(w)
    <3>1. PICK o : wk' = [wk EXCEPT ![w].pc = "out", ![w].at = @ - 1, ![w].res = o.res,
                                    ![w].backed = o.backed]
      BY <2>3 DEF Handle
    <3>2. wk'[w].at = wk[w].at - 1 /\ wk'[w].pc = "out"
      BY <1>1, <3>1 DEF WorkerStates
    <3>3. wk[w].at = Len(Layers) + 1
      BY <2>3 DEF Handle
    <3> QED
      BY <1>1, <3>2, <3>3
  <2>4. CASE Exit(w)
    <3>1. wk'[w].pc = "out" /\ wk'[w].at = wk[w].at - 1 /\ wk[w].at \in Nat
          /\ wk[w].at <= Len(Layers)
      BY <1>1, <2>4 DEF Exit, WorkerStates, Within
    <3> QED
      BY <1>1, <3>1
  <2>5. CASE Settle(w)
    <3>1. wk'[w].pc \notin {"in", "out"}
      BY <1>1, <2>5, SettleEffect DEF Deliveries
    <3> QED
      BY <1>2, <3>1
  <2>6. CASE Signal(w)
    <3>1. wk'[w].pc \notin {"in", "out"}
      BY <1>1, <2>6, SignalEffect DEF Deliveries
    <3> QED
      BY <1>2, <3>1
  <2>7. CASE HandlerPanics(w) \/ Callback(w) \/ Delete(w) \/ Hold(w)
    <3>1. wk'[w].pc = "idle"
      BY <1>1, <2>7 DEF HandlerPanics, Callback, Delete, Hold, Die, Free
    <3> QED
      BY <1>2, <3>1
  <2> QED
    BY <1>3, <2>1, <2>2, <2>3, <2>4, <2>5, <2>6, <2>7 DEF Worker
<1>4. ASSUME NEW v \in Workers, Worker(v), NEW w \in Workers, w # v
      PROVE  At(w)
  <2>1. wk'[w] = wk[w] \/ wk'[w].pc = "idle"
    <3>1. CASE Hold(v) \/ Take(v)
      BY <1>1, <1>4, <3>1 DEF Hold, Take
    <3>2. CASE HandlerPanics(v)
      BY <3>2, DiesEffect DEF HandlerPanics, Dies
    <3>3. CASE Enter(v) \/ Handle(v) \/ Exit(v) \/ Settle(v) \/ Signal(v) \/ Delete(v) \/ Callback(v)
      <4>1. GoesOn(v) \/ Dies
        BY <1>1, <3>3, WorkerGoesOn, DiesEffect
      <4> QED
        BY <1>4, <4>1 DEF GoesOn, Dies
    <3> QED
      BY <1>4, <3>1, <3>2, <3>3 DEF Worker
  <2> QED
    BY <1>2, <2>1
<1>5. wk' = wk => \A w \in Workers : At(w)
  BY <1>2
<1>6. \A r \in Routes : Register(r) \/ Poll(r) => wk' = wk
  BY DEF Register, Poll, Receive
<1>7. \A m \in Msgs : Expire(m) \/ Redrive(m) => wk' = wk
  BY DEF Expire, Redrive
<1>8. Restart \/ UNCHANGED vars => wk' = wk
  BY DEF Restart, vars
<1>9. \A w \in Workers : At(w)
  BY <1>3, <1>4, <1>5, <1>6, <1>7, <1>8 DEF Next, Done
<1> QED
  BY <1>1, <1>9 DEF Within

\* Runs are counted.
LEMMA RunsType ==
  ASSUME TypeOK, NEW r \in Routes, NEW f \in Fields
  PROVE  /\ \A o \in Outcomes : did[r][o] \in Nat
         /\ "nil" \in Outcomes /\ "error" \in Outcomes /\ "panic" \in Outcomes
         /\ Runs(r) \in Nat /\ Ended(r, f) \in Nat
<1>1. /\ \A o \in Outcomes : did[r][o] \in Nat
      /\ "nil" \in Outcomes /\ "error" \in Outcomes /\ "panic" \in Outcomes
  BY DEF TypeOK, Outcomes
<1> QED
  BY <1>1 DEF Runs, Ended

\* A middleware on the way in.
LEMMA EnterShows ==
  ASSUME Inv, EachOnce, Collected, Within, NEW w \in Workers, Enter(w),
         NEW r \in Routes, NEW f \in Fields, ShownAt(r, f)
  PROVE  ShownAt(r, f)'
<1> DEFINE a == wk[w].at
           l == Layers[a]
           shown == r = Route(w) /\ Counts(f) /\ KindOf(f) = l /\ f \in Entry
<1>1. TypeOK /\ wk \in [Workers -> WorkerStates] /\ Route(w) \in Routes
  BY WorkerType DEF Inv
<1>2. /\ wk[w].pc = "in" /\ a \in 1 .. Len(Layers) /\ a \in Nat
      /\ wk' = [wk EXCEPT ![w].at = @ + 1]
      /\ UNCHANGED <<config, did>> /\ Show(Route(w), OnEnter(l))
  <2>1. Len(Layers) \in Nat /\ a \in Nat
    BY <1>1, ConfigType DEF TypeOK, WorkerStates
  <2> QED
    BY <2>1 DEF Enter, Within
<1>3. /\ Layers' = Layers /\ Counts(f)' = Counts(f) /\ Runs(r)' = Runs(r) /\ Ended(r, f)' = Ended(r, f)
      /\ \A v \in Workers : Route(v)' = Route(v)
  BY <1>2 DEF Layers, Counts, Has, Runs, Ended, Final, Shielded, Route
<1>4. /\ wk'[w].pc = "in" /\ wk'[w].at = a + 1 /\ \A v \in Workers \ {w} : wk'[v] = wk[v]
  BY <1>1, <1>2 DEF WorkerStates
<1>5. l \in Kinds /\ Has(l)
  <2>1. Layers \in Seq(Kinds)
    BY <1>1, ConfigType DEF TypeOK
  <2>2. l \in Kinds
    BY <1>2, <2>1
  <2> QED
    BY <1>1, <1>2, <2>2, HasLayer
<1>6. seen'[r][f] = IF shown THEN seen[r][f] + 1 ELSE seen[r][f]
  <2>1. Built(Route(w))
    BY <1>2 DEF Collected
  <2>2. seen'[r][f] = IF r = Route(w) /\ f \in OnEnter(l) /\ Exported(Route(w), f)
                        THEN seen[r][f] + 1 ELSE seen[r][f]
    BY <1>1, <1>2, ShowEffect
  <2>3. f \in OnEnter(l) <=> KindOf(f) = l /\ f \in Entry
    BY <1>5, FieldsOfLayer
  <2>4. KindOf(f) = l => (Exported(Route(w), f) <=> CollectorOf(f) \notin config.foreign)
    BY <1>1, <1>5, <2>1, ExportedWhenBuilt
  <2> QED
    BY <1>5, <2>2, <2>3, <2>4 DEF Counts
<1>7. seen[r][f] \in Nat
  BY <1>1 DEF TypeOK
<1>8. CASE ~Counts(f)
  BY <1>3, <1>6, <1>8 DEF ShownAt
<1>9. CASE Counts(f)
  <2>1. PICK p \in 1 .. Len(Layers) :
          /\ Layers[p] = KindOf(f)
          /\ \A q \in 1 .. Len(Layers) : Layers[q] = KindOf(f) => q = p
    BY <1>1, <1>9, Position DEF Counts
  <2>2. KindOf(f) = l <=> p = a
    BY <1>2, <2>1
  <2>3. \A v \in Workers \ {w} : /\ v \in Entered(r, f) <=> v \in Entered(r, f)'
                                 /\ v \in Leaving(r, f) <=> v \in Leaving(r, f)'
    BY <1>2, <1>3, <1>4 DEF Entered, Leaving, Final, Shielded
  <2>4. w \in Entered(r, f) <=> r = Route(w) /\ p < a
    BY <1>2, <2>1 DEF Entered
  <2>5. w \in Entered(r, f)' <=> r = Route(w) /\ p < a + 1
    BY <1>3, <1>4, <2>1 DEF Entered
  <2>6. w \notin Leaving(r, f) /\ w \notin Leaving(r, f)'
    BY <1>2, <1>4 DEF Leaving
  <2>7. /\ Entered(r, f) \subseteq Workers /\ Entered(r, f)' \subseteq Workers
        /\ Leaving(r, f) \subseteq Workers /\ Leaving(r, f)' \subseteq Workers
    BY DEF Entered, Leaving
  <2>8. Cardinality(Leaving(r, f)') = Cardinality(Leaving(r, f))
    BY <2>3, <2>6, <2>7, CountWorkers
  <2>9. /\ Cardinality(Entered(r, f)) \in Nat
        /\ Cardinality(Entered(r, f)') = Cardinality(Entered(r, f)) + IF r = Route(w) /\ p = a THEN 1 ELSE 0
    <3>1. CASE r = Route(w) /\ p = a
      BY <1>2, <2>3, <2>4, <2>5, <2>7, <3>1, CountWorkers
    <3>2. CASE ~(r = Route(w) /\ p = a)
      <4>1. w \in Entered(r, f) <=> w \in Entered(r, f)'
        BY <1>2, <2>1, <2>4, <2>5, <3>2
      <4> QED
        BY <2>3, <2>7, <3>2, <4>1, CountWorkers
    <3> QED
      BY <3>1, <3>2
  <2>10. CASE f \in Entry
    <3>1. seen[r][f] = Runs(r) + Cardinality(Entered(r, f)) /\ Runs(r) \in Nat
      BY <1>1, <1>9, <2>10, RunsType DEF ShownAt
    <3>2. seen'[r][f] = Runs(r) + Cardinality(Entered(r, f)')
      BY <1>6, <1>9, <2>2, <2>9, <2>10, <3>1
    <3> QED
      BY <1>3, <1>9, <2>10, <3>2 DEF ShownAt
  <2>11. CASE f \notin Entry
    BY <1>3, <1>6, <1>9, <2>8, <2>11 DEF ShownAt
  <2> QED
    BY <2>10, <2>11
<1> QED
  BY <1>8, <1>9

\* The handler has run: a run more, on its way out past every layer.
LEMMA HandleShows ==
  ASSUME Inv, EachOnce, Within, NEW w \in Workers, Handle(w),
         NEW r \in Routes, NEW f \in Fields, ShownAt(r, f)
  PROVE  ShownAt(r, f)'
<1>1. TypeOK /\ wk \in [Workers -> WorkerStates] /\ Route(w) \in Routes /\ Len(Layers) \in Nat
  BY WorkerType, ConfigType DEF Inv, TypeOK
<1>2. PICK o \in Results(wk[w].job.msg) :
        /\ wk' = [wk EXCEPT ![w].pc = "out", ![w].at = @ - 1, ![w].res = o.res, ![w].backed = o.backed]
        /\ did' = [did EXCEPT ![Route(w)][o.res] = @ + 1]
  BY DEF Handle
<1>3. o.res \in Outcomes
  BY <1>2 DEF Results, Outcomes
<1>4. /\ wk[w].pc = "in" /\ wk[w].at = Len(Layers) + 1
      /\ UNCHANGED <<config, seen>>
  BY DEF Handle
<1>5. /\ wk'[w].pc = "out" /\ wk'[w].at = Len(Layers) /\ wk'[w].res = o.res
      /\ \A v \in Workers \ {w} : wk'[v] = wk[v]
  BY <1>1, <1>2, <1>4 DEF WorkerStates
<1>6. /\ Layers' = Layers /\ Counts(f)' = Counts(f)
      /\ \A v \in Workers : Route(v)' = Route(v)
  BY <1>4 DEF Layers, Counts, Has, Route
<1> DEFINE final == Final(KindOf(f), o.res) \in ShownFor(f)
           here == r = Route(w)
<1>7. /\ Runs(r) \in Nat /\ Ended(r, f) \in Nat
      /\ Runs(r)' = Runs(r) + IF here THEN 1 ELSE 0
      /\ Ended(r, f)' = Ended(r, f) + IF here /\ final THEN 1 ELSE 0
  <2>1. \A q \in Outcomes : did[r][q] \in Nat /\ did'[r][q] = did[r][q] + IF here /\ q = o.res THEN 1 ELSE 0
    <3>1. did \in [Routes -> [Outcomes -> Nat]]
      BY <1>1 DEF TypeOK
    <3>2. \A q \in Outcomes : did[r][q] \in Nat
      BY <3>1
    <3>3. ASSUME NEW q \in Outcomes
          PROVE  did'[r][q] = IF here /\ q = o.res THEN did[r][q] + 1 ELSE did[r][q]
      BY <1>1, <1>2, <1>3, <3>1
    <3> HIDE DEF here
    <3> QED
      BY <3>2, <3>3
  <2>2. "nil" \in Outcomes /\ "error" \in Outcomes /\ "panic" \in Outcomes
        /\ o.res \in {"nil", "error", "panic"}
    BY <1>3 DEF Outcomes
  <2>3. Runs(r) \in Nat /\ Ended(r, f) \in Nat
    BY <1>1, RunsType
  <2> DEFINE shown(q) == Final(KindOf(f), q) \in ShownFor(f)
  <2>4. \A q : (Final(KindOf(f), q) \in ShownFor(f))' <=> shown(q)
    BY <1>6 DEF Final, Shielded, KindOf, ShownFor
  <2>5. /\ Ended(r, f) = (IF shown("nil") THEN did[r]["nil"] ELSE 0)
                        + (IF shown("error") THEN did[r]["error"] ELSE 0)
                        + (IF shown("panic") THEN did[r]["panic"] ELSE 0)
        /\ Ended(r, f)' = (IF shown("nil") THEN did'[r]["nil"] ELSE 0)
                         + (IF shown("error") THEN did'[r]["error"] ELSE 0)
                         + (IF shown("panic") THEN did'[r]["panic"] ELSE 0)
    BY <2>4 DEF Ended
  <2>6. final <=> shown(o.res)
    OBVIOUS
  <2> HIDE DEF shown, final
  <2>7. Ended(r, f)' = Ended(r, f) + IF here /\ final THEN 1 ELSE 0
    <3>1. CASE o.res = "nil"
      BY <2>1, <2>2, <2>5, <2>6, <3>1
    <3>2. CASE o.res = "error"
      BY <2>1, <2>2, <2>5, <2>6, <3>2
    <3>3. CASE o.res = "panic"
      BY <2>1, <2>2, <2>5, <2>6, <3>3
    <3> QED
      BY <2>2, <3>1, <3>2, <3>3
  <2>8. Runs(r)' = Runs(r) + IF here THEN 1 ELSE 0
    BY <2>1, <2>2 DEF Runs
  <2> QED
    BY <2>3, <2>7, <2>8
<1>8. seen[r][f] \in Nat
  BY <1>1 DEF TypeOK
<1>9. CASE ~Counts(f)
  BY <1>4, <1>6, <1>9 DEF ShownAt
<1>10. CASE Counts(f)
  <2>1. PICK p \in 1 .. Len(Layers) :
          /\ Layers[p] = KindOf(f)
          /\ \A q \in 1 .. Len(Layers) : Layers[q] = KindOf(f) => q = p
    BY <1>1, <1>10, Position DEF Counts
  <2>2. \A v \in Workers \ {w} : /\ v \in Entered(r, f) <=> v \in Entered(r, f)'
                                 /\ v \in Leaving(r, f) <=> v \in Leaving(r, f)'
    BY <1>5, <1>6 DEF Entered, Leaving, Final, Shielded
  <2>3. w \in Entered(r, f) <=> here
    BY <1>1, <1>4, <2>1 DEF Entered
  <2>4. w \notin Entered(r, f)' /\ w \notin Leaving(r, f)
    BY <1>4, <1>5 DEF Entered, Leaving
  <2>5. w \in Leaving(r, f)' <=> here /\ final
    <3>1. \E q \in 1 .. Len(Layers') : Layers'[q] = KindOf(f) /\ q <= wk'[w].at
      BY <1>1, <1>5, <1>6, <2>1
    <3>2. (Final(KindOf(f), wk[w].res))' = Final(KindOf(f), o.res)
      BY <1>5, <1>6 DEF Final, Shielded
    <3>3. (KindOf(f) = KindOf(f)') /\ ShownFor(f)' = ShownFor(f)
      BY DEF KindOf, ShownFor
    <3> QED
      BY <1>5, <1>6, <3>1, <3>2, <3>3 DEF Leaving, Final, Shielded
  <2>6. /\ Entered(r, f) \subseteq Workers /\ Entered(r, f)' \subseteq Workers
        /\ Leaving(r, f) \subseteq Workers /\ Leaving(r, f)' \subseteq Workers
    BY DEF Entered, Leaving
  <2> HIDE DEF final, here
  <2>7. /\ Cardinality(Entered(r, f)') \in Nat
        /\ Cardinality(Entered(r, f)) = Cardinality(Entered(r, f)') + IF here THEN 1 ELSE 0
    BY <2>2, <2>3, <2>4, <2>6, CountWorkers
  <2>8. /\ Cardinality(Leaving(r, f)) \in Nat
        /\ Cardinality(Leaving(r, f)') = Cardinality(Leaving(r, f)) + IF here /\ final THEN 1 ELSE 0
    BY <2>2, <2>4, <2>5, <2>6, CountWorkers
  <2>9. CASE f \in Entry
    <3>1. seen[r][f] = Runs(r) + Cardinality(Entered(r, f))
      BY <1>10, <2>9 DEF ShownAt
    <3>2. seen'[r][f] = Runs(r)' + Cardinality(Entered(r, f)')
      BY <1>4, <1>7, <1>8, <2>7, <3>1
    <3> QED
      BY <1>6, <1>10, <2>9, <3>2 DEF ShownAt
  <2>10. CASE f \notin Entry
    <3>1. seen[r][f] + Cardinality(Leaving(r, f)) = Ended(r, f)
      BY <1>10, <2>10 DEF ShownAt
    <3>2. seen'[r][f] + Cardinality(Leaving(r, f)') = Ended(r, f)'
      BY <1>4, <1>7, <1>8, <2>8, <3>1
    <3> QED
      BY <1>6, <1>10, <2>10, <3>2 DEF ShownAt
  <2> QED
    BY <2>9, <2>10
<1> QED
  BY <1>9, <1>10

\* A middleware on the way out, which a panic reaches as such only if no
\* Recovery is further inside.
LEMMA ExitShows ==
  ASSUME Inv, EachOnce, Collected, Within, NEW w \in Workers, Exit(w),
         NEW r \in Routes, NEW f \in Fields, ShownAt(r, f)
  PROVE  ShownAt(r, f)'
<1> DEFINE a == wk[w].at
           l == Layers[a]
           res == wk[w].res
           here == r = Route(w)
           shown == here /\ Counts(f) /\ KindOf(f) = l /\ f \notin Entry /\ res \in ShownFor(f)
<1>1. TypeOK /\ wk \in [Workers -> WorkerStates] /\ Route(w) \in Routes /\ Len(Layers) \in Nat
  BY WorkerType, ConfigType DEF Inv, TypeOK
<1>2. /\ wk[w].pc = "out" /\ a \in 1 .. Len(Layers) /\ a \in Nat /\ res \in Outcomes
      /\ wk' = [wk EXCEPT ![w].at = @ - 1, ![w].res = Passes(l, @)]
      /\ UNCHANGED <<config, did>> /\ Show(Route(w), OnExit(l, res))
  <2>1. a \in Nat /\ res \in Outcomes
    BY <1>1 DEF WorkerStates
  <2> QED
    BY <1>1, <2>1 DEF Exit, Within
<1>3. /\ Layers' = Layers /\ Counts(f)' = Counts(f) /\ Runs(r)' = Runs(r) /\ Ended(r, f)' = Ended(r, f)
      /\ \A v \in Workers : Route(v)' = Route(v)
  BY <1>2 DEF Layers, Counts, Has, Runs, Ended, Final, Shielded, Route
<1>4. /\ wk'[w].pc = "out" /\ wk'[w].at = a - 1 /\ wk'[w].res = Passes(l, res)
      /\ \A v \in Workers \ {w} : wk'[v] = wk[v]
  BY <1>1, <1>2 DEF WorkerStates
<1>5. l \in Kinds /\ Has(l)
  <2>1. Layers \in Seq(Kinds)
    BY <1>1, ConfigType DEF TypeOK
  <2>2. l \in Kinds
    BY <1>2, <2>1
  <2> QED
    BY <1>1, <1>2, <2>2, HasLayer
<1>6. seen'[r][f] = IF shown THEN seen[r][f] + 1 ELSE seen[r][f]
  <2>1. Built(Route(w))
    BY <1>2 DEF Collected
  <2>2. seen'[r][f] = IF r = Route(w) /\ f \in OnExit(l, res) /\ Exported(Route(w), f)
                        THEN seen[r][f] + 1 ELSE seen[r][f]
    BY <1>1, <1>2, ShowEffect
  <2>3. f \in OnExit(l, res) <=> KindOf(f) = l /\ f \notin Entry /\ res \in ShownFor(f)
    BY <1>2, <1>5, FieldsOfLayer
  <2>4. KindOf(f) = l => (Exported(Route(w), f) <=> CollectorOf(f) \notin config.foreign)
    BY <1>1, <1>5, <2>1, ExportedWhenBuilt
  <2> QED
    BY <1>5, <2>2, <2>3, <2>4 DEF Counts
<1>7. seen[r][f] \in Nat
  BY <1>1 DEF TypeOK
<1>8. CASE ~Counts(f)
  BY <1>3, <1>6, <1>8 DEF ShownAt
<1>9. CASE Counts(f)
  <2>1. PICK p \in 1 .. Len(Layers) :
          /\ Layers[p] = KindOf(f)
          /\ \A q \in 1 .. Len(Layers) : Layers[q] = KindOf(f) => q = p
    BY <1>1, <1>9, Position DEF Counts
  <2>2. KindOf(f) = l <=> p = a
    BY <1>2, <2>1
  <2>3. \A v \in Workers \ {w} : /\ v \in Entered(r, f) <=> v \in Entered(r, f)'
                                 /\ v \in Leaving(r, f) <=> v \in Leaving(r, f)'
    BY <1>3, <1>4 DEF Entered, Leaving, Final, Shielded
  <2>4. w \notin Entered(r, f) /\ w \notin Entered(r, f)'
    BY <1>2, <1>4 DEF Entered
  <2>5. w \in Leaving(r, f) <=> here /\ p <= a /\ Final(KindOf(f), res) \in ShownFor(f)
    BY <1>2, <2>1 DEF Leaving
  <2>6. w \in Leaving(r, f)' <=> here /\ p <= a - 1 /\ Final(KindOf(f), Passes(l, res)) \in ShownFor(f)
    BY <1>3, <1>4, <2>1 DEF Leaving, Final, Shielded
  <2>7. p = a => Final(KindOf(f), res) = res
    <3>1. ASSUME p = a, res = "panic", Shielded(KindOf(f))
          PROVE  FALSE
      <4>1. PICK i, j \in 1 .. Len(Layers) : i < j /\ Layers[i] = KindOf(f) /\ Layers[j] = "recovery"
        BY <3>1 DEF Shielded
      <4>2. i = p /\ j <= a
        BY <1>2, <2>1, <3>1, <4>1 DEF Inv, PanicsOutside
      <4> QED
        BY <1>1, <3>1, <4>1, <4>2
    <3> QED
      BY <3>1 DEF Final
  <2>8. p <= a - 1 => Final(KindOf(f), Passes(l, res)) = Final(KindOf(f), res)
    <3>1. ASSUME p <= a - 1, l = "recovery", res = "panic"
          PROVE  Shielded(KindOf(f))
      BY <1>2, <2>1, <3>1 DEF Shielded
    <3> QED
      BY <3>1 DEF Final, Passes
  <2>9. /\ Entered(r, f) \subseteq Workers /\ Entered(r, f)' \subseteq Workers
        /\ Leaving(r, f) \subseteq Workers /\ Leaving(r, f)' \subseteq Workers
    BY DEF Entered, Leaving
  <2>10. Cardinality(Entered(r, f)') = Cardinality(Entered(r, f))
    BY <2>3, <2>4, <2>9, CountWorkers
  <2>11. /\ Cardinality(Leaving(r, f)') \in Nat
         /\ Cardinality(Leaving(r, f)) = Cardinality(Leaving(r, f)')
                                        + IF here /\ p = a /\ res \in ShownFor(f) THEN 1 ELSE 0
    <3>1. CASE here /\ p = a /\ res \in ShownFor(f)
      <4>1. w \in Leaving(r, f) /\ w \notin Leaving(r, f)'
        BY <1>2, <2>5, <2>6, <2>7, <3>1
      <4> QED
        BY <2>3, <2>9, <3>1, <4>1, CountWorkers
    <3>2. CASE ~(here /\ p = a /\ res \in ShownFor(f))
      <4>1. p <= a <=> p = a \/ p <= a - 1
        BY <1>2, <2>1
      <4>2. w \in Leaving(r, f) <=> w \in Leaving(r, f)'
        <5>1. CASE p = a
          <6>1. ~(p <= a - 1)
            BY <1>2, <5>1
          <6> QED
            BY <2>5, <2>6, <2>7, <3>2, <5>1, <6>1
        <5>2. CASE p # a
          BY <2>5, <2>6, <2>8, <4>1, <5>2
        <5> QED
          BY <5>1, <5>2
      <4>3. Cardinality(Leaving(r, f)') = Cardinality(Leaving(r, f)) /\ Cardinality(Leaving(r, f)') \in Nat
        BY <2>3, <2>9, <4>2, CountWorkers
      <4> QED
        BY <3>2, <4>3
    <3> QED
      BY <3>1, <3>2
  <2>12. CASE f \in Entry
    BY <1>3, <1>6, <1>9, <2>10, <2>12 DEF ShownAt
  <2>13. CASE f \notin Entry
    <3>1. seen[r][f] + Cardinality(Leaving(r, f)) = Ended(r, f)
      BY <1>9, <2>13 DEF ShownAt
    <3>2. seen'[r][f] + Cardinality(Leaving(r, f)') = Ended(r, f)
      BY <1>6, <1>7, <1>9, <2>2, <2>11, <2>13, <3>1
    <3> QED
      BY <1>3, <1>9, <2>13, <3>2 DEF ShownAt
  <2> QED
    BY <2>12, <2>13
<1> QED
  BY <1>8, <1>9

\* A worker that no layer has shown on its way in, or that has been past them all
\* on its way out.
Outside(state) == /\ state.pc = "in" => state.at = 1
                  /\ state.pc = "out" => state.at = 0

\* A step outside the chain.
OutOfChain ==
  /\ UNCHANGED <<config, seen, did>>
  /\ \A w \in Workers : wk'[w] = wk[w] \/ (Outside(wk[w]) /\ Outside(wk'[w]))

\* What takes place outside the chain shows nothing.
LEMMA OutsideShows ==
  ASSUME OutOfChain, NEW r \in Routes, NEW f \in Fields, ShownAt(r, f)
  PROVE  ShownAt(r, f)'
<1>1. /\ Layers' = Layers /\ Counts(f)' = Counts(f) /\ Runs(r)' = Runs(r) /\ Ended(r, f)' = Ended(r, f)
      /\ \A v \in Workers : Route(v)' = Route(v)
  BY DEF OutOfChain, Layers, Counts, Has, Runs, Ended, Final, Shielded, Route
<1>2. \A w \in Workers : Outside(wk[w]) => w \notin Entered(r, f) /\ w \notin Leaving(r, f)
  BY DEF Outside, Entered, Leaving
<1>3. \A w \in Workers : Outside(wk'[w]) => w \notin Entered(r, f)' /\ w \notin Leaving(r, f)'
  BY DEF Outside, Entered, Leaving
<1>4. \A w \in Workers : wk'[w] = wk[w] => /\ w \in Entered(r, f) <=> w \in Entered(r, f)'
                                           /\ w \in Leaving(r, f) <=> w \in Leaving(r, f)'
  BY <1>1 DEF Entered, Leaving, Final, Shielded
<1>5. Entered(r, f)' = Entered(r, f) /\ Leaving(r, f)' = Leaving(r, f)
  <2>1. /\ Entered(r, f) \subseteq Workers /\ Entered(r, f)' \subseteq Workers
        /\ Leaving(r, f) \subseteq Workers /\ Leaving(r, f)' \subseteq Workers
    BY DEF Entered, Leaving
  <2> QED
    BY <1>2, <1>3, <1>4, <2>1 DEF OutOfChain
<1> QED
  BY <1>1, <1>5 DEF ShownAt, OutOfChain

\* A process that starts has shown nothing.
LEMMA FreshShows ==
  ASSUME \A r \in Routes : seen[r] = Zero(Fields) /\ did[r] = Zero(Outcomes),
         \A w \in Workers : wk[w].pc = "idle",
         NEW r \in Routes, NEW f \in Fields
  PROVE  ShownAt(r, f)
<1>1. seen[r][f] = 0 /\ \A o \in Outcomes : did[r][o] = 0
  BY DEF Zero
<1>2. Runs(r) = 0 /\ Ended(r, f) = 0
  BY <1>1 DEF Runs, Ended, Outcomes
<1>3. Entered(r, f) = {} /\ Leaving(r, f) = {}
  BY DEF Entered, Leaving
<1> QED
  BY <1>1, <1>2, <1>3, FS_EmptySet DEF ShownAt

\* A process that dies has nothing on its way.
LEMMA DieShows ==
  ASSUME NEW why, Die(why), NEW r \in Routes, NEW f \in Fields
  PROVE  ShownAt(r, f)'
<1>1. seen'[r][f] = 0 /\ \A o \in Outcomes : did'[r][o] = 0
  BY DEF Die, Zero
<1>2. Runs(r)' = 0 /\ Ended(r, f)' = 0
  BY <1>1 DEF Runs, Ended, Outcomes
<1>3. Entered(r, f)' = {} /\ Leaving(r, f)' = {}
  BY DEF Die, Free, Entered, Leaving
<1> QED
  BY <1>1, <1>2, <1>3, FS_EmptySet DEF ShownAt

\* What a worker does shows each run once to each observer.
LEMMA WorkerShows ==
  ASSUME Inv, EachOnce, Collected, Within, NEW w \in Workers, Worker(w),
         NEW r \in Routes, NEW f \in Fields, ShownAt(r, f)
  PROVE  ShownAt(r, f)'
<1>1. TypeOK /\ Deliveries /\ wk \in [Workers -> WorkerStates]
  BY WorkerType DEF Inv
<1>2. CASE Enter(w)
  BY <1>2, EnterShows
<1>3. CASE Handle(w)
  BY <1>3, HandleShows
<1>4. CASE Exit(w)
  BY <1>4, ExitShows
<1>5. CASE \E why : Die(why)
  BY <1>5, DieShows
<1>6. CASE Hold(w)
  <2>1. UNCHANGED <<config, seen, did>> /\ \A v \in Workers : wk'[v] = wk[v]
    BY <1>6 DEF Hold
  <2>2. OutOfChain
    BY <2>1 DEF OutOfChain
  <2> QED
    BY <2>2, OutsideShows
<1>7. CASE Take(w)
  <2>1. /\ UNCHANGED <<config, seen, did>> /\ wk[w].pc = "idle"
        /\ wk' = [wk EXCEPT ![w] = [Free EXCEPT !.pc = "in", !.at = 1, !.job = Head(todo[Route(w)])]]
    BY <1>7 DEF Take
  <2>2. Outside(wk[w]) /\ Outside(wk'[w]) /\ \A v \in Workers \ {w} : wk'[v] = wk[v]
    BY <1>1, <2>1 DEF Outside, Free
  <2>3. OutOfChain
    BY <2>1, <2>2 DEF OutOfChain
  <2> QED
    BY <2>3, OutsideShows
<1>8. CASE Settle(w)
  <2>1. UNCHANGED <<config, seen, did>> /\ wk[w].pc = "out" /\ wk[w].at = 0
    BY <1>8 DEF Settle
  <2>2. wk'[w].pc \notin {"in", "out"} /\ \A v \in Workers \ {w} : wk'[v] = wk[v]
    BY <1>1, <1>8, SettleEffect DEF Deliveries
  <2>3. Outside(wk[w]) /\ Outside(wk'[w])
    BY <2>1, <2>2 DEF Outside
  <2>4. OutOfChain
    BY <2>1, <2>2, <2>3 DEF OutOfChain
  <2> QED
    BY <2>4, OutsideShows
<1>9. CASE Signal(w)
  <2>1. UNCHANGED <<config, seen, did>> /\ wk[w].pc = "signal"
    BY <1>9 DEF Signal
  <2>2. wk'[w].pc \notin {"in", "out"} /\ \A v \in Workers \ {w} : wk'[v] = wk[v]
    BY <1>1, <1>9, SignalEffect DEF Deliveries
  <2>3. Outside(wk[w]) /\ Outside(wk'[w])
    BY <2>1, <2>2 DEF Outside
  <2>4. OutOfChain
    BY <2>1, <2>2, <2>3 DEF OutOfChain
  <2> QED
    BY <2>4, OutsideShows
<1>10. CASE /\ wk[w].pc \in {"callback", "delete"} /\ wk' = [wk EXCEPT ![w] = Free]
            /\ UNCHANGED <<config, seen, did>>
  <2>1. Outside(wk[w]) /\ Outside(wk'[w]) /\ \A v \in Workers \ {w} : wk'[v] = wk[v]
    BY <1>1, <1>10 DEF Outside, Free
  <2>2. OutOfChain
    BY <1>10, <2>1 DEF OutOfChain
  <2> QED
    BY <2>2, OutsideShows
<1> QED
  BY <1>2, <1>3, <1>4, <1>5, <1>6, <1>7, <1>8, <1>9, <1>10
     DEF Worker, HandlerPanics, Callback, Delete

\* No other step shows anything.
LEMMA ShownStep ==
  ASSUME Inv, Collected, Within, Shown, [Next]_vars
  PROVE  Shown'
<1> SUFFICES ASSUME EachOnce', NEW r \in Routes, NEW f \in Fields
             PROVE  ShownAt(r, f)'
  BY DEF Shown
<1>1. EachOnce /\ ShownAt(r, f)
  BY ConfigStep DEF EachOnce, Layers, Shown
<1>2. ASSUME NEW w \in Workers, Worker(w)
      PROVE  ShownAt(r, f)'
  BY <1>1, <1>2, WorkerShows
<1>3. \A s \in Routes : Register(s) \/ Poll(s) => UNCHANGED <<config, seen, did, wk>>
  BY DEF Register, Poll, Receive
<1>4. \A m \in Msgs : Expire(m) \/ Redrive(m) => UNCHANGED <<config, seen, did, wk>>
  BY DEF Expire, Redrive
<1>5. Restart \/ UNCHANGED vars => UNCHANGED <<config, seen, did, wk>>
  BY DEF Restart, vars
<1>6. ASSUME UNCHANGED <<config, seen, did, wk>>
      PROVE  ShownAt(r, f)'
  <2>1. OutOfChain
    BY <1>6 DEF OutOfChain
  <2> QED
    BY <1>1, <2>1, OutsideShows
<1> QED
  BY <1>2, <1>3, <1>4, <1>5, <1>6 DEF Next, Done

\* What the observers show once the runs are over.
LEMMA ShownAtLast ==
  ASSUME Inv, Shown, EachOnce
  PROVE  ObserversTruthful
<1> SUFFICES ASSUME NEW r \in Routes,
                    \A w \in Workers : Route(w) = r => wk[w].pc \notin {"in", "out"},
                    NEW f \in Fields
             PROVE  seen[r][f] = IF CollectorOf(f) \in config.foreign THEN 0 ELSE Expected(r, f)
  BY DEF ObserversTruthful
<1>1. ShownAt(r, f)
  BY DEF Shown
<1>2. Cardinality(Entered(r, f)) = 0 /\ Cardinality(Leaving(r, f)) = 0
  <2>1. Entered(r, f) = {} /\ Leaving(r, f) = {}
    BY DEF Entered, Leaving
  <2> QED
    BY <2>1, FS_EmptySet
<1>3. /\ did[r]["nil"] \in Nat /\ did[r]["error"] \in Nat /\ did[r]["panic"] \in Nat
      /\ Runs(r) \in Nat /\ Ended(r, f) \in Nat /\ seen[r][f] \in Nat
  <2>1. TypeOK
    BY DEF Inv
  <2>2. seen[r][f] \in Nat
    BY <2>1 DEF TypeOK
  <2> QED
    BY <2>1, <2>2, RunsType
<1>4. /\ ~Counts(f) => seen[r][f] = 0
      /\ Counts(f) /\ f \in Entry => seen[r][f] = Runs(r)
      /\ Counts(f) /\ f \notin Entry => seen[r][f] = Ended(r, f)
  BY <1>1, <1>2, <1>3 DEF ShownAt
<1>5. ~Has(KindOf(f)) => Expected(r, f) = 0
  BY DEF Expected, KindOf, Fields
<1>6. Has(KindOf(f)) /\ f \in Entry => Expected(r, f) = Runs(r)
  BY DEF Expected, KindOf, Entry, Runs
<1>7. Has(KindOf(f)) /\ f \notin Entry => Expected(r, f) = Ended(r, f)
  <2> SUFFICES ASSUME Has(KindOf(f)), f \notin Entry
               PROVE  Expected(r, f) = Ended(r, f)
    OBVIOUS
  <2>1. CASE f = "dec"
    BY <1>3, <2>1 DEF Expected, Ended, Final, KindOf, ShownFor, Outcomes
  <2>2. CASE f = "observed"
    BY <1>3, <2>2 DEF Expected, Ended, Final, KindOf, ShownFor, Outcomes
  <2>3. CASE f = "success"
    BY <1>3, <2>3 DEF Expected, Ended, Final, KindOf, ShownFor
  <2>4. CASE f = "error"
    BY <1>3, <2>4 DEF Expected, Ended, Final, KindOf, ShownFor
  <2>5. CASE f = "errors"
    BY <1>3, <2>5 DEF Expected, Ended, Final, KindOf, ShownFor
  <2>6. CASE f = "ok"
    BY <1>3, <2>6 DEF Expected, Ended, Final, KindOf, ShownFor
  <2>7. CASE f = "failed"
    BY <1>3, <2>7 DEF Expected, Ended, Final, KindOf, ShownFor
  <2>8. CASE f = "unset"
    BY <1>3, <2>8 DEF Expected, Ended, Final, KindOf, ShownFor
  <2>9. CASE f = "processed"
    BY <1>3, <2>9 DEF Expected, Ended, Final, KindOf, ShownFor
  <2>10. CASE f = "logFailed"
    BY <1>3, <2>10 DEF Expected, Ended, Final, KindOf, ShownFor
  <2> QED
    BY <2>1, <2>2, <2>3, <2>4, <2>5, <2>6, <2>7, <2>8, <2>9, <2>10 DEF Entry, Fields
<1>8. ~(CollectorOf(f) \in config.foreign) /\ Has(KindOf(f)) <=> Counts(f)
  BY DEF Counts
<1> QED
  BY <1>4, <1>5, <1>6, <1>7, <1>8

\* Metrics, OTel and Logging tell the truth about the runs of a route's handler
\* whenever none is on its way, however workers interleave, panics unwind and
\* consumers share the registry, provided that no observer is in the chain twice,
\* where it would count every run twice.
THEOREM ObserversTrue == Spec => [](EachOnce => ObserversTruthful)
<1>1. Init => Collected /\ Within /\ Shown
  <2> SUFFICES ASSUME Init
               PROVE  Collected /\ Within /\ Shown
    OBVIOUS
  <2>1. /\ \A w \in Workers : wk[w].pc = "idle"
        /\ \A r \in Routes : /\ seen[r] = Zero(Fields) /\ did[r] = Zero(Outcomes)
                             /\ todo[r] = << >> /\ collector[r] = << >>
        /\ registry = Registered
    BY DEF Init, Free
  <2>2. Within
    BY <2>1 DEF Within
  <2>3. Shown
    BY <2>1, FreshShows DEF Shown
  <2>4. \A c \in Range(Collectors) : registry[c] = "foreign" <=> c \in config.foreign
    BY <2>1 DEF Registered
  <2>5. \A r \in Routes : Len(collector[r]) <= Len(Collectors) /\ Len(collector[r]) = 0
    BY <2>1, CollectorNames
  <2>6. Collected
    BY <2>1, <2>4, <2>5 DEF Collected
  <2> QED
    BY <2>2, <2>3, <2>6
<1>2. Inv /\ (Collected /\ Within /\ Shown) /\ [Next]_vars => (Collected /\ Within /\ Shown)'
  BY CollectedStep, WithinStep, ShownStep
<1>3. Inv /\ (Collected /\ Within /\ Shown) => (EachOnce => ObserversTruthful)
  BY ShownAtLast
<1> QED
  BY <1>1, <1>2, <1>3, Invariance, PTL DEF Spec

=============================================================================
