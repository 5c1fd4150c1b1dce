------------------------------ MODULE Producer ------------------------------
(***************************************************************************)
(* producer/producer.go with the generators of idgen/: goroutines publish  *)
(* messages through one Producer to an SNS topic (external), alone or in   *)
(* batches, and publish again what was not acknowledged.  A request or its *)
(* answer may be lost, and the topic may reject any entry of a batch.      *)
(*                                                                         *)
(* A FIFO topic drops a message whose deduplication ID it has seen (within *)
(* its window, which spans the model) and acknowledges it all the same.    *)
(*                                                                         *)
(* An identifier is the generator it is of and the text it was made from:  *)
(* a sequence of tokens, in which Sep is the separator; field keys and     *)
(* suffixes are numbers, each one token.  The hash of the key-based        *)
(* generator is taken to be free of collisions, and an identifier a caller *)
(* sets to be none a generator makes.                                      *)
(***************************************************************************)
EXTENDS Naturals, Sequences, FiniteSets, SequencesExt

CONSTANTS N,          \* messages 1..N
          Sep,        \* the separator of the generators
          Tokens,     \* what field values are made of; the separator may be among it
          Attributes, \* message -> its attributes: a function from field keys to values
          GroupID,    \* message -> explicit GroupID, or NoID
          DedupID,    \* message -> explicit DeduplicationID, or NoID
          Configs,    \* [fifo, groupIDGen, dedupIDGen, empty, opaque]: the topic, the
                      \* producer's generators, the messages whose body is empty and
                      \* those whose typed value its codec cannot encode
          SuffixRange,\* suffixes of NewCompositeWithSuffix; {} when min > max
          MaxBatch,   \* maxBatchSize, 10 in the code
          Callers,    \* goroutines that share the producer
          MaxCalls,   \* bound on the calls of Publish and PublishBatch
          MaxFaults   \* bound on lost requests and answers and rejected entries

Messages == 1 .. N

NoID == [alg |-> "none", text |-> << >>]

\* What a generator may be; "none" stands for no generator.
Generators == {"none", "keyBased", "composite", "suffix", "random"}

ASSUME ProducerAssumption ==
  /\ N \in Nat \ {0}
  /\ Sep \notin Nat
  /\ DOMAIN Attributes = Messages /\ DOMAIN GroupID = Messages /\ DOMAIN DedupID = Messages
  /\ \A m \in Messages :
       /\ DOMAIN Attributes[m] \subseteq Nat /\ IsFiniteSet(DOMAIN Attributes[m])
       /\ Attributes[m] \in [DOMAIN Attributes[m] -> Seq(Tokens)]
       /\ \A id \in {GroupID[m], DedupID[m]} : id = NoID \/ id.alg \notin Generators
  /\ \A cf \in Configs :
       /\ cf.fifo \in BOOLEAN
       /\ cf.empty \cup cf.opaque \subseteq Messages
       /\ \A gen \in {cf.groupIDGen, cf.dedupIDGen} :
            gen.kind \in Generators /\ gen.fields \in Seq(Nat)
  /\ SuffixRange \subseteq Nat
  /\ MaxBatch \in Nat \ {0} /\ MaxCalls \in Nat /\ MaxFaults \in Nat

VARIABLES conf,      \* the configuration
          pc,        \* caller -> "idle", "request" or "answer"
          single,    \* caller -> its call is Publish, not PublishBatch
          entries,   \* caller -> the entries of its request
          answer,    \* caller -> what the topic answered
          topic,     \* messages the topic accepted, in order
          outcome,   \* message -> what its last call told the caller; "none" before
          uncertain, \* messages of a request whose call returned an error (history)
          calls,     \* calls so far
          faults

vars == <<conf, pc, single, entries, answer, topic, outcome, uncertain, calls, faults>>

\* Both lists of an SNS answer, or an error instead of them.
NoAnswer == [error |-> TRUE, successful |-> {}, failed |-> {}]

Init ==
  /\ conf \in Configs
  /\ pc = [c \in Callers |-> "idle"]
  /\ single = [c \in Callers |-> FALSE]
  /\ entries = [c \in Callers |-> << >>]
  /\ answer = [c \in Callers |-> NoAnswer]
  /\ topic = << >>
  /\ outcome = [m \in Messages |-> "none"]
  /\ uncertain = {}
  /\ calls = 0
  /\ faults = 0

Fault == faults < MaxFaults /\ faults' = faults + 1

-----------------------------------------------------------------------------
(* The generators.                                                          *)

\* strings.Join
JoinWith(parts) ==
  FlattenSeq([i \in 1 .. Len(parts) |-> IF i = 1 THEN parts[i] ELSE <<Sep>> \o parts[i]])

\* sort.Strings
Sorted(s) ==
  LET At == 1 .. Len(s)
      p == CHOOSE p \in Bijection(At, At) : \A i, j \in At : i < j => s[p[i]] <= s[p[j]]
  IN  [i \in At |-> s[p[i]]]

\* What s holds at the indices in I, in the order of s.
Keep(s, I) == LET q == Sorted(SetToSeq(I)) IN [i \in 1 .. Len(q) |-> s[q[i]]]

\* The keys to use: those of the whitelist that are present, in its order, or
\* all of them, sorted (field keys are numbers here, so that they sort).
SelectKeys(gen, attrs) ==
  IF gen.fields = << >>
    THEN Sorted(SetToSeq(DOMAIN attrs))
    ELSE Keep(gen.fields, {i \in 1 .. Len(gen.fields) : gen.fields[i] \in DOMAIN attrs})

\* selectValues of the composite generators.
SelectValues(gen, attrs) ==
  LET keys == SelectKeys(gen, attrs) IN [i \in 1 .. Len(keys) |-> attrs[keys[i]]]

\* keyBased.Generate up to its hash: each key joined with its value, and then
\* the pairs, by the same separator.
KeyBasedText(gen, attrs) ==
  LET keys == Sorted(SelectKeys(gen, attrs))
  IN  JoinWith([i \in 1 .. 2 * Len(keys) |->
                  IF i % 2 = 1 THEN <<keys[(i + 1) \div 2]>> ELSE attrs[keys[i \div 2]]])

\* Mutant: the field values are left out of the text.
GenerateKeysOnly(gen, attrs, uuid) ==
  IF SelectKeys(gen, attrs) = << >> /\ gen.kind # "random" THEN {}
  ELSE {[alg |-> gen.kind, text |-> SelectKeys(gen, attrs)]}

\* Generate: what it may return; nothing when it returns an error, which the
\* deterministic generators do when they select no field.
Generate(gen, attrs, uuid) ==
  LET texts ==
        CASE gen.kind = "random" -> {uuid}
          [] gen.kind = "keyBased" -> {KeyBasedText(gen, attrs)}
          [] gen.kind = "composite" -> {JoinWith(SelectValues(gen, attrs))}
          [] gen.kind = "suffix" ->
               {JoinWith(Append(SelectValues(gen, attrs), <<n>>)) : n \in SuffixRange}
  IN  IF SelectKeys(gen, attrs) = << >> /\ gen.kind # "random" THEN {}
      ELSE {[alg |-> gen.kind, text |-> t] : t \in texts}

\* Mutant: the generator replaces an ID the caller set.
ResolveIDAlways(gen, explicit, attrs, uuid) ==
  IF ~conf.fifo \/ gen.kind = "none" THEN {explicit} ELSE Generate(gen, attrs, uuid)

\* One of the two halves of resolveIDs: generated only for a FIFO topic, only
\* when the caller gave none, and only with a generator.
ResolveID(gen, explicit, attrs, uuid) ==
  IF ~conf.fifo \/ explicit # NoID \/ gen.kind = "none"
    THEN {explicit}
    ELSE Generate(gen, attrs, uuid)

\* What a random generator returns: a value of its own for every use.
Uuid(use, i) == <<use, calls, i>>

\* The i-th entry of this call for message m, and {} for a generator error.
Entries(m, i) ==
  [msg : {m},
   group : ResolveID(conf.groupIDGen, GroupID[m], Attributes[m], Uuid("group", i)),
   dedup : ResolveID(conf.dedupIDGen, DedupID[m], Attributes[m], Uuid("dedup", i))]

-----------------------------------------------------------------------------
(* Publish and PublishBatch.                                                *)

Busy == UNION {{e.msg : e \in Range(entries[c])} : c \in Callers}

\* What a caller may publish: nothing it has an acknowledgement for, and
\* nothing that is in another call.
Publishable == {m \in Messages : outcome[m] # "ok"} \ Busy

\* The call returns an error before it sends anything.
Refuse(ms) ==
  /\ outcome' = [m \in Messages |-> IF m \in Range(ms) THEN "refused" ELSE outcome[m]]
  /\ UNCHANGED <<pc, single, entries>>

\* The request of caller c goes out.
Request(c, alone, es) ==
  /\ entries' = [entries EXCEPT ![c] = es]
  /\ single' = [single EXCEPT ![c] = alone]
  /\ pc' = [pc EXCEPT ![c] = "request"]
  /\ outcome' = [m \in Messages |-> IF \E e \in Range(es) : e.msg = m THEN "none" ELSE outcome[m]]

Call(c) ==
  /\ pc[c] = "idle"
  /\ calls < MaxCalls
  /\ calls' = calls + 1
  /\ UNCHANGED <<conf, answer, topic, uncertain, faults>>

Publish(c, m) ==
  /\ Call(c)
  /\ IF m \in conf.empty \/ Entries(m, 1) = {}
       THEN Refuse(<<m>>)
       ELSE \E e \in Entries(m, 1) : Request(c, TRUE, <<e>>)

\* Publish of typed/producer.go: the value is encoded first, then published with
\* the IDs and attributes of its options.
PublishTyped(c, m) ==
  IF m \in conf.opaque THEN Call(c) /\ Refuse(<<m>>) ELSE Publish(c, m)

\* One to MaxBatch entries, resolved one by one; the first generator error
\* aborts the whole batch.
PublishBatch(c, ms) ==
  /\ Call(c)
  /\ IF ms = << >> \/ Len(ms) > MaxBatch \/ \E i \in 1 .. Len(ms) : Entries(ms[i], i) = {}
       THEN Refuse(ms)
       ELSE \E es \in {f \in [1 .. Len(ms) -> UNION {Entries(ms[i], i) : i \in 1 .. Len(ms)}] :
                         \A i \in 1 .. Len(ms) : f[i] \in Entries(ms[i], i)} :
              Request(c, FALSE, es)

\* mapBatchOutput, and the ID or the error of Publish.
MapBatchOutput(c) ==
  [m \in {e.msg : e \in Range(entries[c])} |->
     IF answer[c].error THEN "error" ELSE IF m \in answer[c].successful THEN "ok" ELSE "failed"]

\* The call returns to its caller.
Return(c) ==
  /\ pc[c] = "answer"
  /\ LET result == MapBatchOutput(c)
     IN  outcome' = [m \in Messages |-> IF m \in DOMAIN result THEN result[m] ELSE outcome[m]]
  /\ uncertain' = IF answer[c].error THEN uncertain \cup {e.msg : e \in Range(entries[c])}
                                     ELSE uncertain
  /\ entries' = [entries EXCEPT ![c] = << >>]
  /\ pc' = [pc EXCEPT ![c] = "idle"]
  /\ UNCHANGED <<conf, single, answer, topic, calls, faults>>

-----------------------------------------------------------------------------
(* The topic.                                                               *)

\* A FIFO topic wants both IDs, a standard one rejects them, and no topic
\* takes an empty message.
Acceptable(e) ==
  /\ e.msg \notin conf.empty
  /\ IF conf.fifo THEN e.group # NoID /\ e.dedup # NoID ELSE e.group = NoID /\ e.dedup = NoID

\* The taken entries of es that are not duplicates of one before them.
Fresh(es, taken) ==
  {i \in taken : conf.fifo => /\ \A k \in 1 .. Len(topic) : topic[k].dedup # es[i].dedup
                              /\ \A j \in taken : j < i => es[j].dedup # es[i].dedup}

\* The topic takes the acceptable entries of c's request but for those it
\* rejects; its answer gets back, or is lost.
Accept(c, rejected) ==
  LET es == entries[c]
      taken == {i \in 1 .. Len(es) : Acceptable(es[i]) /\ es[i].msg \notin rejected}
      successful == {es[i].msg : i \in taken}
      failed == {e.msg : e \in Range(es)} \ successful
  IN  /\ pc[c] = "request"
      /\ topic' = topic \o Keep(es, Fresh(es, taken))
      /\ \/ /\ answer' = [answer EXCEPT ![c] = [error |-> single[c] /\ failed # {},
                                                successful |-> successful, failed |-> failed]]
            /\ IF rejected = {} THEN UNCHANGED faults ELSE Fault
         \/ /\ answer' = [answer EXCEPT ![c] = NoAnswer]
            /\ Fault
      /\ pc' = [pc EXCEPT ![c] = "answer"]
      /\ UNCHANGED <<conf, single, entries, outcome, uncertain, calls>>

\* The request never reaches the topic.
Lose(c) ==
  /\ pc[c] = "request"
  /\ Fault
  /\ answer' = [answer EXCEPT ![c] = NoAnswer]
  /\ pc' = [pc EXCEPT ![c] = "answer"]
  /\ UNCHANGED <<conf, single, entries, topic, outcome, uncertain, calls>>

Topic(c) ==
  \/ \E rejected \in SUBSET {e.msg : e \in Range(entries[c])} : Accept(c, rejected)
  \/ Lose(c)

-----------------------------------------------------------------------------

\* Batches of distinct messages, up to one more than PublishBatch takes.
Batches == {ms \in SeqOf(Publishable, MaxBatch + 1) : Cardinality(Range(ms)) = Len(ms)}

\* Nobody publishes any more.
Over == calls = MaxCalls /\ (\A c \in Callers : pc[c] = "idle") /\ UNCHANGED vars

Next ==
  \/ \E c \in Callers : \/ \E m \in Publishable : Publish(c, m) \/ PublishTyped(c, m)
                        \/ \E ms \in Batches : PublishBatch(c, ms)
                        \/ Topic(c)
                        \/ Return(c)
  \/ Over

Spec == Init /\ [][Next]_vars

-----------------------------------------------------------------------------

\* Every variable has its type: a request that goes out has one to MaxBatch
\* entries, and no entry of an answer is both successful and failed.
TypeOK ==
  /\ conf \in Configs
  /\ pc \in [Callers -> {"idle", "request", "answer"}]
  /\ single \in [Callers -> BOOLEAN]
  /\ \A c \in Callers : Len(entries[c]) \in IF pc[c] = "idle" THEN {0} ELSE 1 .. MaxBatch
  /\ \A c \in Callers : answer[c].successful \cap answer[c].failed = {}
  /\ \A i \in 1 .. Len(topic) : topic[i].msg \in Messages
  /\ outcome \in [Messages -> {"none", "ok", "failed", "error", "refused"}]
  /\ uncertain \subseteq Messages
  /\ calls \in 0 .. MaxCalls
  /\ faults \in 0 .. MaxFaults

Published == {topic[i].msg : i \in 1 .. Len(topic)}

\* The deduplication ID of m is the same for every call.
Stable(m) == DedupID[m] # NoID \/ conf.dedupIDGen.kind \in {"keyBased", "composite"}

\* A message with an explicit deduplication ID, or one generated from its
\* attributes, is on a FIFO topic at most once, however often it is published
\* again after a lost answer, alone or in another batch.
AtMostOnce ==
  conf.fifo => \A m \in Messages :
    Stable(m) => Cardinality({i \in 1 .. Len(topic) : topic[i].msg = m}) <= 1

\* The fields of m a deduplication ID is made of.
Selected(m) ==
  [k \in Range(SelectKeys(conf.dedupIDGen, Attributes[m])) |-> Attributes[m][k]]

\* The deduplication ID may tell m from every other message: one of the two
\* has an explicit one that the other has not, or neither has one and they
\* differ in the selected fields, whose values are free of the separator, and
\* the composite generators, which leave the keys out, find the same keys in both.
ToldApart(m) ==
  \A n \in Messages \ {m} :
    \/ DedupID[m] # DedupID[n]
    \/ /\ DedupID[m] = NoID
       /\ \/ conf.dedupIDGen.kind = "random"
          \/ /\ Selected(m) # Selected(n)
             /\ conf.dedupIDGen.kind # "keyBased" => DOMAIN Selected(m) = DOMAIN Selected(n)
             /\ \A l \in {m, n} : \A k \in DOMAIN Selected(l) : Sep \notin Range(Selected(l)[k])

\* What a call tells its caller is true: an acknowledged message is on the
\* topic, and one that was refused or rejected is not, unless an earlier call
\* for it ended in an error that left this open.
OutcomeTruthful ==
  \A m \in Messages :
    /\ outcome[m] = "ok" /\ (conf.fifo => ToldApart(m)) => m \in Published
    /\ outcome[m] \in {"refused", "failed"} /\ m \notin uncertain => m \notin Published

=============================================================================
