--------------------------- MODULE ScheduledRetry ---------------------------
(***************************************************************************)
(* The Scheduled Retry model: processScheduled of consumer/dispatch.go     *)
(* with retrycount.go, retry_scheduler.go, dlq_publisher.go and            *)
(* metrics.go, over the Entry_Queue, EventBridge Scheduler and the DLQ     *)
(* (external).                                                             *)
(*                                                                         *)
(* A message lives on as copies: the one the producer sent, one per retry  *)
(* schedule (which becomes a message of the queue when it fires) and the   *)
(* ones in the DLQ.  A consumer works on many copies at once, may fail at  *)
(* any call, and may crash.  Failed calls, lost answers and crashes are    *)
(* drawn from one budget that Starts gives; handlers fail as they like.    *)
(***************************************************************************)
EXTENDS Integers, FiniteSets

CONSTANTS N,              \* messages 1..N a producer sent
          MaxRetryCount,  \* of ScheduledRetryConfig
          MaxInt,         \* the largest int
          Starts,         \* retry_counts the messages come with, and the faults to come
          SentAttributes, \* user attributes (numbers: their key order) of a sent message
          MaxAttributes,  \* maxMessageAttributes, 10 in the code
          MaxCopies       \* bound on the copies that come into being

Messages == 1 .. N

Copies == 1 .. MaxCopies

\* The ints, and retry_count values that are none: no attribute, and a text
\* that is not a number or too large for an int.
Ints == -(MaxInt + 1) .. MaxInt
Absent == MaxInt + 1
Malformed == MaxInt + 2

ASSUME RetryAssumption ==
  /\ N \in Nat \ {0}
  /\ MaxRetryCount \in Nat
  /\ MaxInt \in Nat /\ MaxRetryCount < MaxInt
  /\ Starts \subseteq [counts : [Messages -> Ints \cup {Absent, Malformed}], faults : Nat]
  /\ SentAttributes \subseteq Nat /\ IsFiniteSet(SentAttributes)
  /\ MaxAttributes \in Nat \ {0}
  /\ MaxCopies \in Nat /\ N <= MaxCopies

VARIABLES st,         \* copy -> where it is
          orig,       \* copy -> the message it is a copy of
          rc,         \* copy -> its retry_count attribute
          attrs,      \* copy -> its user attributes
          succeeded,  \* messages whose handler succeeded (history)
          failures,   \* message -> failed handler runs (history)
          metric,     \* outcome -> copies the recorder counted for it
          faults      \* failed calls, lost answers and crashes still to come

vars == <<st, orig, rc, attrs, succeeded, failures, metric, faults>>

\* Where a copy is: not yet made; a pending schedule; in the queue; received;
\* in the handler; failed; settled, to be deleted; deleted; in the DLQ.
States == {"free", "scheduled", "visible", "inflight", "handling", "failed",
           "success", "retry", "deadletter", "gone", "dlq"}

Committing == {"success", "retry", "deadletter"}

\* Each message m is in the queue as copy m, as a producer sent it or as it
\* came back from the DLQ; the fields of a copy not yet made mean nothing.
Init ==
  /\ st = [c \in Copies |-> IF c <= N THEN "visible" ELSE "free"]
  /\ orig = [c \in Copies |-> IF c <= N THEN c ELSE 1]
  /\ \E s \in Starts : /\ rc = [c \in Copies |-> IF c <= N THEN s.counts[c] ELSE Absent]
                        /\ faults = s.faults
  /\ attrs = [c \in Copies |-> SentAttributes]
  /\ succeeded = {}
  /\ failures = [m \in Messages |-> 0]
  /\ metric = [k \in Committing |-> {}]

Fault == faults > 0 /\ faults' = faults - 1

\* parseRetryCount: 0 unless the attribute is a non-negative number.
ParseRetryCount(v) == IF v \in 0 .. MaxInt THEN v ELSE 0

\* current + 1 of processScheduled, in ints.
NextCount(c) ==
  LET n == ParseRetryCount(rc[c]) + 1 IN IF n > MaxInt THEN n - 2 * (MaxInt + 1) ELSE n

\* Mutant: two slots are reserved instead of one.
RetryAttributesShort(A) ==
  {B \in SUBSET A : Cardinality(B) = IF Cardinality(A) <= MaxAttributes - 2
                                       THEN Cardinality(A) ELSE MaxAttributes - 2}

\* buildRetryAttributes: retry_count takes one of the MaxAttributes slots, and
\* of a surplus any attributes go (map iteration order).
RetryAttributes(A) ==
  {B \in SUBSET A : Cardinality(B) = IF Cardinality(A) <= MaxAttributes - 1
                                       THEN Cardinality(A) ELSE MaxAttributes - 1}

\* buildDLQAttributes: the same cap, filled in key order.
DLQAttributes(A) ==
  {a \in A : Cardinality({b \in A : b < a}) < MaxAttributes - 1}

\* A new copy of the message of c comes into being at d.
Publish(c, d, A) ==
  /\ st[d] = "free"
  /\ \A e \in Copies : e < d => st[e] # "free"
  /\ orig' = [orig EXCEPT ![d] = orig[c]]
  /\ rc' = [rc EXCEPT ![d] = NextCount(c)]
  /\ attrs' = [attrs EXCEPT ![d] = A]

-----------------------------------------------------------------------------
(* The queue and the scheduler.                                             *)

Receive(c) ==
  /\ st[c] = "visible"
  /\ st' = [st EXCEPT ![c] = "handling"]
  /\ UNCHANGED <<orig, rc, attrs, succeeded, failures, metric, faults>>

\* The visibility timeout of a retained copy runs out.
Expire(c) ==
  /\ st[c] = "inflight"
  /\ st' = [st EXCEPT ![c] = "visible"]
  /\ UNCHANGED <<orig, rc, attrs, succeeded, failures, metric, faults>>

\* The fire time is reached: the scheduler sends the copy to the queue and
\* deletes the schedule (ActionAfterCompletion).
Fire(c) ==
  /\ st[c] = "scheduled"
  /\ st' = [st EXCEPT ![c] = "visible"]
  /\ UNCHANGED <<orig, rc, attrs, succeeded, failures, metric, faults>>

-----------------------------------------------------------------------------
(* processScheduled.                                                        *)

HandlerSucceeds(c) ==
  /\ st[c] = "handling"
  /\ st' = [st EXCEPT ![c] = "success"]
  /\ succeeded' = succeeded \cup {orig[c]}
  /\ UNCHANGED <<orig, rc, attrs, failures, metric, faults>>

\* The handler returned an error or asked for a backoff.
HandlerFails(c) ==
  /\ st[c] = "handling"
  /\ st' = [st EXCEPT ![c] = "failed"]
  /\ failures' = [failures EXCEPT ![orig[c]] = failures[orig[c]] + 1]
  /\ UNCHANGED <<orig, rc, attrs, succeeded, metric, faults>>

\* Mutant: the threshold is exclusive.
RetriesLeftExclusive(c) == NextCount(c) < MaxRetryCount

\* The decision of processScheduled between a retry and the DLQ.
RetriesLeft(c) == NextCount(c) <= MaxRetryCount

\* Mutant: the original is deleted although the schedule was not created.
ScheduleSwallowed(c, d, A) ==
  /\ st[c] = "failed"
  /\ RetriesLeft(c)
  /\ \/ /\ Publish(c, d, A)
        /\ st' = [st EXCEPT ![c] = "retry", ![d] = "scheduled"]
        /\ UNCHANGED faults
     \/ /\ Fault
        /\ st' = [st EXCEPT ![c] = "retry"]
        /\ UNCHANGED <<orig, rc, attrs>>
  /\ UNCHANGED <<succeeded, failures, metric>>

\* schedule: the one-time schedule is created and the original is to be
\* deleted; on an error, with the schedule created or not, it is retained.
Schedule(c, d, A) ==
  /\ st[c] = "failed"
  /\ RetriesLeft(c)
  /\ \/ /\ Publish(c, d, A)
        /\ \/ st' = [st EXCEPT ![c] = "retry", ![d] = "scheduled"] /\ UNCHANGED faults
           \/ st' = [st EXCEPT ![c] = "inflight", ![d] = "scheduled"] /\ Fault
     \/ /\ Fault
        /\ st' = [st EXCEPT ![c] = "inflight"]
        /\ UNCHANGED <<orig, rc, attrs>>
  /\ UNCHANGED <<succeeded, failures, metric>>

\* Mutant: a failed publish is taken for a dead letter.
DeadLetterSwallowed(c, d) ==
  /\ st[c] = "failed"
  /\ ~RetriesLeft(c)
  /\ \/ /\ Publish(c, d, DLQAttributes(attrs[c]))
        /\ st' = [st EXCEPT ![c] = "deadletter", ![d] = "dlq"]
        /\ UNCHANGED faults
     \/ /\ Fault
        /\ st' = [st EXCEPT ![c] = "deadletter"]
        /\ UNCHANGED <<orig, rc, attrs>>
  /\ UNCHANGED <<succeeded, failures, metric>>

\* publish: the same for the DLQ once the retries are used up.
DeadLetter(c, d) ==
  /\ st[c] = "failed"
  /\ ~RetriesLeft(c)
  /\ \/ /\ Publish(c, d, DLQAttributes(attrs[c]))
        /\ \/ st' = [st EXCEPT ![c] = "deadletter", ![d] = "dlq"] /\ UNCHANGED faults
           \/ st' = [st EXCEPT ![c] = "inflight", ![d] = "dlq"] /\ Fault
     \/ /\ Fault
        /\ st' = [st EXCEPT ![c] = "inflight"]
        /\ UNCHANGED <<orig, rc, attrs>>
  /\ UNCHANGED <<succeeded, failures, metric>>

\* emitMetric: the recorder counts the outcome of c; a panic in it is caught.
EmitMetric(c) == metric' = [metric EXCEPT ![st[c]] = metric[st[c]] \cup {c}]

\* Mutant: the delete is forgotten.
DeleteNever(c) ==
  /\ st[c] \in Committing
  /\ st' = [st EXCEPT ![c] = "inflight"]
  /\ EmitMetric(c)
  /\ UNCHANGED <<orig, rc, attrs, succeeded, failures, faults>>

\* deleteMessage, whose failure is logged only, then the metric of the outcome.
Delete(c) ==
  /\ st[c] \in Committing
  /\ \/ st' = [st EXCEPT ![c] = "gone"] /\ UNCHANGED faults
     \/ st' = [st EXCEPT ![c] = "inflight"] /\ Fault
  /\ EmitMetric(c)
  /\ UNCHANGED <<orig, rc, attrs, succeeded, failures>>

\* The process dies: what it was working on stays in the queue.
Crash ==
  /\ Fault
  /\ \E c \in Copies : st[c] \in {"handling", "failed"} \cup Committing
  /\ st' = [c \in Copies |-> IF st[c] \in {"handling", "failed"} \cup Committing
                               THEN "inflight" ELSE st[c]]
  /\ UNCHANGED <<orig, rc, attrs, succeeded, failures, metric>>

Process(c) ==
  \/ Receive(c)
  \/ HandlerSucceeds(c)
  \/ HandlerFails(c)
  \/ \E d \in Copies, A \in RetryAttributes(attrs[c]) : Schedule(c, d, A)
  \/ \E d \in Copies : DeadLetter(c, d)
  \/ Delete(c)

Live == {c \in Copies : st[c] \notin {"free", "gone", "dlq"}}

\* Every copy is deleted or in the DLQ.
Settled == Live = {} /\ UNCHANGED vars

Next ==
  \/ \E c \in Copies : Process(c) \/ Expire(c) \/ Fire(c)
  \/ Crash
  \/ Settled

Spec == Init /\ [][Next]_vars

\* The consumer polls and its workers run, schedules fire and visibility
\* timeouts run out.
Fairness == \A c \in Copies : WF_vars(Process(c)) /\ WF_vars(Expire(c)) /\ WF_vars(Fire(c))

FairSpec == Spec /\ Fairness

-----------------------------------------------------------------------------

\* Every variable has its type.
TypeOK ==
  /\ st \in [Copies -> States]
  /\ orig \in [Copies -> Messages]
  /\ rc \in [Copies -> Ints \cup {Absent, Malformed}]
  /\ attrs \in [Copies -> SUBSET SentAttributes]
  /\ succeeded \subseteq Messages
  /\ failures \in [Messages -> Nat]
  /\ metric \in [Committing -> SUBSET Copies]
  /\ faults \in Nat

\* "at-least-once": a message that has not been handled successfully is never
\* lost between the queue, a schedule and the DLQ, whatever call fails and
\* whenever the process dies.
NoLoss ==
  \A m \in Messages :
    m \in succeeded \/ \E c \in Copies : orig[c] = m /\ st[c] \notin {"free", "gone"}

\* The count m came with, and the failures that dead-letter it: those left of
\* the budget, one if there are none left; a count of MaxInt wraps, is taken
\* for malformed the next time and so starts the budget over.
Sent(m) == ParseRetryCount(rc[m])

Budget(m) ==
  CASE Sent(m) = MaxInt -> MaxRetryCount + 2
    [] Sent(m) <= MaxRetryCount -> MaxRetryCount + 1 - Sent(m)
    [] OTHER -> 1

\* A message is dead-lettered only after its handler failed as often as its
\* budget says, and no copy is retried beyond MaxRetryCount or with a count that
\* did not grow: duplicates made by failed deletes and lost answers, a message
\* put back from the DLQ and a count at the edge of the ints never shorten or
\* lengthen a retry chain.
RetryBudget ==
  \A c \in Copies :
    /\ st[c] = "dlq" => rc[c] > MaxRetryCount /\ failures[orig[c]] >= Budget(orig[c])
    /\ c > N /\ st[c] \notin {"free", "dlq"} =>
         /\ rc[c] <= MaxRetryCount
         /\ Sent(orig[c]) < MaxInt => rc[c] > Sent(orig[c])

\* With room for retry_count beside them, the user attributes of a message
\* survive every retry and reach the DLQ.
AttributesKept ==
  Cardinality(SentAttributes) < MaxAttributes =>
    \A c \in Copies : st[c] # "free" => attrs[c] = SentAttributes

\* The outcome counters do not claim what did not happen: a counted success was
\* handled, behind a counted retry is a copy with the next retry_count, and
\* behind a counted dead letter a message in the DLQ.
MetricsTruthful ==
  /\ \A c \in metric["success"] : orig[c] \in succeeded
  /\ \A c \in metric["retry"] :
       \E d \in Copies : d # c /\ st[d] # "free" /\ orig[d] = orig[c] /\ rc[d] = NextCount(c)
  /\ \A c \in metric["deadletter"] : \E d \in Copies : orig[d] = orig[c] /\ st[d] = "dlq"

\* Every message is resolved: once the faults stop, it was handled or
\* dead-lettered and no copy of it is left in the queue or the scheduler.
Resolved ==
  <>[](/\ Live = {}
       /\ \A m \in Messages : m \in succeeded \/ \E c \in Copies : orig[c] = m /\ st[c] = "dlq")

=============================================================================
