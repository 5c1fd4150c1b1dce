------------------------ MODULE ScheduledRetryProofs ------------------------
(***************************************************************************)
(* The safety of the Scheduled Retry model for any number of messages and  *)
(* copies, any MaxRetryCount and width of the ints, and any faults; then   *)
(* computeBackoff and scheduleAt, which time a retry: for every argument   *)
(* the loop stays within its bounds and returns what the closed formula    *)
(* says, and the fire time is at most a second early and never late.       *)
(***************************************************************************)
EXTENDS ScheduledRetry, RetryBackoff, FiniteSetTheorems, WellFoundedInduction, TLAPS

\* Copies 1..N are the messages as they were sent; none of them is in the DLQ,
\* where processScheduled always puts a new copy.
Numbered == \A m \in Messages : st[m] \notin {"free", "dlq"} /\ orig[m] = m

\* A message not handled has a copy that is not even about to be deleted.
Retained ==
  \A m \in Messages :
    m \in succeeded \/ \E c \in Copies : orig[c] = m /\ st[c] \notin {"free", "gone"} \cup Committing

\* The message, schedule or dead letter a settled copy leaves behind it.
RetryBehind(c) ==
  \E d \in Copies : d # c /\ st[d] # "free" /\ orig[d] = orig[c] /\ rc[d] = NextCount(c)

LetterBehind(c) == \E d \in Copies : orig[d] = orig[c] /\ st[d] = "dlq"

\* What is to be deleted, and what was counted, is what it seems.
OutcomesTrue ==
  \A c \in Copies :
    /\ st[c] = "success" \/ c \in metric["success"] => orig[c] \in succeeded
    /\ st[c] = "retry" \/ c \in metric["retry"] => RetryBehind(c)
    /\ st[c] = "deadletter" \/ c \in metric["deadletter"] => LetterBehind(c)
    /\ st[c] = "free" => \A k \in Committing : c \notin metric[k]

\* The retry_count of a later copy: it grew from the one the message came with,
\* or wrapped at MaxInt, and tells the DLQ from the queue.
CountsGrow ==
  \A c \in Copies \ Messages : st[c] # "free" =>
    /\ rc[c] \in Ints
    /\ IF Sent(orig[c]) = MaxInt THEN rc[c] = -(MaxInt + 1) \/ rc[c] >= 1
                                 ELSE rc[c] > Sent(orig[c])
    /\ st[c] = "dlq" <=> rc[c] > MaxRetryCount

\* How many failures of m a copy with count v, or the copy c, stands for.
DepthAt(m, v) ==
  IF Sent(m) # MaxInt THEN v - Sent(m) ELSE IF v < 0 THEN 1 ELSE v + 1

Depth(c) == IF c \in Messages THEN 0 ELSE DepthAt(orig[c], rc[c])

\* Every copy stands for no more failures than there were; a copy whose handler
\* failed has had one more.
FailuresSpent ==
  \A c \in Copies : st[c] # "free" =>
    failures[orig[c]] >= Depth(c) + IF st[c] = "failed" THEN 1 ELSE 0

\* Attributes are lost only to the cap.
AttributesHeld ==
  Cardinality(SentAttributes) < MaxAttributes =>
    \A c \in Copies : st[c] # "free" => attrs[c] = SentAttributes

\* The inductive invariant.
Inv ==
  /\ TypeOK
  /\ Numbered
  /\ Retained
  /\ OutcomesTrue
  /\ CountsGrow
  /\ FailuresSpent
  /\ AttributesHeld

-----------------------------------------------------------------------------
(* Counts and attributes.                                                   *)

\* parseRetryCount yields a non-negative int, whatever the attribute is.
LEMMA ParseType ==
  ASSUME NEW v \in Ints \cup {Absent, Malformed}
  PROVE  /\ ParseRetryCount(v) \in 0 .. MaxInt
         /\ v \in 0 .. MaxInt => ParseRetryCount(v) = v
BY RetryAssumption DEF ParseRetryCount

\* What a copy stands for is a number.
LEMMA DepthType ==
  ASSUME TypeOK, CountsGrow, NEW c \in Copies, st[c] # "free"
  PROVE  Depth(c) \in Int
<1>1. MaxInt \in Nat /\ orig[c] \in Messages /\ rc[orig[c]] \in Ints \cup {Absent, Malformed}
  BY RetryAssumption DEF TypeOK, Messages, Copies
<1>2. Sent(orig[c]) \in 0 .. MaxInt
  BY <1>1, ParseType DEF Sent
<1>3. c \notin Messages => rc[c] \in Ints
  BY DEF CountsGrow
<1> QED
  BY <1>1, <1>2, <1>3 DEF Depth, DepthAt, Ints

\* The count of the copy that processScheduled publishes for a failed copy: it
\* grew or wrapped, and stands for one failure more.
LEMMA NextCountGrows ==
  ASSUME TypeOK, Numbered, CountsGrow, NEW c \in Copies, st[c] = "failed"
  PROVE  /\ NextCount(c) \in Ints
         /\ IF Sent(orig[c]) = MaxInt THEN NextCount(c) = -(MaxInt + 1) \/ NextCount(c) >= 1
                                      ELSE NextCount(c) > Sent(orig[c])
         /\ Depth(c) \in Int
         /\ DepthAt(orig[c], NextCount(c)) = Depth(c) + 1
<1> DEFINE n == NextCount(c)
           p == ParseRetryCount(rc[c])
           z == Sent(orig[c])
<1>1. MaxInt \in Nat /\ MaxRetryCount \in Nat /\ MaxRetryCount < MaxInt
  BY RetryAssumption
<1>2. rc[c] \in Ints \cup {Absent, Malformed}
  BY DEF TypeOK
<1>3. orig[c] \in Messages /\ rc[orig[c]] \in Ints \cup {Absent, Malformed}
  BY RetryAssumption DEF TypeOK, Messages, Copies
<1>4. p \in 0 .. MaxInt /\ z \in 0 .. MaxInt
  BY <1>2, <1>3, ParseType DEF Sent
<1>5. n = IF p = MaxInt THEN -(MaxInt + 1) ELSE p + 1
  BY <1>1, <1>4 DEF NextCount
<1>6. n \in Ints
  BY <1>1, <1>4, <1>5 DEF Ints
<1>7. CASE c \in Messages
  <2>1. p = z /\ Depth(c) = 0
    BY <1>7 DEF Numbered, Sent, Depth
  <2> QED
    BY <1>1, <1>4, <1>5, <1>6, <2>1 DEF DepthAt
<1>8. CASE c \notin Messages
  <2>1. /\ rc[c] \in Ints /\ rc[c] <= MaxRetryCount
        /\ IF z = MaxInt THEN rc[c] = -(MaxInt + 1) \/ rc[c] >= 1 ELSE rc[c] > z
    BY <1>1, <1>8 DEF CountsGrow, Ints
  <2>2. Depth(c) = DepthAt(orig[c], rc[c])
    BY <1>8 DEF Depth
  <2>3. n = IF rc[c] < 0 THEN 1 ELSE rc[c] + 1
    BY <1>1, <1>4, <1>5, <2>1 DEF ParseRetryCount, Ints
  <2> QED
    BY <1>1, <1>4, <1>6, <2>1, <2>2, <2>3 DEF DepthAt, Ints
<1> QED
  BY <1>7, <1>8

\* With room beside them, buildRetryAttributes and buildDLQAttributes drop
\* nothing.
LEMMA AttributesFit ==
  ASSUME Cardinality(SentAttributes) < MaxAttributes
  PROVE  /\ \A A \in RetryAttributes(SentAttributes) : A = SentAttributes
         /\ DLQAttributes(SentAttributes) = SentAttributes
<1> DEFINE S == SentAttributes
<1>1. /\ IsFiniteSet(S) /\ S \subseteq Nat /\ Cardinality(S) \in Nat
      /\ MaxAttributes \in Nat \ {0}
  BY RetryAssumption, FS_CardinalityType
<1>2. Cardinality(S) <= MaxAttributes - 1
  BY <1>1
<1>3. ASSUME NEW A \in RetryAttributes(S) PROVE A = S
  <2>1. A \subseteq S /\ Cardinality(A) = Cardinality(S)
    BY <1>2 DEF RetryAttributes
  <2> QED
    BY <1>1, <2>1, FS_Subset
<1>4. ASSUME NEW a \in S PROVE Cardinality({b \in S : b < a}) < MaxAttributes - 1
  <2> DEFINE B == {b \in S : b < a}
  <2>1. B \subseteq S \ {a}
    BY <1>1
  <2>2. IsFiniteSet(S \ {a}) /\ Cardinality(S \ {a}) = Cardinality(S) - 1
    BY <1>1, FS_RemoveElement
  <2>3. Cardinality(B) <= Cardinality(S \ {a}) /\ IsFiniteSet(B)
    <3> HIDE DEF B
    <3> QED
      BY <2>1, <2>2, FS_Subset
  <2>4. Cardinality(B) \in Nat
    <3> HIDE DEF B
    <3> QED
      BY <2>3, FS_CardinalityType
  <2> QED
    BY <1>1, <1>2, <2>2, <2>3, <2>4
<1>5. DLQAttributes(S) = S
  BY <1>4 DEF DLQAttributes
<1> QED
  BY <1>3, <1>5

-----------------------------------------------------------------------------
(* The three ways in which a step changes the copies.                       *)

\* Every initial state satisfies the invariant.
LEMMA InitInv == Init => Inv
<1> SUFFICES ASSUME Init PROVE Inv
  OBVIOUS
<1>1. /\ N \in Nat \ {0} /\ MaxCopies \in Nat /\ N <= MaxCopies
      /\ \A m \in Messages : m \in Copies /\ m <= N
      /\ \A c \in Copies : c \in Messages <=> c <= N
  BY RetryAssumption DEF Messages, Copies
<1>2. /\ st = [c \in Copies |-> IF c <= N THEN "visible" ELSE "free"]
      /\ orig = [c \in Copies |-> IF c <= N THEN c ELSE 1]
      /\ attrs = [c \in Copies |-> SentAttributes]
      /\ succeeded = {}
      /\ failures = [m \in Messages |-> 0]
      /\ metric = [k \in Committing |-> {}]
  BY DEF Init
<1>3. rc \in [Copies -> Ints \cup {Absent, Malformed}] /\ faults \in Nat
  BY <1>1, RetryAssumption DEF Init
<1>4. 1 \in Messages
  BY <1>1 DEF Messages
<1>5. TypeOK
  BY <1>1, <1>2, <1>3, <1>4 DEF TypeOK, States
<1>6. Numbered
  BY <1>1, <1>2 DEF Numbered
<1>7. Retained
  BY <1>1, <1>2 DEF Retained, Committing
<1>8. OutcomesTrue
  BY <1>2 DEF OutcomesTrue, Committing
<1>9. CountsGrow
  BY <1>1, <1>2 DEF CountsGrow
<1>10. FailuresSpent
  BY <1>1, <1>2, <1>4 DEF FailuresSpent, Depth
<1>11. AttributesHeld
  BY <1>2 DEF AttributesHeld
<1> QED
  BY <1>5, <1>6, <1>7, <1>8, <1>9, <1>10, <1>11 DEF Inv

\* The data of the copies there are never changes, so what a settled copy left
\* behind stays there.
DataKept ==
  \A c \in Copies : st[c] # "free" =>
    st'[c] # "free" /\ orig'[c] = orig[c] /\ rc'[c] = rc[c] /\ attrs'[c] = attrs[c]

\* The copies a message was sent as and the number of its retries stay the same.
LEMMA DepthKept ==
  ASSUME TypeOK, Numbered, DataKept
  PROVE  /\ \A m \in Messages : Sent(m)' = Sent(m)
         /\ \A m \in Messages : \A v : DepthAt(m, v)' = DepthAt(m, v)
         /\ \A c \in Copies : st[c] # "free" => Depth(c)' = Depth(c) /\ NextCount(c)' = NextCount(c)
         /\ \A c \in Copies : st[c] # "free" /\ RetryBehind(c) => RetryBehind(c)'
<1>1. \A m \in Messages : m \in Copies
  BY RetryAssumption DEF Messages, Copies
<1>2. \A m \in Messages : rc'[m] = rc[m]
  BY <1>1 DEF Numbered, DataKept
<1>3. \A m \in Messages : Sent(m)' = Sent(m)
  BY <1>2 DEF Sent
<1>4. \A m \in Messages : \A v : DepthAt(m, v)' = DepthAt(m, v)
  BY <1>3 DEF DepthAt
<1>5. ASSUME NEW c \in Copies, st[c] # "free"
      PROVE  Depth(c)' = Depth(c) /\ NextCount(c)' = NextCount(c)
  <2>1. orig'[c] = orig[c] /\ rc'[c] = rc[c] /\ orig[c] \in Messages
    BY <1>5 DEF DataKept, TypeOK
  <2>2. Sent(orig[c])' = Sent(orig[c])
    BY <1>2, <2>1 DEF Sent
  <2> QED
    BY <2>1, <2>2 DEF Depth, DepthAt, NextCount
<1>6. ASSUME NEW c \in Copies, st[c] # "free", RetryBehind(c) PROVE RetryBehind(c)'
  <2>1. PICK d \in Copies : d # c /\ st[d] # "free" /\ orig[d] = orig[c] /\ rc[d] = NextCount(c)
    BY <1>6 DEF RetryBehind
  <2>2. /\ st'[d] # "free" /\ orig'[d] = orig[d] /\ rc'[d] = rc[d]
        /\ orig'[c] = orig[c] /\ NextCount(c)' = NextCount(c)
    BY <1>5, <1>6, <2>1 DEF DataKept
  <2> QED
    BY <2>1, <2>2 DEF RetryBehind
<1> QED
  BY <1>3, <1>4, <1>5, <1>6

\* A copy moves on and no copy comes into being: a receive, an expiry, a firing
\* schedule, a handler's end, a failed call, a delete with its metric.
LEMMA MoveStep ==
  ASSUME Inv, NEW c \in Copies, NEW t \in States \ {"free", "dlq", "retry", "deadletter"},
         st[c] \notin {"free", "dlq"},
         st' = [st EXCEPT ![c] = t],
         UNCHANGED <<orig, rc, attrs>>,
         succeeded \subseteq succeeded', succeeded' \subseteq Messages,
         failures' \in [Messages -> Nat],
         \A m \in Messages : failures'[m] >= failures[m],
         metric' \in [Committing -> SUBSET Copies],
         \A k \in Committing :
           metric'[k] \subseteq metric[k] \cup (IF k = st[c] THEN {c} ELSE {}),
         faults' \in Nat,
         t = "success" => orig[c] \in succeeded',
         t = "gone" => st[c] \in Committing,
         t = "failed" => failures'[orig[c]] = failures[orig[c]] + 1
  PROVE  Inv'
<1> USE DEF Inv
<1>1. /\ st'[c] = t
      /\ \A e \in Copies \ {c} : st'[e] = st[e]
      /\ orig' = orig /\ rc' = rc /\ attrs' = attrs
  BY DEF TypeOK
<1>2. DataKept
  BY <1>1 DEF DataKept
<1>3. TypeOK'
  BY <1>1 DEF TypeOK
<1>4. Numbered'
  BY <1>1 DEF Numbered
<1>5. Retained'
  <2> SUFFICES ASSUME NEW m \in Messages, m \notin succeeded'
               PROVE  \E e \in Copies : orig[e] = m /\ st'[e] \notin {"free", "gone"} \cup Committing
    BY <1>1 DEF Retained
  <2>1. PICK e \in Copies : orig[e] = m /\ st[e] \notin {"free", "gone"} \cup Committing
    BY DEF Retained
  <2>2. e = c => t \notin {"free", "gone"} \cup Committing
    BY <2>1 DEF Committing
  <2> QED
    BY <1>1, <2>1, <2>2
<1>6. OutcomesTrue'
  <2> SUFFICES ASSUME NEW e \in Copies
               PROVE  /\ st'[e] = "success" \/ e \in metric'["success"] => orig'[e] \in succeeded'
                      /\ st'[e] = "retry" \/ e \in metric'["retry"] => RetryBehind(e)'
                      /\ st'[e] = "deadletter" \/ e \in metric'["deadletter"] => LetterBehind(e)'
                      /\ st'[e] = "free" => \A k \in Committing : e \notin metric'[k]
    BY DEF OutcomesTrue
  <2>1. /\ e \in metric'["success"] => e \in metric["success"] \/ st[e] = "success"
        /\ e \in metric'["retry"] => e \in metric["retry"] \/ st[e] = "retry"
        /\ e \in metric'["deadletter"] => e \in metric["deadletter"] \/ st[e] = "deadletter"
    BY DEF Committing
  <2>2. /\ st'[e] = "success" => orig[e] \in succeeded'
        /\ st'[e] \in {"retry", "deadletter"} => st'[e] = st[e]
    BY <1>1 DEF OutcomesTrue
  <2>3. st[e] = "free" => e \notin metric["retry"]
    BY DEF OutcomesTrue, Committing
  <2>4. RetryBehind(e) /\ st[e] # "free" => RetryBehind(e)'
    BY <1>2, DepthKept
  <2>5. LetterBehind(e) => LetterBehind(e)'
    BY <1>1 DEF LetterBehind
  <2>6. st'[e] = "free" => \A k \in Committing : e \notin metric'[k]
    BY <1>1 DEF OutcomesTrue, Committing
  <2> QED
    BY <1>1, <2>1, <2>2, <2>3, <2>4, <2>5, <2>6 DEF OutcomesTrue
<1>7. CountsGrow'
  <2>1. \A m \in Messages : Sent(m)' = Sent(m)
    BY <1>2, DepthKept
  <2> SUFFICES ASSUME NEW e \in Copies \ Messages, st'[e] # "free"
               PROVE  /\ rc'[e] \in Ints
                      /\ IF Sent(orig[e]) = MaxInt THEN rc[e] = -(MaxInt + 1) \/ rc[e] >= 1
                                                  ELSE rc[e] > Sent(orig[e])
                      /\ st'[e] = "dlq" <=> rc[e] > MaxRetryCount
    BY <1>1, <2>1 DEF CountsGrow, TypeOK
  <2>2. st[e] # "free" /\ (st'[e] = "dlq" <=> st[e] = "dlq")
    BY <1>1
  <2> QED
    BY <1>1, <2>2 DEF CountsGrow
<1>8. FailuresSpent'
  <2> SUFFICES ASSUME NEW e \in Copies, st'[e] # "free"
               PROVE  failures'[orig[e]] >= Depth(e)' + IF st'[e] = "failed" THEN 1 ELSE 0
    BY <1>1 DEF FailuresSpent
  <2>1. st[e] # "free" /\ orig[e] \in Messages
    BY <1>1 DEF TypeOK
  <2>2. Depth(e)' = Depth(e)
    BY <1>2, <2>1, DepthKept
  <2>3. Depth(e) \in Int
    BY <2>1, DepthType
  <2>4. failures[orig[e]] \in Nat /\ failures'[orig[e]] \in Nat /\ failures'[orig[e]] >= failures[orig[e]]
    BY <2>1 DEF TypeOK
  <2>5. failures[orig[e]] >= Depth(e) + IF st[e] = "failed" THEN 1 ELSE 0
    BY <2>1 DEF FailuresSpent
  <2>6. st'[e] = "failed" => st[e] = "failed" \/ failures'[orig[e]] = failures[orig[e]] + 1
    BY <1>1
  <2> QED
    BY <2>2, <2>3, <2>4, <2>5, <2>6
<1>9. AttributesHeld'
  BY <1>1 DEF AttributesHeld
<1> QED
  BY <1>3, <1>4, <1>5, <1>6, <1>7, <1>8, <1>9

\* A new copy comes into being at u, and the failed copy goes to t: the schedule
\* or the DLQ message was made, whether the answer arrived or not.
LEMMA PublishStep ==
  ASSUME Inv, NEW c \in Copies, NEW d \in Copies, NEW A \in SUBSET attrs[c],
         NEW t \in {"retry", "deadletter", "inflight"}, NEW u \in {"scheduled", "dlq"},
         st[c] = "failed", Publish(c, d, A),
         st' = [st EXCEPT ![c] = t, ![d] = u],
         UNCHANGED <<succeeded, failures, metric>>, faults' \in Nat,
         u = "dlq" <=> ~RetriesLeft(c),
         t = "retry" => u = "scheduled",
         t = "deadletter" => u = "dlq",
         Cardinality(SentAttributes) < MaxAttributes /\ attrs[c] = SentAttributes => A = SentAttributes
  PROVE  Inv'
<1> USE DEF Inv
<1> DEFINE n == NextCount(c)
<1>1. /\ st[d] = "free" /\ d # c
      /\ orig' = [orig EXCEPT ![d] = orig[c]]
      /\ rc' = [rc EXCEPT ![d] = n]
      /\ attrs' = [attrs EXCEPT ![d] = A]
  BY DEF Publish
<1>2. /\ st'[c] = t /\ st'[d] = u
      /\ orig'[d] = orig[c] /\ rc'[d] = n /\ attrs'[d] = A
      /\ \A e \in Copies \ {c, d} : st'[e] = st[e]
      /\ \A e \in Copies \ {d} : orig'[e] = orig[e] /\ rc'[e] = rc[e] /\ attrs'[e] = attrs[e]
  BY <1>1 DEF TypeOK
<1>3. DataKept
  BY <1>1, <1>2 DEF DataKept
<1>4. \A m \in Messages : m \in Copies /\ m # d
  BY <1>1, RetryAssumption DEF Numbered, Messages, Copies
<1>5. /\ n \in Ints
      /\ IF Sent(orig[c]) = MaxInt THEN n = -(MaxInt + 1) \/ n >= 1 ELSE n > Sent(orig[c])
      /\ Depth(c) \in Int
      /\ DepthAt(orig[c], n) = Depth(c) + 1
  BY NextCountGrows
<1>6. orig[c] \in Messages
  BY DEF TypeOK
<1>7. TypeOK'
  BY <1>1, <1>5, <1>6 DEF TypeOK, States
<1>8. Numbered'
  BY <1>2, <1>4 DEF Numbered
<1>9. Retained'
  <2> SUFFICES ASSUME NEW m \in Messages, m \notin succeeded
               PROVE  \E e \in Copies : orig'[e] = m /\ st'[e] \notin {"free", "gone"} \cup Committing
    BY DEF Retained
  <2>1. PICK e \in Copies : orig[e] = m /\ st[e] \notin {"free", "gone"} \cup Committing
    BY DEF Retained
  <2>2. e # d
    BY <1>1, <2>1
  <2>3. CASE e = c
    BY <1>2, <2>1, <2>3 DEF Committing
  <2>4. CASE e # c
    BY <1>2, <2>1, <2>2, <2>4
  <2> QED
    BY <2>3, <2>4
<1>10. OutcomesTrue'
  <2> SUFFICES ASSUME NEW e \in Copies
               PROVE  /\ st'[e] = "success" \/ e \in metric["success"] => orig'[e] \in succeeded
                      /\ st'[e] = "retry" \/ e \in metric["retry"] => RetryBehind(e)'
                      /\ st'[e] = "deadletter" \/ e \in metric["deadletter"] => LetterBehind(e)'
                      /\ st'[e] = "free" => \A k \in Committing : e \notin metric[k]
    BY DEF OutcomesTrue
  <2>1. RetryBehind(e) /\ st[e] # "free" => RetryBehind(e)'
    BY <1>3, DepthKept
  <2>2. LetterBehind(e) /\ st[e] # "free" => LetterBehind(e)'
    BY <1>1, <1>2 DEF LetterBehind
  <2>3. CASE e = d
    <3>1. d \notin metric["success"] /\ d \notin metric["retry"] /\ d \notin metric["deadletter"]
      BY <1>1 DEF OutcomesTrue, Committing
    <3>2. st'[d] \notin {"success", "retry", "deadletter", "free"}
      BY <1>2
    <3> QED
      BY <2>3, <3>1, <3>2
  <2>4. CASE e = c
    <3>1. t = "retry" => RetryBehind(c)'
      <4>1. NextCount(c)' = n
        BY <1>3, DepthKept
      <4> QED
        BY <1>1, <1>2, <4>1 DEF RetryBehind
    <3>2. t = "deadletter" => LetterBehind(c)'
      BY <1>1, <1>2 DEF LetterBehind
    <3> QED
      BY <1>1, <1>2, <2>1, <2>2, <2>4, <3>1, <3>2 DEF OutcomesTrue, Committing
  <2>5. CASE e \notin {c, d}
    BY <1>2, <2>1, <2>2, <2>5 DEF OutcomesTrue, Committing
  <2> QED
    BY <2>3, <2>4, <2>5
<1>11. CountsGrow'
  <2>1. \A m \in Messages : Sent(m)' = Sent(m)
    BY <1>3, DepthKept
  <2> SUFFICES ASSUME NEW e \in Copies \ Messages, st'[e] # "free"
               PROVE  /\ rc'[e] \in Ints
                      /\ IF Sent(orig'[e]) = MaxInt THEN rc'[e] = -(MaxInt + 1) \/ rc'[e] >= 1
                                                   ELSE rc'[e] > Sent(orig'[e])
                      /\ st'[e] = "dlq" <=> rc'[e] > MaxRetryCount
    BY <1>7, <2>1 DEF CountsGrow, TypeOK
  <2>2. MaxRetryCount \in Nat /\ MaxInt \in Nat
    BY RetryAssumption
  <2>3. CASE e = d
    BY <1>2, <1>5, <2>2, <2>3 DEF RetriesLeft, Ints
  <2>4. CASE e # d
    BY <1>1, <1>2, <2>4 DEF CountsGrow
  <2> QED
    BY <2>3, <2>4
<1>12. FailuresSpent'
  <2> SUFFICES ASSUME NEW e \in Copies, st'[e] # "free"
               PROVE  failures[orig'[e]] >= Depth(e)' + IF st'[e] = "failed" THEN 1 ELSE 0
    BY DEF FailuresSpent
  <2>1. CASE e = d
    <3>1. failures[orig[c]] \in Nat /\ failures[orig[c]] >= Depth(c) + 1
      BY <1>6 DEF FailuresSpent, TypeOK
    <3>2. Depth(d)' = Depth(c) + 1
      <4>1. Sent(orig[c])' = Sent(orig[c]) /\ orig'[c] = orig[c]
        BY <1>1, <1>2, <1>3, <1>6, DepthKept
      <4>2. d \notin Messages
        BY <1>4
      <4>3. Sent(orig[d])' = Sent(orig[c])
        BY <1>2, <1>3, <1>6, DepthKept DEF Sent
      <4>4. Depth(d)' = DepthAt(orig[c], n)
        BY <1>2, <4>2, <4>3 DEF Depth, DepthAt
      <4> QED
        BY <1>5, <4>4
    <3> QED
      BY <1>2, <1>5, <2>1, <3>1, <3>2
  <2>2. CASE e # d
    <3>1. st[e] # "free" /\ orig'[e] = orig[e] /\ (st'[e] = "failed" => st[e] = "failed")
      BY <1>2, <2>2
    <3>2. Depth(e)' = Depth(e) /\ Depth(e) \in Int
      BY <1>3, <3>1, DepthKept, DepthType
    <3>3. failures[orig[e]] \in Nat
      BY DEF TypeOK
    <3>4. failures[orig[e]] >= Depth(e) + IF st[e] = "failed" THEN 1 ELSE 0
      BY <3>1 DEF FailuresSpent
    <3> QED
      BY <3>1, <3>2, <3>3, <3>4
  <2> QED
    BY <2>1, <2>2
<1>13. AttributesHeld'
  BY <1>1, <1>2 DEF AttributesHeld
<1> QED
  BY <1>7, <1>8, <1>9, <1>10, <1>11, <1>12, <1>13

\* What a dead process was working on is in the queue as it was.
LEMMA CrashStep ==
  ASSUME Inv, Crash
  PROVE  Inv'
<1> USE DEF Inv
<1> DEFINE back(c) == st[c] \in {"handling", "failed"} \cup Committing
<1>1. /\ UNCHANGED <<orig, rc, attrs, succeeded, failures, metric>>
      /\ st' = [c \in Copies |-> IF back(c) THEN "inflight" ELSE st[c]]
      /\ faults' \in Nat
  BY DEF Crash, Fault, TypeOK
<1>2. \A c \in Copies : /\ back(c) => st'[c] = "inflight" /\ st[c] \notin {"free", "dlq", "gone"}
                        /\ ~back(c) => st'[c] = st[c]
  BY <1>1 DEF Committing
<1>3. \A c \in Copies : /\ st'[c] = "free" <=> st[c] = "free"
                        /\ st'[c] = "dlq" <=> st[c] = "dlq"
                        /\ st'[c] \notin {"failed"} \cup Committing
                        /\ st'[c] = "gone" <=> st[c] = "gone"
  <2> SUFFICES ASSUME NEW c \in Copies
               PROVE  /\ st'[c] = "free" <=> st[c] = "free"
                      /\ st'[c] = "dlq" <=> st[c] = "dlq"
                      /\ st'[c] \notin {"failed"} \cup Committing
                      /\ st'[c] = "gone" <=> st[c] = "gone"
    OBVIOUS
  <2>1. CASE back(c)
    BY <1>2, <2>1 DEF Committing
  <2>2. CASE ~back(c)
    BY <1>2, <2>2
  <2> QED
    BY <2>1, <2>2
<1>4. DataKept
  BY <1>1, <1>3 DEF DataKept
<1>5. TypeOK'
  <2>1. st' \in [Copies -> States]
    BY <1>1 DEF TypeOK, States
  <2> QED
    BY <1>1, <2>1 DEF TypeOK
<1>6. Numbered'
  <2>1. \A m \in Messages : m \in Copies
    BY RetryAssumption DEF Messages, Copies
  <2> QED
    BY <1>1, <1>3, <2>1 DEF Numbered
<1>7. Retained'
  BY <1>1, <1>3 DEF Retained, Committing
<1>8. OutcomesTrue'
  <2>1. \A c \in Copies : RetryBehind(c) /\ st[c] # "free" => RetryBehind(c)'
    BY <1>4, DepthKept
  <2>2. \A c \in Copies : LetterBehind(c) => LetterBehind(c)'
    BY <1>1, <1>3 DEF LetterBehind
  <2> QED
    BY <1>1, <1>3, <2>1, <2>2 DEF OutcomesTrue, Committing
<1>9. CountsGrow'
  <2>1. \A m \in Messages : Sent(m)' = Sent(m)
    BY <1>4, DepthKept
  <2> QED
    BY <1>1, <1>3, <2>1 DEF CountsGrow, TypeOK
<1>10. FailuresSpent'
  <2> SUFFICES ASSUME NEW e \in Copies, st'[e] # "free"
               PROVE  failures[orig[e]] >= Depth(e)' + IF st'[e] = "failed" THEN 1 ELSE 0
    BY <1>1 DEF FailuresSpent
  <2>1. st[e] # "free"
    BY <1>3
  <2>2. Depth(e)' = Depth(e) /\ Depth(e) \in Int /\ failures[orig[e]] \in Nat
    BY <1>4, <2>1, DepthKept, DepthType DEF TypeOK
  <2>3. failures[orig[e]] >= Depth(e) + IF st[e] = "failed" THEN 1 ELSE 0
    BY <2>1 DEF FailuresSpent
  <2> QED
    BY <1>3, <2>2, <2>3
<1>11. AttributesHeld'
  BY <1>1, <1>3 DEF AttributesHeld
<1> QED
  BY <1>5, <1>6, <1>7, <1>8, <1>9, <1>10, <1>11

-----------------------------------------------------------------------------

\* processScheduled, with its calls that fail and answers that are lost.
LEMMA ProcessStep ==
  ASSUME Inv, NEW c \in Copies, Process(c)
  PROVE  Inv'
<1>1. /\ st[c] \in States /\ orig[c] \in Messages
      /\ succeeded \subseteq Messages /\ faults \in Nat
      /\ metric \in [Committing -> SUBSET Copies]
      /\ failures \in [Messages -> Nat]
      /\ \A m \in Messages : failures[m] >= failures[m]
  BY DEF Inv, TypeOK
<1>2. CASE Receive(c)
  <2>1. /\ st[c] = "visible" /\ st' = [st EXCEPT ![c] = "handling"]
        /\ UNCHANGED <<orig, rc, attrs, succeeded, failures, metric, faults>>
    BY <1>2 DEF Receive
  <2> QED
    BY <1>1, <2>1, MoveStep DEF States
<1>3. CASE HandlerSucceeds(c)
  <2>1. /\ st[c] = "handling" /\ st' = [st EXCEPT ![c] = "success"]
        /\ succeeded' = succeeded \cup {orig[c]}
        /\ UNCHANGED <<orig, rc, attrs, failures, metric, faults>>
    BY <1>3 DEF HandlerSucceeds
  <2> QED
    BY <1>1, <2>1, MoveStep DEF States
<1>4. CASE HandlerFails(c)
  <2>1. /\ failures' \in [Messages -> Nat]
        /\ failures'[orig[c]] = failures[orig[c]] + 1
        /\ \A m \in Messages : failures'[m] >= failures[m]
    BY <1>1, <1>4 DEF HandlerFails
  <2> QED
    BY <1>1, <1>4, <2>1, MoveStep DEF HandlerFails, States
<1>5. ASSUME st[c] = "failed", Fault, st' = [st EXCEPT ![c] = "inflight"],
             UNCHANGED <<orig, rc, attrs, succeeded, failures, metric>>
      PROVE  Inv'
  <2>1. faults' \in Nat
    BY <1>1, <1>5 DEF Fault
  <2> QED
    BY <1>1, <1>5, <2>1, MoveStep DEF States
<1>6. ASSUME NEW d \in Copies, NEW A \in RetryAttributes(attrs[c]), Schedule(c, d, A)
      PROVE  Inv'
  <2>1. /\ A \in SUBSET attrs[c]
        /\ Cardinality(SentAttributes) < MaxAttributes /\ attrs[c] = SentAttributes =>
             A = SentAttributes
    BY AttributesFit DEF RetryAttributes
  <2>2. st[c] = "failed" /\ RetriesLeft(c) /\ UNCHANGED <<succeeded, failures, metric>>
    BY <1>6 DEF Schedule
  <2>3. CASE Publish(c, d, A) /\ st' = [st EXCEPT ![c] = "retry", ![d] = "scheduled"] /\ faults' = faults
    BY <1>1, <2>1, <2>2, <2>3, PublishStep
  <2>4. CASE Publish(c, d, A) /\ st' = [st EXCEPT ![c] = "inflight", ![d] = "scheduled"] /\ Fault
    <3>1. faults' \in Nat
      BY <1>1, <2>4 DEF Fault
    <3> QED
      BY <2>1, <2>2, <2>4, <3>1, PublishStep
  <2> QED
    BY <1>5, <1>6, <2>2, <2>3, <2>4 DEF Schedule
<1>7. ASSUME NEW d \in Copies, DeadLetter(c, d)
      PROVE  Inv'
  <2> DEFINE A == DLQAttributes(attrs[c])
  <2>1. /\ A \in SUBSET attrs[c]
        /\ Cardinality(SentAttributes) < MaxAttributes /\ attrs[c] = SentAttributes =>
             A = SentAttributes
    BY AttributesFit DEF DLQAttributes
  <2>2. st[c] = "failed" /\ ~RetriesLeft(c) /\ UNCHANGED <<succeeded, failures, metric>>
    BY <1>7 DEF DeadLetter
  <2> HIDE DEF A
  <2>3. CASE Publish(c, d, A) /\ st' = [st EXCEPT ![c] = "deadletter", ![d] = "dlq"] /\ faults' = faults
    BY <1>1, <2>1, <2>2, <2>3, PublishStep
  <2>4. CASE Publish(c, d, A) /\ st' = [st EXCEPT ![c] = "inflight", ![d] = "dlq"] /\ Fault
    <3>1. faults' \in Nat
      BY <1>1, <2>4 DEF Fault
    <3> QED
      BY <2>1, <2>2, <2>4, <3>1, PublishStep
  <2> QED
    BY <1>5, <1>7, <2>2, <2>3, <2>4 DEF DeadLetter, A
<1>8. CASE Delete(c)
  <2>1. st[c] \in Committing /\ UNCHANGED <<orig, rc, attrs, succeeded, failures>>
    BY <1>8 DEF Delete
  <2>2. /\ metric' \in [Committing -> SUBSET Copies]
        /\ \A k \in Committing : metric'[k] \subseteq metric[k] \cup (IF k = st[c] THEN {c} ELSE {})
    BY <1>1, <1>8, <2>1 DEF Delete, EmitMetric
  <2>3. st[c] \notin {"free", "dlq"}
    BY <2>1 DEF Committing
  <2>4. faults' \in Nat
    BY <1>1, <1>8 DEF Delete, Fault
  <2>5. PICK t \in {"gone", "inflight"} : st' = [st EXCEPT ![c] = t]
    BY <1>8 DEF Delete
  <2> QED
    BY <1>1, <2>1, <2>2, <2>3, <2>4, <2>5, MoveStep DEF States
<1> QED
  BY <1>2, <1>3, <1>4, <1>6, <1>7, <1>8 DEF Process

\* The invariant is inductive.
LEMMA Inductive == Inv /\ [Next]_vars => Inv'
<1> SUFFICES ASSUME Inv, [Next]_vars PROVE Inv'
  OBVIOUS
<1>1. ASSUME NEW c \in Copies, Process(c) PROVE Inv'
  BY <1>1, ProcessStep
<1>2. ASSUME NEW c \in Copies, Expire(c) \/ Fire(c) PROVE Inv'
  <2>1. /\ succeeded \subseteq Messages /\ faults \in Nat
        /\ metric \in [Committing -> SUBSET Copies]
        /\ failures \in [Messages -> Nat]
    BY DEF Inv, TypeOK
  <2> QED
    BY <1>2, <2>1, MoveStep DEF Expire, Fire, States
<1>3. CASE Crash
  BY <1>3, CrashStep
<1>4. CASE UNCHANGED vars
  <2>1. DataKept
    BY <1>4 DEF vars, DataKept
  <2> QED
    BY <1>4 DEF vars, Inv, TypeOK, Numbered, Retained, OutcomesTrue, CountsGrow, FailuresSpent,
       AttributesHeld, RetryBehind, LetterBehind, NextCount, Depth, DepthAt, Sent
<1> QED
  BY <1>1, <1>2, <1>3, <1>4 DEF Next, Settled

\* Inv holds before the first message is received and is kept by every call.
LEMMA Invariance == Spec => []Inv
BY InitInv, Inductive, PTL DEF Spec

-----------------------------------------------------------------------------

\* At-least-once: processScheduled never deletes the last copy of a message
\* that no handler run succeeded for, whatever call fails or loses its answer
\* and whenever the process dies.
THEOREM MessagesKept == Spec => []NoLoss
<1>1. Inv => NoLoss
  BY DEF Inv, Retained, NoLoss
<1> QED
  BY <1>1, Invariance, PTL

\* A message is dead-lettered after as many handler failures as its
\* MaxRetryCount and the count it came with say, and not retried beyond it.
THEOREM RetriesBounded == Spec => []RetryBudget
<1>1. ASSUME Inv, NEW c \in Copies
      PROVE  /\ st[c] = "dlq" => rc[c] > MaxRetryCount /\ failures[orig[c]] >= Budget(orig[c])
             /\ c > N /\ st[c] \notin {"free", "dlq"} =>
                  /\ rc[c] <= MaxRetryCount
                  /\ Sent(orig[c]) < MaxInt => rc[c] > Sent(orig[c])
  <2>1. /\ MaxInt \in Nat /\ MaxRetryCount \in Nat /\ MaxRetryCount < MaxInt
        /\ c \in Messages <=> c <= N
    BY RetryAssumption DEF Messages, Copies
  <2>2. Sent(orig[c]) \in 0 .. MaxInt
    BY <1>1, RetryAssumption, ParseType DEF Inv, TypeOK, Messages, Copies, Sent
  <2>3. CASE c \in Messages
    BY <1>1, <2>1, <2>3, RetryAssumption DEF Inv, Numbered, Messages
  <2>4. CASE c \notin Messages /\ st[c] # "free"
    <3>1. /\ rc[c] \in Int
          /\ IF Sent(orig[c]) = MaxInt THEN rc[c] = -(MaxInt + 1) \/ rc[c] >= 1
                                       ELSE rc[c] > Sent(orig[c])
          /\ st[c] = "dlq" <=> rc[c] > MaxRetryCount
      BY <1>1, <2>1, <2>4 DEF Inv, CountsGrow, Ints
    <3>2. failures[orig[c]] >= DepthAt(orig[c], rc[c]) /\ failures[orig[c]] \in Nat
      BY <1>1, <2>1, <2>4, <3>1, DepthType DEF Inv, FailuresSpent, Depth, TypeOK
    <3>3. st[c] = "dlq" => failures[orig[c]] >= Budget(orig[c])
      BY <2>1, <2>2, <3>1, <3>2 DEF DepthAt, Budget
    <3> QED
      BY <2>1, <2>2, <3>1, <3>3
  <2> QED
    BY <2>1, <2>3, <2>4
<1>2. Inv => RetryBudget
  BY <1>1 DEF RetryBudget
<1> QED
  BY <1>2, Invariance, PTL

\* Attributes that leave room for retry_count survive every retry and reach the
\* DLQ.
THEOREM AttributesSurvive == Spec => []AttributesKept
<1>1. Inv => AttributesKept
  BY DEF Inv, AttributesHeld, AttributesKept
<1> QED
  BY <1>1, Invariance, PTL

\* emitMetric counts no success that was not handled, no retry without its
\* copy and no dead letter that is not in the DLQ.
THEOREM MetricsTrue == Spec => []MetricsTruthful
<1>1. Inv => MetricsTruthful
  <2> SUFFICES ASSUME Inv PROVE MetricsTruthful
    OBVIOUS
  <2>1. \A k \in Committing : metric[k] \subseteq Copies
    BY DEF Inv, TypeOK
  <2> QED
    BY <2>1 DEF Inv, OutcomesTrue, MetricsTruthful, RetryBehind, LetterBehind, Committing
<1> QED
  BY <1>1, Invariance, PTL

-----------------------------------------------------------------------------
(* computeBackoff and scheduleAt.                                           *)

\* Before normalisation the loop has not moved and the arguments are the
\* caller's; the loop never runs past a normalised attempt of at least one.
Untouched ==
  pc = "normalise" => /\ i = 1 /\ maxDelay = arg.max
                      /\ attempt = arg.attempt /\ base = arg.base

BackoffInv == BackoffTypeOK /\ Untouched /\ Bounded /\ FiresOnTime

\* The least backoff of computeBackoff is positive.
LEMMA MinBackoff == minBackoff \in Int /\ 1 <= minBackoff
  BY DEF minBackoff

\* Larger is at least either argument.
LEMMA LargerBounds ==
  ASSUME NEW a \in Int, NEW b \in Int
  PROVE  Larger(a, b) \in Int /\ a <= Larger(a, b) /\ b <= Larger(a, b)
  BY DEF Larger

\* Smaller is at most either argument, and at least what both are at least.
LEMMA SmallerBounds ==
  ASSUME NEW a \in Int, NEW b \in Int, NEW c \in Int, c <= a, c <= b
  PROVE  /\ Smaller(a, b) \in Int /\ c <= Smaller(a, b)
         /\ Smaller(a, b) <= a /\ Smaller(a, b) <= b
  BY DEF Smaller

\* Doubling a value of at most half the maximum stays within the maximum,
\* which is how the loop of computeBackoff avoids overflow.
LEMMA HalfDoubles ==
  ASSUME NEW a \in Int, NEW m \in Int, a <= m \div 2
  PROVE  a * 2 <= m
  OBVIOUS

\* Truncation to whole seconds, as scheduleAt does it.
LEMMA Truncation ==
  ASSUME NEW t \in Int
  PROVE  LET f == (t \div Second) * Second IN f \in Int /\ f <= t /\ t < f + Second
  BY DEF Second

\* The inductive invariant holds of computeBackoff's arguments and is kept by
\* every step of its loop and of scheduleAt.
THEOREM BackoffInvariance == BackoffSpec => []BackoffInv
<1>1. BackoffInit => BackoffInv
  <2> SUFFICES ASSUME BackoffInit PROVE BackoffInv
    OBVIOUS
  <2>1. arg \in [attempt : Int, base : Int, max : Int, now : Nat]
    <3>1. PICK a \in Attempts, b \in Bases, m \in MaxDelays, t \in Clocks :
             arg = [attempt |-> a, base |-> b, max |-> m, now |-> t]
      BY DEF BackoffInit
    <3>2. a \in Int /\ b \in Int /\ m \in Int /\ t \in Nat
      BY BackoffAssumption
    <3> QED
      BY <3>1, <3>2
  <2>2. BackoffTypeOK
    BY <2>1 DEF BackoffInit, BackoffTypeOK
  <2> QED
    BY <2>2 DEF BackoffInit, BackoffInv, Untouched, Bounded, FiresOnTime
<1>2. BackoffInv /\ [BackoffNext]_backoffVars => BackoffInv'
  <2> SUFFICES ASSUME BackoffInv, [BackoffNext]_backoffVars PROVE BackoffInv'
    OBVIOUS
  <2> USE DEF BackoffInv, BackoffTypeOK, Untouched
  <2>1. CASE Normalise
    <3>1. arg.max \in Int /\ arg \in [attempt : Int, base : Int, max : Int, now : Nat]
      OBVIOUS
    <3>2. maxDelay' = Larger(arg.max, minBackoff) /\ maxDelay' \in Int /\ minBackoff <= maxDelay'
      BY <2>1, <3>1, MinBackoff, LargerBounds DEF Normalise
    <3>3. attempt' \in Int /\ 1 <= attempt'
      BY <2>1, LargerBounds DEF Normalise
    <3>4. Larger(base, minBackoff) \in Int /\ minBackoff <= Larger(base, minBackoff)
      BY MinBackoff, LargerBounds
    <3>5. base' \in Int /\ minBackoff <= base' /\ base' <= maxDelay'
      BY <2>1, <3>2, <3>4, MinBackoff, SmallerBounds DEF Normalise
    <3> QED
      BY <2>1, <3>1, <3>2, <3>3, <3>5 DEF Normalise, Bounded, FiresOnTime, minBackoff
  <2>2. CASE Double
    <3>1. delay * 2 \in Int /\ delay * 2 <= maxDelay /\ minBackoff <= delay * 2
      BY <2>2, HalfDoubles DEF Double, Bounded, minBackoff
    <3> QED
      BY <2>2, <3>1 DEF Double, Bounded, FiresOnTime
  <2>3. CASE Saturate
    <3>1. minBackoff <= maxDelay
      BY <2>3 DEF Saturate, Bounded, minBackoff
    <3> QED
      BY <2>3, <3>1 DEF Saturate, Bounded, FiresOnTime
  <2>4. CASE LoopEnd
    <3>1. delay' = delay
      BY <2>4 DEF LoopEnd, Bounded, Larger, Smaller, minBackoff
    <3> QED
      BY <2>4, <3>1 DEF LoopEnd, Bounded, FiresOnTime
  <2>5. CASE ScheduleAt
    <3>1. arg.now + delay \in Int
      OBVIOUS
    <3>2. fireAt' \in Int /\ fireAt' <= arg.now + delay /\ arg.now + delay < fireAt' + Second
      BY <2>5, <3>1, Truncation DEF ScheduleAt
    <3> QED
      BY <2>5, <3>2 DEF ScheduleAt, Bounded, FiresOnTime
  <2>6. CASE UNCHANGED backoffVars
    BY <2>6 DEF backoffVars, Bounded, FiresOnTime
  <2> QED
    BY <2>1, <2>2, <2>3, <2>4, <2>5, <2>6 DEF BackoffNext, Done
<1> QED
  BY <1>1, <1>2, PTL DEF BackoffSpec

\* Every variable of the loop keeps its type, for any arguments.
THEOREM BackoffTypeCorrect == BackoffSpec => []BackoffTypeOK
<1>1. BackoffInv => BackoffTypeOK
  BY DEF BackoffInv
<1> QED
  BY <1>1, BackoffInvariance, PTL

\* The delay of computeBackoff never leaves [minBackoff, maxDelay], whatever
\* attempt, base and maximum are, so that no doubling overflows.
THEOREM BackoffBounded == BackoffSpec => []Bounded
<1>1. BackoffInv => Bounded
  BY DEF BackoffInv
<1> QED
  BY <1>1, BackoffInvariance, PTL

\* scheduleAt fires within the second before now + backoff and never after it.
THEOREM FireTime == BackoffSpec => []FiresOnTime
<1>1. BackoffInv => FiresOnTime
  BY DEF BackoffInv
<1> QED
  BY <1>1, BackoffInvariance, PTL

\* The order of the naturals as a set of pairs.
Below == {ss \in Nat \X Nat : ss[1] < ss[2]}

\* Induction, in the form of the least counterexample: a set of naturals that
\* is not empty has a least element.
LEMMA LeastNat ==
  ASSUME NEW T \in SUBSET Nat, T # {}
  PROVE  \E x \in T : \A y \in T : x <= y
<1>1. IsWellFoundedOn(Below, Nat)
  BY NatLessThanWellFounded DEF OpToRel, Below
<1>2. PICK x \in T : \A y \in T : ~(<<y, x>> \in Below)
  BY <1>1, WFMin
<1>3. \A y \in T : x <= y
  <2> TAKE y \in T
  <2>1. x \in Nat /\ y \in Nat /\ <<y, x>> \notin Below
    BY <1>2
  <2>2. x \in Nat /\ y \in Nat /\ y < x => <<y, x>> \in Below
    BY DEF Below
  <2> QED
    BY <2>1, <2>2
<1> QED
  BY <1>3

\* f holds the powers of two up to n.
PowersTo(n, f) ==
  /\ f \in [0 .. n -> Nat]
  /\ \A k \in 0 .. n : f[k] = IF k = 0 THEN 1 ELSE 2 * f[k - 1]

\* The recursion of Pow2 has a solution up to every n.
LEMMA PowersExist == \A n \in Nat : \E f : PowersTo(n, f)
<1> DEFINE T == {n \in Nat : ~ \E f : PowersTo(n, f)}
<1> SUFFICES ASSUME T # {} PROVE FALSE
  OBVIOUS
<1>1. PICK n \in T : \A y \in T : n <= y
  <2> T \in SUBSET Nat
    OBVIOUS
  <2> HIDE DEF T
  <2> QED
    BY LeastNat
<1>2. n \in Nat /\ ~ \E f : PowersTo(n, f)
  OBVIOUS
<1>3. CASE n = 0
  <2>1. PowersTo(0, [k \in 0 .. 0 |-> 1])
    BY DEF PowersTo
  <2> QED
    BY <2>1, <1>2, <1>3
<1>4. CASE n # 0
  <2>1. n - 1 \in Nat /\ n - 1 \notin T
    BY <1>1, <1>2, <1>4
  <2>2. PICK f : PowersTo(n - 1, f)
    BY <2>1
  <2> DEFINE g == [k \in 0 .. n |-> IF k = n THEN 2 * f[n - 1] ELSE f[k]]
  <2>3. f[n - 1] \in Nat
    BY <2>1, <2>2 DEF PowersTo
  <2>4. g \in [0 .. n -> Nat]
    BY <2>1, <2>2, <2>3, <1>2 DEF PowersTo
  <2>5. \A k \in 0 .. n : g[k] = IF k = 0 THEN 1 ELSE 2 * g[k - 1]
    BY <2>1, <2>2, <2>3, <1>2, <1>4 DEF PowersTo
  <2>6. PowersTo(n, g)
    BY <2>4, <2>5 DEF PowersTo
  <2> QED
    BY <2>6, <1>2
<1> QED
  BY <1>3, <1>4

\* Two solutions agree wherever both are defined.
LEMMA PowersAgree ==
  ASSUME NEW n \in Nat, NEW m \in Nat, NEW f, NEW g, PowersTo(n, f), PowersTo(m, g),
         NEW k \in Nat, k <= n, k <= m
  PROVE  f[k] = g[k]
<1> DEFINE T == {j \in Nat : j <= n /\ j <= m /\ f[j] # g[j]}
<1> SUFFICES ASSUME T # {} PROVE FALSE
  OBVIOUS
<1>1. PICK j \in T : \A y \in T : j <= y
  <2> T \in SUBSET Nat
    OBVIOUS
  <2> HIDE DEF T
  <2> QED
    BY LeastNat
<1>2. CASE j = 0
  BY <1>2 DEF PowersTo
<1>3. CASE j # 0
  <2>1. j - 1 \in Nat /\ j - 1 \notin T
    BY <1>1, <1>3
  <2>2. f[j - 1] = g[j - 1]
    BY <2>1
  <2> QED
    BY <2>2, <1>3 DEF PowersTo
<1> QED
  BY <1>2, <1>3

\* Pow2 satisfies the equations it is defined by.
LEMMA Pow2Def == /\ Pow2 \in [Nat -> Nat]
                 /\ Pow2[0] = 1
                 /\ \A k \in Nat : Pow2[k + 1] = 2 * Pow2[k]
<1> DEFINE P(n) == CHOOSE f : PowersTo(n, f)
           h == [n \in Nat |-> P(n)[n]]
<1>1. \A n \in Nat : PowersTo(n, P(n))
  BY PowersExist
<1> HIDE DEF P
<1>2. \A n \in Nat : h[n] \in Nat
  BY <1>1 DEF PowersTo
<1>3. h[0] = 1
  BY <1>1 DEF PowersTo
<1>4. \A n \in Nat : n # 0 => h[n] = 2 * h[n - 1]
  <2> TAKE n \in Nat
  <2> HAVE n # 0
  <2>1. n - 1 \in Nat /\ P(n)[n - 1] = P(n - 1)[n - 1]
    BY <1>1, PowersAgree
  <2>2. P(n)[n] = 2 * P(n)[n - 1]
    BY <1>1 DEF PowersTo
  <2> QED
    BY <2>1, <2>2
<1>5. h = [k \in Nat |-> IF k = 0 THEN 1 ELSE 2 * h[k - 1]]
  BY <1>2, <1>3, <1>4
<1> HIDE DEF h
<1>6. Pow2 = [k \in Nat |-> IF k = 0 THEN 1 ELSE 2 * Pow2[k - 1]]
  BY <1>5 DEF Pow2
<1>7. Pow2[0] = 1 /\ \A k \in Nat : Pow2[k + 1] = 2 * Pow2[k]
  BY <1>6
<1>8. \A k \in Nat : Pow2[k] \in Nat
  <2> DEFINE T == {k \in Nat : Pow2[k] \notin Nat}
  <2> SUFFICES ASSUME T # {} PROVE FALSE
    OBVIOUS
  <2>1. PICK j \in T : \A y \in T : j <= y
    <3> T \in SUBSET Nat
      OBVIOUS
    <3> HIDE DEF T
    <3> QED
      BY LeastNat
  <2>2. j # 0 /\ j - 1 \in Nat /\ j - 1 \notin T
    BY <2>1, <1>7
  <2>3. Pow2[(j - 1) + 1] = 2 * Pow2[j - 1]
    BY <1>7, <2>2
  <2> QED
    BY <2>2, <2>3
<1> QED
  BY <1>6, <1>7, <1>8
\* The powers of two are positive and grow.
LEMMA Pow2Grows ==
  /\ \A k \in Nat : Pow2[k] \in Nat /\ 1 <= Pow2[k]
  /\ \A k, n \in Nat : k <= n => Pow2[k] <= Pow2[n]
<1>1. \A k \in Nat : Pow2[k] \in Nat /\ 1 <= Pow2[k]
  <2> DEFINE T == {k \in Nat : ~(1 <= Pow2[k])}
  <2>1. T = {}
    <3> SUFFICES ASSUME T # {} PROVE FALSE
      OBVIOUS
    <3>1. PICK j \in T : \A y \in T : j <= y
      <4> T \in SUBSET Nat
        OBVIOUS
      <4> HIDE DEF T
      <4> QED
        BY LeastNat
    <3>2. j # 0 /\ j - 1 \in Nat /\ j - 1 \notin T
      BY <3>1, Pow2Def
    <3>3. Pow2[(j - 1) + 1] = 2 * Pow2[j - 1] /\ Pow2[j - 1] \in Nat
      BY <3>2, Pow2Def
    <3> QED
      BY <3>2, <3>3
  <2> QED
    BY <2>1, Pow2Def
<1>2. \A k, n \in Nat : k <= n => Pow2[k] <= Pow2[n]
  <2> TAKE k \in Nat
  <2> DEFINE T == {n \in Nat : k <= n /\ ~(Pow2[k] <= Pow2[n])}
  <2>1. T = {}
    <3> SUFFICES ASSUME T # {} PROVE FALSE
      OBVIOUS
    <3>1. PICK j \in T : \A y \in T : j <= y
      <4> T \in SUBSET Nat
        OBVIOUS
      <4> HIDE DEF T
      <4> QED
        BY LeastNat
    <3>2. j # k /\ j - 1 \in Nat /\ k <= j - 1 /\ j - 1 \notin T
      BY <3>1, <1>1
    <3>3. Pow2[(j - 1) + 1] = 2 * Pow2[j - 1] /\ Pow2[k] <= Pow2[j - 1]
      BY <3>2, Pow2Def
    <3> QED
      BY <3>1, <3>2, <3>3, <1>1
  <2> QED
    BY <2>1
<1> QED
  BY <1>1, <1>2

\* Multiplying by a positive number keeps an order.
LEMMA TimesGrows ==
  ASSUME NEW a \in Nat, 1 <= a, NEW b \in Int, NEW c \in Int, b <= c
  PROVE  a * b \in Int /\ a * c \in Int /\ a * b <= a * c
  OBVIOUS

\* What the loop has computed after i - 1 doublings.
Doubled ==
  pc = "loop" =>
    /\ attempt = Larger(arg.attempt, 1)
    /\ base = Smaller(Larger(arg.base, minBackoff), maxDelay)
    /\ minBackoff <= base
    /\ delay = base * Pow2[i - 1]

ReferenceInv == BackoffInv /\ Doubled /\ MatchesReference

\* The loop computes base * 2^(i-1), leaves it early only when the value for
\* this attempt and every later one is above the maximum, and caps it.
THEOREM ReferenceInvariance == BackoffSpec => []ReferenceInv
<1>1. BackoffInit => Doubled /\ MatchesReference
  BY DEF BackoffInit, Doubled, MatchesReference
<1>2. BackoffInv /\ BackoffInv' /\ Doubled /\ MatchesReference /\ [BackoffNext]_backoffVars
        => Doubled' /\ MatchesReference'
  <2> SUFFICES ASSUME BackoffInv, BackoffInv', Doubled, MatchesReference,
                      [BackoffNext]_backoffVars
               PROVE  Doubled' /\ MatchesReference'
    OBVIOUS
  <2>1. BackoffTypeOK /\ BackoffTypeOK' /\ Bounded /\ Bounded' /\ Untouched
    BY DEF BackoffInv
  <2>2. arg \in [attempt : Int, base : Int, max : Int, now : Nat] /\ attempt \in Int
        /\ base \in Int /\ maxDelay \in Int /\ delay \in Int /\ i \in Nat
    BY <2>1 DEF BackoffTypeOK
  <2>3. CASE Normalise
    <3>1. maxDelay' \in Int /\ minBackoff <= maxDelay' /\ maxDelay' = Larger(arg.max, minBackoff)
      BY <2>1, <2>2, <2>3, MinBackoff, LargerBounds DEF Normalise, Untouched
    <3>2. attempt = arg.attempt /\ base = arg.base
      BY <2>3, <2>1 DEF Normalise, Untouched
    <3>3. base' = Smaller(Larger(arg.base, minBackoff), maxDelay') /\ minBackoff <= base'
      BY <2>2, <2>3, <3>1, <3>2, MinBackoff, LargerBounds, SmallerBounds DEF Normalise
    <3>4. delay' = base' * Pow2[i' - 1]
      BY <2>1, <2>2, <2>3, <3>1, <3>3, Pow2Def DEF Normalise, Untouched, BackoffTypeOK
    <3> QED
      BY <2>3, <3>2, <3>3, <3>4 DEF Normalise, Doubled, MatchesReference
  <2>4. ASSUME pc = "loop"
        PROVE  /\ base \in Nat /\ 1 <= base /\ i - 1 \in Nat /\ attempt - 1 \in Nat
               /\ i - 1 <= attempt - 1 /\ Pow2[i - 1] \in Nat /\ Pow2[attempt - 1] \in Nat
               /\ base * Pow2[i - 1] = delay /\ base * Pow2[attempt - 1] \in Int
               /\ delay \in Int /\ delay <= maxDelay /\ 1 <= delay
               /\ Reference(arg) = Smaller(base * Pow2[attempt - 1], maxDelay)
    <3>1. i - 1 \in Nat /\ attempt - 1 \in Nat /\ i - 1 <= attempt - 1
          /\ maxDelay = Larger(arg.max, minBackoff) /\ delay <= maxDelay /\ 1 <= delay
      BY <2>1, <2>2, <2>4 DEF Bounded, minBackoff
    <3>2. base \in Nat /\ 1 <= base
      BY <2>2, <2>4 DEF Doubled, minBackoff
    <3>3. Pow2[i - 1] \in Nat /\ Pow2[attempt - 1] \in Nat
      BY <3>1, Pow2Grows
    <3>4. Reference(arg) = Smaller(base * Pow2[attempt - 1], maxDelay)
      BY <2>4, <3>1 DEF Doubled, Reference
    <3> HIDE DEF Reference
    <3>5. base * Pow2[attempt - 1] \in Int
      <4> DEFINE p == Pow2[attempt - 1]
      <4>1. p \in Nat
        BY <3>3
      <4> HIDE DEF p
      <4>2. base * p \in Int
        BY <4>1, <3>2
      <4> QED
        BY <4>2 DEF p
    <3>6. base * Pow2[i - 1] = delay
      BY <2>4 DEF Doubled
    <3> QED
      BY <2>2, <3>1, <3>2, <3>3, <3>4, <3>5, <3>6
  <2>5. CASE Double
    <3>1. pc = "loop" /\ i' - 1 = (i - 1) + 1 /\ delay' = delay * 2
          /\ UNCHANGED <<arg, attempt, base, maxDelay, pc>>
      BY <2>2, <2>5 DEF Double
    <3>2. Pow2[(i - 1) + 1] = 2 * Pow2[i - 1]
      BY <2>4, <3>1, Pow2Def
    <3>3. delay' = base * Pow2[i' - 1]
      <4> DEFINE p == Pow2[i - 1]
      <4>1. p \in Nat /\ base \in Nat /\ base * p = delay
        BY <2>4, <3>1
      <4> HIDE DEF p
      <4>2. (base * p) * 2 = base * (2 * p)
        BY <4>1
      <4>3. Pow2[i' - 1] = 2 * p
        BY <3>1, <3>2 DEF p
      <4> QED
        BY <3>1, <4>1, <4>2, <4>3
    <3> QED
      BY <3>1, <3>3 DEF Doubled, MatchesReference
  <2>6. CASE Saturate
    <3>1. pc = "loop" /\ i < attempt /\ delay > maxDelay \div 2
          /\ delay' = maxDelay /\ pc' = "schedule" /\ arg' = arg
      BY <2>6 DEF Saturate
    <3>2. (i - 1) + 1 <= attempt - 1 /\ (i - 1) + 1 \in Nat
      BY <2>2, <2>4, <3>1
    <3>3. 2 * Pow2[i - 1] <= Pow2[attempt - 1]
      BY <2>4, <3>1, <3>2, Pow2Def, Pow2Grows
    <3>4. maxDelay < base * Pow2[attempt - 1]
      <4> DEFINE p == Pow2[i - 1]
                 q == Pow2[attempt - 1]
      <4>1. p \in Nat /\ q \in Nat /\ base \in Nat /\ 1 <= base /\ base * p = delay /\ 2 * p <= q
        BY <2>4, <3>1, <3>3
      <4> HIDE DEF p, q
      <4>2. base * (2 * p) <= base * q /\ base * q \in Int
        BY <4>1, TimesGrows
      <4>3. base * (2 * p) = (base * p) * 2
        BY <4>1
      <4>4. maxDelay < delay * 2
        BY <2>2, <3>1
      <4>5. maxDelay < base * q
        BY <4>1, <4>2, <4>3, <4>4, <2>2
      <4> QED
        BY <4>5 DEF q
    <3>5. Reference(arg) = maxDelay
      BY <2>4, <3>1, <3>4, <2>2 DEF Smaller
    <3> QED
      BY <3>1, <3>5 DEF Doubled, MatchesReference
  <2>7. CASE LoopEnd
    <3>1. pc = "loop" /\ i = attempt /\ delay' = Larger(Smaller(delay, maxDelay), minBackoff)
          /\ pc' = "schedule" /\ arg' = arg
      BY <2>1, <2>2, <2>7 DEF LoopEnd, Bounded
    <3>2. delay' = delay /\ Reference(arg) = delay
      BY <2>2, <2>4, <3>1 DEF Larger, Smaller, minBackoff
    <3> QED
      BY <3>1, <3>2 DEF Doubled, MatchesReference
  <2>8. CASE ScheduleAt
    BY <2>8 DEF ScheduleAt, Doubled, MatchesReference
  <2>9. CASE UNCHANGED backoffVars
    BY <2>9 DEF backoffVars, Doubled, MatchesReference
  <2> QED
    BY <2>3, <2>5, <2>6, <2>7, <2>8, <2>9 DEF BackoffNext, Done
<1> QED
  BY <1>1, <1>2, BackoffInvariance, PTL DEF BackoffSpec, ReferenceInv

\* For every attempt, base and maximum the loop returns what the closed formula
\* says, min(base * 2^(attempt-1), max) of the normalised arguments.
THEOREM ReferenceMatched == BackoffSpec => []MatchesReference
<1>1. ReferenceInv => MatchesReference
  BY DEF ReferenceInv
<1> QED
  BY <1>1, ReferenceInvariance, PTL

=============================================================================
