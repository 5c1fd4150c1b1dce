---------------------------- MODULE RetryBackoff ----------------------------
(***************************************************************************)
(* consumer/backoff.go: computeBackoff as the loop it is, and scheduleAt.  *)
(* Durations are in milliseconds; the code's nanosecond int64 values are   *)
(* bounded by maxDelay (at most 24 hours), which is what the loop relies   *)
(* on not to overflow.  Names every component has carry "Backoff" here, so *)
(* that a module can extend this one beside ScheduledRetry, its caller.    *)
(***************************************************************************)
EXTENDS Integers

CONSTANTS Attempts,   \* attempt arguments
          Bases,      \* base arguments
          MaxDelays,  \* maxDelay arguments
          Clocks      \* the scheduler's clock when schedule runs

ASSUME BackoffAssumption ==
  /\ Attempts \subseteq Int
  /\ Bases \subseteq Int
  /\ MaxDelays \subseteq Int
  /\ Clocks \subseteq Nat

minBackoff == 1
Second == 1000

VARIABLES arg,       \* the arguments: attempt, base, max, and the clock
          attempt, base, maxDelay,  \* the normalised arguments
          i, delay,  \* the loop
          pc,        \* "normalise", "loop", "schedule" or "done"
          fireAt     \* what scheduleAt returned

backoffVars == <<arg, attempt, base, maxDelay, i, delay, pc, fireAt>>

Larger(a, b) == IF a < b THEN b ELSE a
Smaller(a, b) == IF a < b THEN a ELSE b

BackoffInit ==
  /\ arg \in [attempt : Attempts, base : Bases, max : MaxDelays, now : Clocks]
  /\ attempt = arg.attempt
  /\ base = arg.base
  /\ maxDelay = arg.max
  /\ i = 1
  /\ delay = 0
  /\ pc = "normalise"
  /\ fireAt = 0

\* Mutant: a base above the maximum is kept.
NormaliseKeepBase ==
  /\ pc = "normalise"
  /\ maxDelay' = Larger(maxDelay, minBackoff)
  /\ base' = Larger(base, minBackoff)
  /\ attempt' = Larger(attempt, 1)
  /\ delay' = base'
  /\ pc' = "loop"
  /\ UNCHANGED <<arg, i, fireAt>>

\* The defensive normalisation of the arguments.
Normalise ==
  /\ pc = "normalise"
  /\ maxDelay' = Larger(maxDelay, minBackoff)
  /\ base' = Smaller(Larger(base, minBackoff), maxDelay')
  /\ attempt' = Larger(attempt, 1)
  /\ delay' = base'
  /\ pc' = "loop"
  /\ UNCHANGED <<arg, i, fireAt>>

\* One more doubling that stays within maxDelay.
Double ==
  /\ pc = "loop"
  /\ i < attempt
  /\ delay <= maxDelay \div 2
  /\ delay' = delay * 2
  /\ i' = i + 1
  /\ UNCHANGED <<arg, attempt, base, maxDelay, pc, fireAt>>

\* The next doubling would exceed maxDelay: return maxDelay.
Saturate ==
  /\ pc = "loop"
  /\ i < attempt
  /\ delay > maxDelay \div 2
  /\ delay' = maxDelay
  /\ pc' = "schedule"
  /\ UNCHANGED <<arg, attempt, base, maxDelay, i, fireAt>>

\* Mutant: one doubling less.
LoopEndEarly ==
  /\ pc = "loop"
  /\ i >= attempt - 1
  /\ delay' = Larger(Smaller(delay, maxDelay), minBackoff)
  /\ pc' = "schedule"
  /\ UNCHANGED <<arg, attempt, base, maxDelay, i, fireAt>>

\* The loop is over; the last two bounds are checked.
LoopEnd ==
  /\ pc = "loop"
  /\ i >= attempt
  /\ delay' = Larger(Smaller(delay, maxDelay), minBackoff)
  /\ pc' = "schedule"
  /\ UNCHANGED <<arg, attempt, base, maxDelay, i, fireAt>>

\* Mutant: the fire time is rounded to the second after next.
ScheduleAtUp ==
  /\ pc = "schedule"
  /\ fireAt' = ((arg.now + delay) \div Second + 2) * Second
  /\ pc' = "done"
  /\ UNCHANGED <<arg, attempt, base, maxDelay, i, delay>>

\* scheduleAt: now + backoff truncated to whole seconds.
ScheduleAt ==
  /\ pc = "schedule"
  /\ fireAt' = ((arg.now + delay) \div Second) * Second
  /\ pc' = "done"
  /\ UNCHANGED <<arg, attempt, base, maxDelay, i, delay>>

Done == pc = "done" /\ UNCHANGED backoffVars

BackoffNext == Normalise \/ Double \/ Saturate \/ LoopEnd \/ ScheduleAt \/ Done

BackoffSpec == BackoffInit /\ [][BackoffNext]_backoffVars

-----------------------------------------------------------------------------

\* Every variable of computeBackoff and scheduleAt has its type.
BackoffTypeOK ==
  /\ arg \in [attempt : Int, base : Int, max : Int, now : Nat]
  /\ attempt \in Int /\ base \in Int /\ maxDelay \in Int
  /\ i \in Nat /\ delay \in Int /\ fireAt \in Int
  /\ pc \in {"normalise", "loop", "schedule", "done"}

\* "keeps the result bounded and avoids any integer overflow regardless of how
\* large attempt is": every value the loop computes, the doubled one included,
\* is between 1ms and the normalised maximum, and the loop makes no step beyond
\* the attempt.
Bounded ==
  pc # "normalise" => /\ i \in 1 .. attempt
                      /\ minBackoff <= delay
                      /\ delay <= maxDelay
                      /\ maxDelay = Larger(arg.max, minBackoff)

\* 2^k as the reference uses it.
Pow2[k \in Nat] == IF k = 0 THEN 1 ELSE 2 * Pow2[k - 1]

\* The reference: base doubled for every attempt after the first, capped.
Reference(a) ==
  LET top == Larger(a.max, minBackoff)
      low == Smaller(Larger(a.base, minBackoff), top)
  IN  Smaller(low * Pow2[Larger(a.attempt, 1) - 1], top)

\* computeBackoff(attempt, base, max) is min(base * 2^(attempt-1), max) on the
\* normalised arguments.
MatchesReference == pc \in {"schedule", "done"} => delay = Reference(arg)

\* "keeps the configured invocation time within one second of now + backoff",
\* and never after it.
FiresOnTime ==
  pc = "done" => fireAt <= arg.now + delay /\ arg.now + delay < fireAt + Second

=============================================================================
