---------------------------- MODULE OrderedQueue ----------------------------
(***************************************************************************)
(* What a consumer promises to the messages of its queue: each is done     *)
(* with (its handler has succeeded, or a retry or the DLQ has taken over)  *)
(* before it is removed, nothing that is done with or removed comes back,  *)
(* and, as long as the promise of order stands, the messages of a key are  *)
(* done with in queue order, whatever is redelivered, held back, scheduled *)
(* or lost on the way.                                                     *)
(***************************************************************************)
EXTENDS Naturals

CONSTANTS Msgs,   \* messages by their queue positions
          KeyOf   \* message -> its group key

VARIABLES ordered,   \* the promise of order stands
          done,      \* handled successfully or handed on at least once
          gone       \* removed from the queue

vars == <<ordered, done, gone>>

Before(m) == {n \in Msgs : KeyOf[n] = KeyOf[m] /\ n < m}

Init ==
  /\ ordered \in BOOLEAN
  /\ done = {}
  /\ gone = {}

\* The first delivery of m that ends well.
Complete(m) ==
  /\ m \notin done
  /\ ordered => Before(m) \subseteq done
  /\ done' = done \cup {m}
  /\ UNCHANGED <<ordered, gone>>

\* One delete request takes effect.
Remove(S) ==
  /\ S # {}
  /\ S \subseteq done \ gone
  /\ gone' = gone \cup S
  /\ UNCHANGED <<ordered, done>>

\* The consumer is canceled.
Withdraw ==
  /\ ordered
  /\ ordered' = FALSE
  /\ UNCHANGED <<done, gone>>

Next ==
  \/ \E m \in Msgs : Complete(m)
  \/ \E S \in SUBSET Msgs : Remove(S)
  \/ Withdraw

Spec == Init /\ [][Next]_vars

=============================================================================
