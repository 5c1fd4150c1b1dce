----------------------------- MODULE MCConsumer -----------------------------
(***************************************************************************)
(* Three messages: 1 and 3 share a group key, 2 is in the same SQS message *)
(* group under another key (OneGroup) or in a group of its own (TwoGroups).*)
(***************************************************************************)
EXTENDS Consumer, TLC

CONSTANTS w1, w2, g1, g2, k1, k2

MCWorkers == {w1, w2}
MCGroups == {g1, g2}
MCKeys == {k1, k2}

MCKeyOf == <<k1, k2, k1>>
OneGroup == <<g1, g1, g1>>
TwoGroups == <<g1, g2, g1>>

Setting(p, d, s, g, c, f) ==
  [route |-> [perGroupID |-> p, deleteBatch |-> d, scheduled |-> s],
   env |-> [groupOf |-> g, mayCancel |-> c, maxFaults |-> f]]

\* PerGroupID, with either kind of delete, through two faults; canceled at any
\* point, PerGroupID with batched deletes and Parallel with synchronous ones
\* through one fault; the Scheduled model, with either kind of delete, canceled
\* at any point; and both modes with batched deletes and two message groups.
RunSettings ==
  {Setting(TRUE, FALSE, FALSE, OneGroup, FALSE, 2),
   Setting(TRUE, TRUE, FALSE, OneGroup, FALSE, 2),
   Setting(TRUE, TRUE, FALSE, OneGroup, TRUE, 1),
   Setting(FALSE, FALSE, FALSE, OneGroup, TRUE, 1),
   Setting(TRUE, FALSE, TRUE, OneGroup, TRUE, 1),
   Setting(TRUE, TRUE, TRUE, OneGroup, TRUE, 0),
   Setting(TRUE, TRUE, FALSE, TwoGroups, TRUE, 0),
   Setting(FALSE, TRUE, FALSE, TwoGroups, TRUE, 0)}

\* PerGroupID with cancellation and nothing else that goes wrong.
CancelSettings == {Setting(TRUE, d, FALSE, TwoGroups, TRUE, 0) : d \in BOOLEAN}

\* Each key has a worker of its own.
Apart == k1 :> w1 @@ k2 :> w2

=============================================================================
