-------------------------- MODULE MCDeleteBatcher --------------------------
(***************************************************************************)
(* Two senders, a channel that fills up, and batches that fill up.         *)
(***************************************************************************)
EXTENDS DeleteBatcher

CONSTANTS h1, h2, h3, s1, s2

MCHandles == {h1, h2, h3}
MCSenders == {s1, s2}

=============================================================================
