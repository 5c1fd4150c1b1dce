--------------------------- MODULE MCRetryBackoff ---------------------------
(***************************************************************************)
(* Arguments around every boundary: zero and negative ones, base above and *)
(* at the maximum, odd and even maxima, attempts up to saturation.         *)
(***************************************************************************)
EXTENDS RetryBackoff

MCAttempts == -1 .. 6
MCBases == {-1, 0, 1, 2, 3, 1000}
MCMaxDelays == {0, 1, 5, 6, 7, 24, 4000}
MCClocks == {0, 999, 1500}

=============================================================================
