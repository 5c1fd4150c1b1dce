----------------------- MODULE MCVisibilityManager -----------------------
(***************************************************************************)
(* A 14 second timeout (renewed every 4 seconds) whose second renewal hits *)
(* the upper clamp; backoffs below and above one second.                   *)
(***************************************************************************)
EXTENDS VisibilityManager

MCDelays == {500, 3000}
Either == BOOLEAN

=============================================================================
