------------------------------ MODULE MCBroker ------------------------------
(***************************************************************************)
(* Three routes whose consumers fail, stop and get stuck in any order.     *)
(***************************************************************************)
EXTENDS Broker

None == {}
Second == {2}
Last == {3}
FirstTwo == {1, 2}
Either == BOOLEAN
Configured == {TRUE}

=============================================================================
