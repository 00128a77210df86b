-------------------------- MODULE MCEventConnector --------------------------
(* Three threads of a component around one event interface. *)
EXTENDS EventConnector
=============================================================================
