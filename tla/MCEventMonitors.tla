-------------------------- MODULE MCEventMonitors --------------------------
(* A small instance of EventMonitors. *)
EXTENDS EventMonitors
=============================================================================
