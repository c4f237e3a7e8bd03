-------------------------- MODULE MCUniverseBroadcast --------------------------
(* Small instances of UniverseBroadcast. *)
EXTENDS UniverseBroadcast
=============================================================================
